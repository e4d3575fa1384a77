---------------------- MODULE UvmChannelProgressProofs ----------------------
(***************************************************************************)
(* More proofs about the channel pools of UvmChannel, for every number of  *)
(* threads, channels and entries: the units of the push semaphore, the     *)
(* order of the ring with the GPU's indexes in it, the values of the       *)
(* tracking semaphore, push infos, IVs and keys.  They rest on the claims  *)
(* and the ring of UvmChannelProofs.                                       *)
(***************************************************************************)
EXTENDS UvmChannelProofs, FiniteSetTheorems

-----------------------------------------------------------------------------
(* The inductive invariant.                                                *)

\* The IVs that a begun push will use are left.
IvInv ==
    /\ \A c \in Channels : iv_left[c] >= 0
    /\ \A t \in Threads : pc[t] \in {"begin", "begun"} => iv_left[call[t].channel] >= 1

\* Threads that hold a unit of the push semaphore, for a channel they reserve or own.
Units == {t \in Threads : pc[t] \in Holders \cup Owners}

UnitsInv == push_sem + rotation_slots + Cardinality(Units) = NumChannels

\* The holder of the mutex reserves all channels, and has them while it rotates.
RotationInv ==
    /\ \A t \in Threads : rotation_mutex = t <=> pc[t] \in Rotators
    /\ rotation_mutex = None => rotation_slots = 0
    /\ \A t \in Threads :
         /\ pc[t] = "rotate_decide" => rotation_slots = 0
         /\ pc[t] = "reserve_all" => rotation_slots < NumChannels
         /\ pc[t] \in {"rotate_update", "rotate_pop", "rotate_check", "rotate_key"} =>
              rotation_slots = NumChannels

\* In ring order: what the driver has retired, what the GPU has processed, what it has
\* been given, what the driver has written.
ChannelOrder(c) ==
    /\ Distance(gpu_get[c], gpu[c].get) <= Distance(gpu_get[c], gpu_put[c])
    /\ Distance(gpu_get[c], gpu_put[c]) <= Pending(c)

OrderInv == \A c \in Channels : ChannelOrder(c)

\* A channel's indirect submissions that are still to be made.
Submitting(t, c) == pc[t] \in {"submit", "submit_ctrl"} /\ call[t].channel = c

\* Each is about an entry of its own that the GPU has not been given.
SubmitInv ==
    /\ \A t \in Threads, c \in Channels : Submitting(t, c) =>
         /\ Distance(gpu_get[c], gpu_put[c]) <= Distance(gpu_get[c], call[t].old_cpu_put)
         /\ Distance(gpu_get[c], call[t].old_cpu_put) < Pending(c)
    /\ \A t, u \in Threads, c \in Channels :
         Submitting(t, c) /\ Submitting(u, c) /\ call[t].old_cpu_put = call[u].old_cpu_put => t = u

\* A launch through WLC is part of uvm_channel_end_push(), so that only the control entry
\* that a thread has just written may be missing.
WlcInv ==
    WlcReady =>
      /\ \A t \in Threads : pc[t] # "submit"
      /\ \A c \in Channels : gpu_put[c] # cpu_put[c] =>
           \E t \in Threads : pc[t] = "submit_ctrl" /\ call[t].channel = c
                              /\ gpu_put[c] = call[t].old_cpu_put
                              /\ cpu_put[c] = NextSlot(call[t].old_cpu_put)

IsPending(c, i) == Distance(gpu_get[c], i) < Pending(c)

\* The tracking value of an entry, or the one that the next entry will have.
Value(c, i) == IF i = cpu_put[c] THEN queued_value[c] + 1 ELSE gpfifo_entries[c][i].value

\* The value that an entry leaves for the next: only a push takes its value.
Following(c, i) ==
    IF gpfifo_entries[c][i].type = "NORMAL" THEN gpfifo_entries[c][i].value + 1
                                            ELSE gpfifo_entries[c][i].value

\* Values follow each other in the ring; the GPU's next entry has the value after that of
\* the semaphore, and the first pending entry has none after the completed value.
ChannelValues(c) ==
    /\ completed_value[c] <= gpu[c].semaphore /\ gpu[c].semaphore <= queued_value[c]
    /\ Value(c, gpu[c].get) = gpu[c].semaphore + 1
    /\ Value(c, gpu_get[c]) <= completed_value[c] + 1
    /\ \A i \in Slots : IsPending(c, i) =>
         /\ Value(c, NextSlot(i)) = Following(c, i)
         /\ Following(c, i) <= queued_value[c] + 1

ValuesInv == \A c \in Channels : ChannelValues(c)

\* A value read before the pool lock was taken has been observed.
ReadInv ==
    \A t \in Threads :
        /\ pc[t] \in {"poll_pop", "iv_pop"} =>
             call[t].completed <= completed_value[call[t].channel]
        /\ pc[t] \in {"spin_pop", "rotate_pop"} =>
             call[t].completed <= completed_value[call[t].index]

\* The channels that a rotation has waited for are idle.
DrainInv ==
    \A t \in Threads :
        /\ pc[t] \in {"rotate_update", "rotate_pop", "rotate_check"} =>
             \A c \in Channels : c < call[t].index => Pending(c) = 0
        /\ pc[t] = "rotate_key" => \A c \in Channels : Pending(c) = 0

\* Pushes of a channel that have begun, and that are pending.
Begun(c) == {t \in Threads : pc[t] = "begun" /\ call[t].channel = c}

InfosInv ==
    \A c \in Channels :
        push_infos[c] + Cardinality(Pushes(c, Pending(c))) + Cardinality(Begun(c))
          = NumGpfifoEntries

ProgressInv ==
    /\ IvInv /\ UnitsInv /\ RotationInv /\ OrderInv /\ SubmitInv /\ WlcInv /\ ValuesInv
    /\ ReadInv /\ DrainInv /\ InfosInv /\ KeyVersionMatches

Inv == ClaimsRingInv /\ ProgressInv

-----------------------------------------------------------------------------
(* The steps, by what they do to the ring.                                 *)

\* Steps that leave the ring, the tracking semaphore and the GPU alone.
Quiet(t) ==
    \/ Reserve(t) \/ StartRotate(t) \/ RotateLock(t) \/ RotateDecide(t) \/ ReserveAll(t)
    \/ RotateKey(t) \/ ReleaseAll(t) \/ Down(t) \/ Claim(t) \/ SpinClaim(t) \/ CheckIvs(t)
    \/ IvRotate(t) \/ IvRefuse(t) \/ BeginPush(t) \/ Release(t)

\* Steps that read a tracking semaphore.
Observing(t) ==
    (\E c \in Channels : StartPoll(t, c)) \/ RotateUpdate(t) \/ SpinUpdate(t) \/ IvUpdate(t)

\* Steps that may retire entries.
Retiring(t) ==
    \/ Poll(t) \/ RotatePop(t) \/ SpinPop(t) \/ IvPop(t)
    \/ RotateCheck(t) \/ SpinCheck(t) \/ IvCheck(t)

LEMMA NextCases ==
    ASSUME [Next]_vars
    PROVE  \/ \E t \in Threads : \/ Quiet(t) \/ Observing(t) \/ Retiring(t)
                                 \/ WriteCtrl(t) \/ EndPush(t) \/ SubmitCtrl(t) \/ Submit(t)
           \/ \E c \in Channels : GpuExecute(c) \/ GpuFault(c)
           \/ RequestRotation
           \/ UNCHANGED vars
<1>1. ASSUME NEW t \in Threads, Step(t)
      PROVE  \/ Quiet(t) \/ Observing(t) \/ Retiring(t)
             \/ WriteCtrl(t) \/ EndPush(t) \/ SubmitCtrl(t) \/ Submit(t)
  BY <1>1 DEF Step, Quiet, Observing, Retiring
<1>2. CASE Next BY <1>1, <1>2 DEF Next, Quiet, Observing
<1> QED BY <1>2

\* A step of t leaves the other threads where they are.
Moves(t) == \A u \in Threads \ {t} : pc'[u] = pc[u] /\ call'[u] = call[u]

LEMMA QuietMoves == ASSUME TypeInv, NEW t \in Threads, Quiet(t) PROVE Moves(t)
<1> USE DEF TypeInv, TypeOK, ThreadType, Moves, Goto, Return
<1>1. CASE Reserve(t) BY <1>1 DEF Reserve, StartReserve, NewCall
<1>2. CASE StartRotate(t) BY <1>2 DEF StartRotate, NewCall
<1>3. CASE RotateLock(t) BY <1>3 DEF RotateLock
<1>4. CASE RotateDecide(t) BY <1>4 DEF RotateDecide
<1>5. CASE ReserveAll(t) BY <1>5 DEF ReserveAll
<1>6. CASE RotateKey(t) BY <1>6 DEF RotateKey
<1>7. CASE ReleaseAll(t) BY <1>7 DEF ReleaseAll
<1>8. CASE Down(t) BY <1>8 DEF Down
<1>9. CASE Claim(t) BY <1>9 DEF Claim, ClaimAndLock
<1>10. CASE SpinClaim(t) BY <1>10 DEF SpinClaim, ClaimAndLock
<1>11. CASE CheckIvs(t) BY <1>11 DEF CheckIvs
<1>12. CASE IvRotate(t) BY <1>12 DEF IvRotate
<1>13. CASE IvRefuse(t) BY <1>13 DEF IvRefuse
<1>14. CASE BeginPush(t) BY <1>14 DEF BeginPush
<1>15. CASE Release(t) BY <1>15 DEF Release
<1> QED BY <1>1, <1>2, <1>3, <1>4, <1>5, <1>6, <1>7, <1>8, <1>9, <1>10, <1>11, <1>12,
           <1>13, <1>14, <1>15 DEF Quiet

LEMMA OtherMoves ==
    ASSUME TypeInv, NEW t \in Threads,
           \/ Observing(t) \/ Retiring(t) \/ WriteCtrl(t) \/ EndPush(t)
           \/ SubmitCtrl(t) \/ Submit(t)
    PROVE  Moves(t)
<1> USE DEF TypeInv, TypeOK, ThreadType, Moves, Goto, Return
<1>1. CASE Observing(t)
  BY <1>1 DEF Observing, StartPoll, RotateUpdate, SpinUpdate, IvUpdate,
              UpdateCompletedValue
<1>2. CASE Poll(t) BY <1>2 DEF Poll
<1>3. CASE RotatePop(t) BY <1>3, WaitKeepsFrame
<1>4. CASE SpinPop(t) BY <1>4 DEF SpinPop
<1>5. CASE IvPop(t) BY <1>5, WaitKeepsFrame
<1>6. CASE RotateCheck(t) BY <1>6 DEF RotateCheck
<1>7. CASE SpinCheck(t) BY <1>7 DEF SpinCheck
<1>8. CASE IvCheck(t) BY <1>8 DEF IvCheck
<1>9. CASE WriteCtrl(t) BY <1>9 DEF WriteCtrl
<1>10. CASE EndPush(t) BY <1>10 DEF EndPush
<1>11. CASE SubmitCtrl(t) BY <1>11 DEF SubmitCtrl
<1>12. CASE Submit(t) BY <1>12 DEF Submit
<1> QED BY <1>1, <1>2, <1>3, <1>4, <1>5, <1>6, <1>7, <1>8, <1>9, <1>10, <1>11, <1>12
        DEF Retiring

\* What a quiet step leaves alone.
ringState == <<cpu_put, gpu_get, gpfifo_entries, gpu_put, queued_value, completed_value, gpu>>

LEMMA QuietRing == ASSUME NEW t \in Threads, Quiet(t) PROVE UNCHANGED ringState
<1> USE DEF ringState, ringVars, semVars, envVars
<1>1. CASE Reserve(t) BY <1>1 DEF Reserve, StartReserve
<1>2. CASE \/ StartRotate(t) \/ RotateLock(t) \/ RotateDecide(t) \/ ReserveAll(t)
           \/ RotateKey(t) \/ ReleaseAll(t)
  BY <1>2 DEF StartRotate, RotateLock, RotateDecide, ReserveAll, RotateKey, ReleaseAll
<1>3. CASE Down(t) \/ Claim(t) \/ SpinClaim(t) \/ CheckIvs(t)
  BY <1>3 DEF Down, Claim, SpinClaim, CheckIvs
<1>4. CASE IvRotate(t) \/ IvRefuse(t) \/ BeginPush(t) \/ Release(t)
  BY <1>4 DEF IvRotate, IvRefuse, BeginPush, Release
<1> QED BY <1>1, <1>2, <1>3, <1>4 DEF Quiet

\* Steps of the GPU and of RM leave the threads and the units alone.
LEMMA DeviceSteps ==
    ASSUME \/ \E c \in Channels : GpuExecute(c) \/ GpuFault(c)
           \/ RequestRotation
           \/ UNCHANGED vars
    PROVE  /\ UNCHANGED <<pc, call, iv_left, push_sem, push_locks, rotation_mutex,
                          rotation_slots, key_version, push_infos>>
           /\ UNCHANGED <<cpu_put, gpu_get, gpfifo_entries, gpu_put, queued_value,
                          completed_value>>
BY DEF GpuExecute, GpuFault, RequestRotation, vars, envVars, poolVars, rotationVars,
       ringVars, semVars

-----------------------------------------------------------------------------
(* IVs.                                                                    *)

\* Pushes take one IV each, and none begins without one.
LEMMA IvNext == ASSUME ClaimsRingInv, IvInv, [Next]_vars PROVE IvInv'
<1> USE DEF ClaimsRingInv, TypeInv, TypeOK
<1>1. iv_left \in [Channels -> Int] BY DEF EnvType
<1>2. ASSUME NEW t \in Threads, Moves(t), UNCHANGED iv_left,
             pc'[t] \in {"begin", "begun"} => iv_left[call'[t].channel] >= 1
      PROVE  IvInv'
  BY <1>2 DEF IvInv, Moves
<1>3. ASSUME NEW t \in Threads, Quiet(t), ~IvRotate(t) PROVE IvInv'
  <2>1. Moves(t) BY <1>3, QuietMoves
  <2> USE DEF ThreadType, Goto, Return, envVars
  <2>2. CASE Reserve(t) BY <1>2, <2>1, <2>2 DEF Reserve, StartReserve
  <2>3. CASE \/ StartRotate(t) \/ RotateLock(t) \/ RotateDecide(t) \/ RotateKey(t) \/ Down(t)
    BY <1>2, <2>1, <2>3 DEF StartRotate, RotateLock, RotateDecide, RotateKey, Down
  <2>4. CASE ReserveAll(t) \/ ReleaseAll(t) BY <1>2, <2>1, <2>4 DEF ReserveAll, ReleaseAll
  <2>5. CASE Claim(t) \/ SpinClaim(t)
    BY <1>2, <2>1, <2>5 DEF Claim, SpinClaim, ClaimAndLock
  <2>6. CASE CheckIvs(t)
    <3>1. call[t].channel \in Channels BY FrameParts
    <3>2. CASE iv_left[call[t].channel] <= IvLimit
      BY <1>2, <2>1, <2>6, <3>2 DEF CheckIvs
    <3>3. CASE ~(iv_left[call[t].channel] <= IvLimit)
      <4>1. iv_left[call[t].channel] >= 1 BY <1>1, <3>1, <3>3, IvAssumption
      <4> QED BY <1>2, <2>1, <2>6, <3>3, <4>1 DEF CheckIvs
    <3> QED BY <3>2, <3>3
  <2>7. CASE IvRefuse(t)
    <3>1. call[t].channel \in Channels BY FrameParts
    <3>2. iv_left[call[t].channel] >= IvMin => iv_left[call[t].channel] >= 1
      BY <1>1, <3>1, IvAssumption
    <3> QED BY <1>2, <2>1, <2>7, <3>2 DEF IvRefuse
  <2>8. CASE BeginPush(t) BY <1>2, <2>1, <2>8 DEF BeginPush, IvInv
  <2>9. CASE Release(t) BY <1>2, <2>1, <2>9 DEF Release
  <2> QED BY <1>3, <2>2, <2>3, <2>4, <2>5, <2>6, <2>7, <2>8, <2>9 DEF Quiet
<1>4. ASSUME NEW t \in Threads, IvRotate(t) PROVE IvInv'
  <2>1. Moves(t) BY <1>4, QuietMoves DEF Quiet
  <2>2. call[t].channel \in Channels /\ UNCHANGED call BY <1>4, FrameParts DEF IvRotate
  <2>3. iv_left' = [iv_left EXCEPT ![call[t].channel] = IvSpace] BY <1>4 DEF IvRotate
  <2>4. IvSpace >= 1 /\ IvSpace \in Nat BY IvAssumption
  <2> QED BY <1>1, <2>1, <2>2, <2>3, <2>4 DEF IvInv, Moves, ThreadType, Frames
<1>5. ASSUME NEW t \in Threads, Observing(t) \/ Retiring(t) \/ SubmitCtrl(t) \/ Submit(t)
      PROVE  IvInv'
  <2>1. Moves(t) BY <1>5, OtherMoves
  <2> USE <1>2, <2>1 DEF ThreadType, Goto, Return, envVars
  <2>2. CASE Observing(t)
    BY <2>2 DEF Observing, StartPoll, RotateUpdate, SpinUpdate, IvUpdate,
                UpdateCompletedValue
  <2>3. CASE Poll(t) \/ SpinPop(t) BY <2>3 DEF Poll, SpinPop
  <2>4. CASE RotatePop(t) \/ IvPop(t)
    BY <2>4, WaitKeepsFrame, RotatePopCases, IvPopCases DEF Rotators
  <2>5. CASE RotateCheck(t) \/ SpinCheck(t) \/ IvCheck(t)
    BY <2>5 DEF RotateCheck, SpinCheck, IvCheck
  <2>6. CASE SubmitCtrl(t) \/ Submit(t) BY <2>6 DEF SubmitCtrl, Submit
  <2> QED BY <1>5, <2>2, <2>3, <2>4, <2>5, <2>6 DEF Retiring
<1>6. ASSUME NEW t \in Threads, WriteCtrl(t) PROVE IvInv'
  <2>1. Moves(t) BY <1>6, OtherMoves
  <2> QED BY <1>2, <1>6, <2>1 DEF WriteCtrl, envVars, ThreadType, Goto
<1>7. ASSUME NEW t \in Threads, EndPush(t) PROVE IvInv'
  <2>1. Moves(t) BY <1>7, OtherMoves
  <2>2. call[t].channel \in Channels BY FrameParts
  <2>3. iv_left' = [iv_left EXCEPT ![call[t].channel] = @ - 1] /\ pc[t] = "begun"
    BY <1>7 DEF EndPush
  <2>4. pc'[t] \notin {"begin", "begun"} BY <1>7 DEF EndPush, Return, Goto, ThreadType
  <2>5. iv_left[call[t].channel] >= 1 BY <2>3 DEF IvInv
  <2>6. \A u \in Threads \ {t} : pc[u] \in {"begin", "begun"} =>
                                    call[u].channel # call[t].channel
    BY <2>3 DEF ClaimsInv, OneOwner, Owners
  <2>7. \A u \in Threads : call[u].channel \in Channels BY FrameParts
  <2>8. \A d \in Channels : /\ iv_left'[d] >= 0
                            /\ d # call[t].channel => iv_left'[d] = iv_left[d]
    BY <1>1, <2>2, <2>3, <2>5 DEF IvInv
  <2> QED BY <2>1, <2>4, <2>6, <2>7, <2>8 DEF IvInv, Moves
<1>8. CASE \/ \E c \in Channels : GpuExecute(c) \/ GpuFault(c)
           \/ RequestRotation
           \/ UNCHANGED vars
  BY <1>8, DeviceSteps DEF IvInv
<1> QED BY <1>3, <1>4, <1>5, <1>6, <1>7, <1>8, NextCases

-----------------------------------------------------------------------------
(* Units of the push semaphore and the reservation of all channels.        *)

UnitStates == Holders \cup Owners

LEMMA UnitsFinite == IsFiniteSet(Units) /\ Cardinality(Units) \in Nat
BY ThreadAssumption, FS_Subset, FS_CardinalityType DEF Units

\* A thread takes a unit, gives it back, or has as many as before.
LEMMA UnitsTaken ==
    ASSUME NEW t \in Threads, Moves(t), pc[t] \notin UnitStates, pc'[t] \in UnitStates
    PROVE  Cardinality(Units)' = Cardinality(Units) + 1
<1>1. Units' = Units \cup {t} /\ t \notin Units BY DEF Units, Moves, UnitStates
<1> QED BY <1>1, UnitsFinite, FS_AddElement

LEMMA UnitsGiven ==
    ASSUME NEW t \in Threads, Moves(t), pc[t] \in UnitStates, pc'[t] \notin UnitStates
    PROVE  Cardinality(Units)' = Cardinality(Units) - 1
<1>1. Units' = Units \ {t} /\ t \in Units BY DEF Units, Moves, UnitStates
<1> QED BY <1>1, UnitsFinite, FS_RemoveElement

LEMMA UnitsSame ==
    ASSUME NEW t \in Threads, Moves(t), pc'[t] \in UnitStates <=> pc[t] \in UnitStates
    PROVE  Cardinality(Units)' = Cardinality(Units)
<1>1. Units' = Units BY DEF Units, Moves, UnitStates
<1> QED BY <1>1

\* The units of the push semaphore are free, taken by threads or by a rotation.
LEMMA UnitsNext == ASSUME ClaimsRingInv, UnitsInv, [Next]_vars PROVE UnitsInv'
<1> USE DEF ClaimsRingInv, TypeInv, TypeOK
<1>1. push_sem \in Nat /\ rotation_slots \in Nat /\ NumChannels \in Nat
      /\ Cardinality(Units) \in Nat
  BY UnitsFinite, PoolAssumption DEF PoolType
<1>2. ASSUME NEW t \in Threads, Moves(t), UNCHANGED <<push_sem, rotation_slots>>,
             pc'[t] \in UnitStates <=> pc[t] \in UnitStates
      PROVE  UnitsInv'
  BY <1>2, UnitsSame DEF UnitsInv
<1>3. ASSUME NEW t \in Threads, Moves(t), UNCHANGED rotation_slots,
             push_sem' = push_sem + 1, pc[t] \in UnitStates, pc'[t] \notin UnitStates
      PROVE  UnitsInv'
  BY <1>1, <1>3, UnitsGiven DEF UnitsInv
<1> USE DEF UnitStates, Holders, Owners, ThreadType, Goto, Return
<1>4. ASSUME NEW t \in Threads, Quiet(t) PROVE UnitsInv'
  <2>1. Moves(t) BY <1>4, QuietMoves
  <2>2. CASE Reserve(t)
    BY <1>2, <2>1, <2>2 DEF Reserve, StartReserve, poolVars, rotationVars
  <2>3. CASE \/ StartRotate(t) \/ RotateLock(t) \/ RotateDecide(t) \/ RotateKey(t)
    BY <1>2, <2>1, <2>3 DEF StartRotate, RotateLock, RotateDecide, RotateKey,
                            poolVars, rotationVars
  <2>4. CASE ReserveAll(t)
    <3>1. pc'[t] \in UnitStates <=> pc[t] \in UnitStates BY <2>4 DEF ReserveAll
    <3>2. push_sem' = push_sem - 1 /\ rotation_slots' = rotation_slots + 1
      BY <2>4 DEF ReserveAll
    <3> QED BY <1>1, <2>1, <3>1, <3>2, UnitsSame DEF UnitsInv
  <2>5. CASE ReleaseAll(t)
    <3>1. pc'[t] \in UnitStates <=> pc[t] \in UnitStates BY <2>5 DEF ReleaseAll
    <3>2. \/ push_sem' = push_sem + 1 /\ rotation_slots' = rotation_slots - 1
          \/ UNCHANGED <<push_sem, rotation_slots>>
      BY <2>5 DEF ReleaseAll
    <3> QED BY <1>1, <2>1, <3>1, <3>2, UnitsSame DEF UnitsInv
  <2>6. CASE Down(t)
    <3>1. pc[t] \notin UnitStates /\ pc'[t] \in UnitStates BY <2>6 DEF Down
    <3>2. push_sem' = push_sem - 1 /\ UNCHANGED rotation_slots
      BY <2>6 DEF Down, rotationVars
    <3> QED BY <1>1, <2>1, <3>1, <3>2, UnitsTaken DEF UnitsInv
  <2>7. CASE Claim(t) \/ SpinClaim(t)
    BY <1>2, <2>1, <2>7 DEF Claim, SpinClaim, ClaimAndLock, rotationVars
  <2>8. CASE CheckIvs(t) \/ IvRotate(t) \/ IvRefuse(t)
    BY <1>2, <2>1, <2>8 DEF CheckIvs, IvRotate, IvRefuse, AfterIvs, poolVars, rotationVars
  <2>9. CASE BeginPush(t)
    BY <1>2, <2>1, <2>9 DEF BeginPush, poolVars, rotationVars
  <2>10. CASE Release(t)
    BY <1>3, <2>1, <2>10 DEF Release, UnlockForPush, rotationVars
  <2> QED BY <1>4, <2>2, <2>3, <2>4, <2>5, <2>6, <2>7, <2>8, <2>9, <2>10 DEF Quiet
<1>5. ASSUME NEW t \in Threads, Observing(t) \/ Retiring(t) \/ SubmitCtrl(t) \/ Submit(t)
      PROVE  UnitsInv'
  <2>1. Moves(t) BY <1>5, OtherMoves
  <2> USE <1>2, <2>1 DEF poolVars, rotationVars
  <2>2. CASE Observing(t)
    BY <2>2 DEF Observing, StartPoll, RotateUpdate, SpinUpdate, IvUpdate,
                UpdateCompletedValue
  <2>3. CASE Poll(t) \/ SpinPop(t) BY <2>3 DEF Poll, SpinPop
  <2>4. CASE RotatePop(t) \/ IvPop(t)
    <3>1. UNCHANGED <<poolVars, rotationVars>> BY <2>4 DEF RotatePop, IvPop
    <3> QED BY <2>4, <3>1, WaitKeepsFrame DEF Rotators
  <2>5. CASE RotateCheck(t) \/ IvCheck(t) BY <2>5 DEF RotateCheck, IvCheck
  <2>6. CASE SpinCheck(t) BY <1>3, <2>6 DEF SpinCheck
  <2>7. CASE SubmitCtrl(t) \/ Submit(t) BY <2>7 DEF SubmitCtrl, Submit
  <2> QED BY <1>5, <2>2, <2>3, <2>4, <2>5, <2>6, <2>7 DEF Retiring
<1>6. ASSUME NEW t \in Threads, WriteCtrl(t) PROVE UnitsInv'
  <2>1. Moves(t) BY <1>6, OtherMoves
  <2> QED BY <1>2, <1>6, <2>1 DEF WriteCtrl, poolVars, rotationVars
<1>7. ASSUME NEW t \in Threads, EndPush(t) PROVE UnitsInv'
  <2>1. Moves(t) BY <1>7, OtherMoves
  <2> QED BY <1>3, <1>7, <2>1 DEF EndPush, UnlockForPush, rotationVars
<1>8. CASE \/ \E c \in Channels : GpuExecute(c) \/ GpuFault(c)
           \/ RequestRotation
           \/ UNCHANGED vars
  BY <1>8, DeviceSteps DEF UnitsInv, Units
<1> QED BY <1>4, <1>5, <1>6, <1>7, <1>8, NextCases

\* The threads that hold a unit leave a channel to each other.
LEMMA UnitsLeave == ASSUME ClaimsRingInv, UnitsInv PROVE UnlockedChannelLeft
<1> SUFFICES ASSUME NEW t \in Threads, pc[t] \in Holders, push_locks = Channels
             PROVE  FALSE
  BY DEF UnlockedChannelLeft
<1> DEFINE O == {u \in Threads : pc[u] \in Owners}
           f == [u \in O |-> call[u].channel]
<1>1. f \in Surjection(O, Channels)
  <2>1. \A u \in O : call[u].channel \in Channels
    BY FrameParts DEF ClaimsRingInv, TypeInv, TypeOK
  <2>2. \A c \in Channels : \E u \in O : call[u].channel = c
    BY DEF ClaimsRingInv, ClaimsInv, LockedOwned, Owns
  <2> QED BY <2>1, <2>2 DEF Surjection
<1>2. IsFiniteSet(Units \ {t}) /\ Cardinality(Units \ {t}) = Cardinality(Units) - 1
  <2>1. t \in Units BY DEF Units
  <2> QED BY <2>1, UnitsFinite, FS_RemoveElement
<1>3. O \subseteq Units \ {t} BY DEF Units, Holders, Owners
<1>4. IsFiniteSet(O) /\ Cardinality(O) <= Cardinality(Units) - 1
  BY <1>2, <1>3, FS_Subset
<1>5. Cardinality(Channels) <= Cardinality(O) BY <1>1, <1>4, FS_Surjection
<1>6. Cardinality(Channels) = NumChannels
  BY FS_Interval, PoolAssumption DEF Channels
<1>7. Cardinality(Units) <= NumChannels
  <2>1. push_sem \in Nat /\ rotation_slots \in Nat
    BY DEF ClaimsRingInv, TypeInv, TypeOK, PoolType
  <2> QED BY <2>1, UnitsFinite, PoolAssumption DEF UnitsInv
<1>8. Cardinality(O) \in Nat /\ Cardinality(Units) \in Nat
  BY <1>4, UnitsFinite, FS_CardinalityType
<1> QED BY <1>4, <1>5, <1>6, <1>7, <1>8, PoolAssumption

\* Threads outside a rotation leave it alone.
LEMMA RotationKept ==
    ASSUME RotationInv, NEW t \in Threads, Moves(t),
           UNCHANGED <<rotation_mutex, rotation_slots>>,
           pc[t] \notin Rotators, pc'[t] \notin Rotators
    PROVE  RotationInv'
BY DEF RotationInv, Moves, Rotators

\* The thread in a rotation goes on with it.
LEMMA RotationGoesOn ==
    ASSUME RotationInv, NEW t \in Threads, Moves(t), UNCHANGED rotation_mutex,
           pc[t] \in Rotators, pc'[t] \in Rotators,
           pc'[t] = "rotate_decide" => rotation_slots' = 0,
           pc'[t] = "reserve_all" => rotation_slots' < NumChannels,
           pc'[t] \in {"rotate_update", "rotate_pop", "rotate_check", "rotate_key"} =>
              rotation_slots' = NumChannels
    PROVE  RotationInv'
<1>1. rotation_mutex = t /\ t # None BY ThreadAssumption DEF RotationInv
<1>2. \A u \in Threads \ {t} : pc[u] \notin Rotators BY <1>1 DEF RotationInv
<1> QED BY <1>1, <1>2 DEF RotationInv, Moves, Rotators

LEMMA RotationNext == ASSUME ClaimsRingInv, RotationInv, [Next]_vars PROVE RotationInv'
<1> USE DEF ClaimsRingInv, TypeInv, TypeOK
<1>1. rotation_slots \in Nat /\ NumChannels \in Nat \ {0}
  BY PoolAssumption DEF PoolType
<1> USE DEF Rotators, ThreadType, Goto, Return
<1>2. ASSUME NEW t \in Threads, Quiet(t) PROVE RotationInv'
  <2>1. Moves(t) BY <1>2, QuietMoves
  <2>2. CASE Reserve(t)
    BY <2>1, <2>2, RotationKept DEF Reserve, StartReserve, rotationVars
  <2>3. CASE StartRotate(t) BY <2>1, <2>3, RotationKept DEF StartRotate, rotationVars
  <2>4. CASE RotateLock(t)
    <3>1. \A u \in Threads \ {t} : pc'[u] = pc[u] /\ pc[u] \notin Rotators
      BY <2>1, <2>4, ThreadAssumption DEF Moves, RotateLock, RotationInv
    <3>2. /\ pc'[t] = "rotate_decide" /\ rotation_mutex' = t /\ rotation_slots' = 0
          /\ t # None
      BY <2>4, ThreadAssumption DEF RotateLock, RotationInv
    <3> QED BY <3>1, <3>2 DEF RotationInv
  <2>5. CASE RotateDecide(t)
    <3>1. rotation_slots = 0 /\ UNCHANGED rotation_slots BY <2>5 DEF RotateDecide, RotationInv
    <3>2. CASE pc'[t] = "reserve_all" /\ UNCHANGED rotation_mutex
      BY <1>1, <2>1, <2>5, <3>1, <3>2, RotationGoesOn DEF RotateDecide
    <3>3. CASE pc'[t] = "down" /\ rotation_mutex' = None
      <4>1. \A u \in Threads \ {t} : pc'[u] = pc[u] /\ pc[u] \notin Rotators
        BY <2>1, <2>5 DEF Moves, RotateDecide, RotationInv
      <4> QED BY <3>1, <3>3, <4>1, ThreadAssumption DEF RotationInv
    <3> QED BY <2>5, <3>2, <3>3 DEF RotateDecide
  <2>6. CASE ReserveAll(t)
    <3>1. rotation_slots < NumChannels BY <2>6 DEF ReserveAll, RotationInv
    <3>2. rotation_slots' = rotation_slots + 1 BY <2>6 DEF ReserveAll
    <3>3. \/ pc'[t] = "rotate_update" /\ rotation_slots' = NumChannels
          \/ pc'[t] = "reserve_all" /\ rotation_slots' < NumChannels
      BY <1>1, <2>6, <3>1, <3>2 DEF ReserveAll
    <3> QED BY <2>1, <2>6, <3>3, RotationGoesOn DEF ReserveAll
  <2>7. CASE RotateKey(t) BY <2>1, <2>7, RotationGoesOn DEF RotateKey
  <2>8. CASE ReleaseAll(t)
    <3>1. CASE rotation_slots > 0 BY <2>1, <2>8, <3>1, RotationGoesOn DEF ReleaseAll
    <3>2. CASE ~(rotation_slots > 0)
      <4>1. rotation_slots' = 0 /\ rotation_mutex' = None /\ pc'[t] \notin Rotators
        BY <1>1, <2>8, <3>2 DEF ReleaseAll
      <4>2. \A u \in Threads \ {t} : pc'[u] = pc[u] /\ pc[u] \notin Rotators
        BY <2>1, <2>8 DEF Moves, ReleaseAll, RotationInv
      <4> QED BY <4>1, <4>2, ThreadAssumption DEF RotationInv
    <3> QED BY <3>1, <3>2
  <2>9. CASE Down(t) BY <2>1, <2>9, RotationKept DEF Down, rotationVars
  <2>10. CASE Claim(t) \/ SpinClaim(t)
    BY <2>1, <2>10, RotationKept DEF Claim, SpinClaim, ClaimAndLock, rotationVars
  <2>11. CASE CheckIvs(t) \/ IvRotate(t) \/ IvRefuse(t)
    BY <2>1, <2>11, RotationKept DEF CheckIvs, IvRotate, IvRefuse, AfterIvs, rotationVars
  <2>12. CASE BeginPush(t) \/ Release(t)
    BY <2>1, <2>12, RotationKept DEF BeginPush, Release, rotationVars
  <2> QED BY <1>2, <2>2, <2>3, <2>4, <2>5, <2>6, <2>7, <2>8, <2>9, <2>10, <2>11, <2>12
          DEF Quiet
<1>3. ASSUME NEW t \in Threads, Observing(t) \/ Retiring(t) PROVE RotationInv'
  <2>1. Moves(t) BY <1>3, OtherMoves
  <2> USE <2>1 DEF rotationVars
  <2>2. CASE RotateUpdate(t)
    BY <2>2, RotationGoesOn DEF RotateUpdate, UpdateCompletedValue, RotationInv
  <2>3. CASE \/ \E c \in Channels : StartPoll(t, c)
             \/ SpinUpdate(t) \/ IvUpdate(t)
    BY <2>3, RotationKept DEF StartPoll, SpinUpdate, IvUpdate, UpdateCompletedValue
  <2>4. CASE Poll(t) \/ SpinPop(t) BY <2>4, RotationKept DEF Poll, SpinPop
  <2>5. CASE RotatePop(t)
    <3>1. UNCHANGED rotationVars BY <2>5 DEF RotatePop
    <3> QED BY <2>5, <3>1, RotatePopCases, RotationGoesOn DEF RotationInv
  <2>8. CASE IvPop(t)
    <3>1. UNCHANGED rotationVars BY <2>8 DEF IvPop
    <3> QED BY <2>8, <3>1, IvPopCases, RotationKept
  <2>6. CASE SpinCheck(t) \/ IvCheck(t) BY <2>6, RotationKept DEF SpinCheck, IvCheck
  <2>7. CASE RotateCheck(t) BY <2>7, RotationGoesOn DEF RotateCheck, RotationInv
  <2> QED BY <1>3, <2>2, <2>3, <2>4, <2>5, <2>6, <2>7, <2>8 DEF Observing, Retiring
<1>4. ASSUME NEW t \in Threads, WriteCtrl(t) \/ EndPush(t) \/ SubmitCtrl(t) \/ Submit(t)
      PROVE  RotationInv'
  <2>1. Moves(t) BY <1>4, OtherMoves
  <2> QED BY <1>4, <2>1, RotationKept DEF WriteCtrl, EndPush, SubmitCtrl, Submit, rotationVars
<1>5. CASE \/ \E c \in Channels : GpuExecute(c) \/ GpuFault(c)
           \/ RequestRotation
           \/ UNCHANGED vars
  BY <1>5, DeviceSteps DEF RotationInv
<1> QED BY <1>2, <1>3, <1>4, <1>5, NextCases

-----------------------------------------------------------------------------
(* More about distances in the ring.                                       *)

LEMMA DistanceZero ==
    ASSUME NEW g \in Slots, NEW p \in Slots PROVE Distance(g, p) = 0 <=> p = g
BY RingAssumption DEF Distance, Slots

\* Entries at the same distance are the same entry.
LEMMA DistanceEqual ==
    ASSUME NEW g \in Slots, NEW p \in Slots, NEW q \in Slots, Distance(g, p) = Distance(g, q)
    PROVE  p = q
BY RingAssumption DEF Distance, Slots

\* The entry at a distance, and the distance of that entry.
LEMMA DistanceIndex ==
    ASSUME NEW g \in Slots, NEW p \in Slots PROVE (g + Distance(g, p)) % NumGpfifoEntries = p
<1>1. CASE p >= g
  <2>1. g + Distance(g, p) = p BY <1>1, RingAssumption DEF Distance, Slots
  <2> QED BY <2>1, ModSmall, RingAssumption DEF Slots
<1>2. CASE p < g
  <2>1. g + Distance(g, p) = p + NumGpfifoEntries
    BY <1>2, RingAssumption DEF Distance, Slots
  <2> QED BY <2>1, ModWrap, RingAssumption DEF Slots
<1> QED BY <1>1, <1>2, RingAssumption DEF Slots

LEMMA IndexDistance ==
    ASSUME NEW g \in Slots, NEW j \in Slots
    PROVE  /\ (g + j) % NumGpfifoEntries \in Slots
           /\ Distance(g, (g + j) % NumGpfifoEntries) = j
<1>1. CASE g + j < NumGpfifoEntries
  BY <1>1, ModSmall, RingAssumption DEF Distance, Slots
<1>2. CASE g + j >= NumGpfifoEntries
  BY <1>2, ModWrap, RingAssumption DEF Distance, Slots
<1> QED BY <1>1, <1>2, RingAssumption DEF Slots

LEMMA NextSlotEqual ==
    ASSUME NEW p \in Slots, NEW q \in Slots, NextSlot(p) = NextSlot(q) PROVE p = q
<1>1. \A i \in Slots : NextSlot(i) = IF i = NumGpfifoEntries - 1 THEN 0 ELSE i + 1
  BY ModSmall, ModWrap, RingAssumption DEF NextSlot, Slots
<1> QED BY <1>1, RingAssumption DEF Slots

LEMMA NextSlotOther == ASSUME NEW p \in Slots PROVE NextSlot(p) # p
<1>1. NextSlot(p) = IF p = NumGpfifoEntries - 1 THEN 0 ELSE p + 1
  BY ModSmall, ModWrap, RingAssumption DEF NextSlot, Slots
<1> QED BY <1>1, RingAssumption DEF Slots

\* The entry after the one at distance j is at distance j + 1.
LEMMA NextIndex ==
    ASSUME NEW g \in Slots, NEW j \in Nat, j + 1 \in Slots
    PROVE  NextSlot((g + j) % NumGpfifoEntries) = (g + (j + 1)) % NumGpfifoEntries
<1> DEFINE p == (g + j) % NumGpfifoEntries
           q == (g + (j + 1)) % NumGpfifoEntries
<1>1. j \in Slots BY RingAssumption DEF Slots
<1>2. p \in Slots /\ Distance(g, p) = j BY <1>1, IndexDistance
<1>3. q \in Slots /\ Distance(g, q) = j + 1 BY IndexDistance
<1>4. j < NumGpfifoEntries - 1 BY RingAssumption DEF Slots
<1>5. Distance(g, NextSlot(p)) = j + 1 BY <1>2, <1>4, DistanceNext
<1> QED BY <1>2, <1>3, <1>5, NextSlotType, DistanceEqual

-----------------------------------------------------------------------------
(* The ring and the values of one channel.                                 *)

ChannelInv(c) == ChannelOrder(c) /\ ChannelValues(c)

LEMMA ChannelTypes ==
    ASSUME TypeInv, NEW c \in Channels
    PROVE  /\ cpu_put[c] \in Slots /\ gpu_get[c] \in Slots /\ gpu_put[c] \in Slots
           /\ gpu[c].get \in Slots /\ gpu[c].semaphore \in Nat
           /\ queued_value[c] \in Nat /\ completed_value[c] \in Nat
           /\ gpfifo_entries[c] \in [Slots -> Entries]
           /\ \A i \in Slots : gpfifo_entries[c][i].value \in Nat
           /\ Pending(c) \in 0 .. NumGpfifoEntries - 1
<1>1. cpu_put[c] \in Slots /\ gpu_get[c] \in Slots /\ gpu_put[c] \in Slots
      /\ gpfifo_entries[c] \in [Slots -> Entries]
  BY DEF TypeInv, TypeOK, RingType
<1>2. gpu[c].get \in Slots /\ gpu[c].semaphore \in Nat BY DEF TypeInv, TypeOK, EnvType
<1>3. queued_value[c] \in Nat /\ completed_value[c] \in Nat BY DEF TypeInv, TypeOK, PoolType
<1> QED BY <1>1, <1>2, <1>3, DistanceType DEF Entries, Pending

\* The GPU's next entry is pending, or it has processed all of them.
LEMMA GpuNext ==
    ASSUME TypeInv, NEW c \in Channels, ChannelOrder(c)
    PROVE  /\ Distance(gpu_get[c], gpu[c].get) \in 0 .. Pending(c)
           /\ Distance(gpu_get[c], gpu_put[c]) \in 0 .. Pending(c)
           /\ gpu[c].get # cpu_put[c] <=> IsPending(c, gpu[c].get)
<1>1. cpu_put[c] \in Slots /\ gpu_get[c] \in Slots /\ gpu_put[c] \in Slots
      /\ gpu[c].get \in Slots
  BY ChannelTypes
<1>2. /\ Distance(gpu_get[c], gpu[c].get) \in Nat /\ Distance(gpu_get[c], gpu_put[c]) \in Nat
      /\ Distance(gpu_get[c], cpu_put[c]) \in Nat
  BY <1>1, DistanceType, RingAssumption
<1>3. /\ Distance(gpu_get[c], gpu[c].get) \in 0 .. Pending(c)
      /\ Distance(gpu_get[c], gpu_put[c]) \in 0 .. Pending(c)
  BY <1>2 DEF ChannelOrder, Pending
<1>4. gpu[c].get = cpu_put[c] => ~IsPending(c, gpu[c].get)
  BY <1>2 DEF IsPending, Pending
<1>5. Distance(gpu_get[c], gpu[c].get) = Distance(gpu_get[c], cpu_put[c]) =>
        gpu[c].get = cpu_put[c]
  BY <1>1, DistanceEqual
<1> QED BY <1>2, <1>3, <1>4, <1>5 DEF IsPending, Pending

\* The state of a channel that its ring and its values are about.
SameRingOf(c) ==
    /\ cpu_put'[c] = cpu_put[c] /\ gpu_put'[c] = gpu_put[c]
    /\ gpfifo_entries'[c] = gpfifo_entries[c] /\ queued_value'[c] = queued_value[c]
    /\ gpu'[c].get = gpu[c].get /\ gpu'[c].semaphore = gpu[c].semaphore

\* Nothing of them changes but the completed value, which the CPU reads.
LEMMA ChannelObserved ==
    ASSUME TypeInv, NEW c \in Channels, ChannelInv(c), SameRingOf(c),
           gpu_get'[c] = gpu_get[c],
           completed_value'[c] \in {completed_value[c], gpu[c].semaphore}
    PROVE  ChannelInv(c)'
<1> USE DEF SameRingOf, ChannelInv
<1>1. ChannelOrder(c)' BY DEF ChannelOrder, Pending
<1>2. \A i \in Slots : /\ Value(c, i)' = Value(c, i) /\ Following(c, i)' = Following(c, i)
                       /\ IsPending(c, i)' <=> IsPending(c, i)
  BY DEF Value, Following, IsPending, Pending
<1>3. gpu[c].semaphore \in Nat /\ completed_value[c] \in Nat /\ queued_value[c] \in Nat
  BY ChannelTypes
<1>4. gpu[c].get \in Slots /\ gpu_get[c] \in Slots /\ cpu_put[c] \in Slots BY ChannelTypes
<1>5. Value(c, gpu_get[c]) \in Nat BY <1>4, ChannelTypes DEF Value
<1>6. completed_value'[c] <= gpu'[c].semaphore /\ gpu'[c].semaphore <= queued_value'[c]
  BY <1>3 DEF ChannelValues
<1>7. Value(c, gpu[c].get)' = gpu'[c].semaphore + 1
  <2>1. Value(c, gpu[c].get)' = Value(c, gpu[c].get)
    BY DEF Value
  <2> QED BY <2>1 DEF ChannelValues
<1>8. Value(c, gpu_get[c])' <= completed_value'[c] + 1
  <2>1. Value(c, gpu_get[c])' = Value(c, gpu_get[c]) BY DEF Value
  <2> QED BY <1>3, <1>5, <2>1 DEF ChannelValues
<1>9. \A i \in Slots : IsPending(c, i)' =>
         /\ Value(c, NextSlot(i))' = Following(c, i)'
         /\ Following(c, i)' <= queued_value'[c] + 1
  BY <1>2, NextSlotType DEF ChannelValues
<1> QED BY <1>1, <1>6, <1>7, <1>8, <1>9 DEF ChannelValues

\* Only entries that the GPU has processed are retired.
LEMMA RetiresProcessed ==
    ASSUME TypeInv, NEW c \in Channels, ChannelInv(c), NEW k \in Slots, NEW v \in Nat, NEW max,
           Retires(c, k, v, max), v <= gpu[c].semaphore
    PROVE  k <= Distance(gpu_get[c], gpu[c].get) /\ k <= Pending(c)
<1> DEFINE g == gpu_get[c]
           j == Distance(g, gpu[c].get)
<1>1. g \in Slots /\ gpu[c].get \in Slots /\ cpu_put[c] \in Slots BY ChannelTypes
<1>2. j \in Nat BY <1>1, DistanceType, RingAssumption
<1>3. k <= Pending(c) /\ Pending(c) \in Nat /\ k \in Nat
  BY ChannelTypes, RingAssumption DEF Retires, Slots
<1> SUFFICES ASSUME j < k PROVE FALSE BY <1>2, <1>3
<1>4. j \in 0 .. k - 1 BY <1>2, <1>3
<1>5. gpfifo_entries[c][gpu[c].get].value <= v
  BY <1>1, <1>4, DistanceIndex DEF Retires
<1>6. gpu[c].get # cpu_put[c]
  <2>1. IsPending(c, gpu[c].get) BY <1>2, <1>3 DEF IsPending
  <2> QED BY <2>1, GpuNext DEF ChannelInv
<1>7. gpfifo_entries[c][gpu[c].get].value = gpu[c].semaphore + 1
  BY <1>6 DEF ChannelInv, ChannelValues, Value
<1>8. gpu[c].semaphore \in Nat BY ChannelTypes
<1> QED BY <1>5, <1>7, <1>8

\* The first pending entry moves past those that are retired; distances shrink.
LEMMA RetiredDistance ==
    ASSUME TypeInv, NEW c \in Channels, NEW k \in Slots, NEW p \in Slots,
           gpu_get'[c] = (gpu_get[c] + k) % NumGpfifoEntries,
           k <= Distance(gpu_get[c], p)
    PROVE  Distance(gpu_get'[c], p) = Distance(gpu_get[c], p) - k
<1>1. gpu_get[c] \in Slots BY ChannelTypes
<1>2. k \in Nat BY DEF Slots
<1> QED BY <1>1, <1>2, DistanceAdvance

\* An entry at least as far as the new first entry was at least k entries away.
LEMMA StillPending ==
    ASSUME TypeInv, NEW c \in Channels, NEW k \in Slots, NEW i \in Slots,
           k <= Pending(c), UNCHANGED cpu_put,
           gpu_get'[c] = (gpu_get[c] + k) % NumGpfifoEntries
    PROVE  IsPending(c, i)' <=> IsPending(c, i) /\ k <= Distance(gpu_get[c], i)
<1>1. gpu_get[c] \in Slots /\ cpu_put[c] \in Slots BY ChannelTypes
<1>2. k \in Nat BY DEF Slots
<1>3. Pending(c)' = Pending(c) - k /\ Pending(c) \in Nat
  <2>1. Distance(gpu_get'[c], cpu_put[c]) = Distance(gpu_get[c], cpu_put[c]) - k
    BY <1>1, RetiredDistance DEF Pending
  <2> QED BY <2>1, ChannelTypes, RingAssumption DEF Pending
<1>4. Distance(gpu_get[c], i) \in 0 .. NumGpfifoEntries - 1 BY <1>1, DistanceType
<1>5. CASE k <= Distance(gpu_get[c], i)
  <2>1. Distance(gpu_get'[c], i) = Distance(gpu_get[c], i) - k BY <1>5, RetiredDistance
  <2> QED BY <1>2, <1>3, <1>4, <1>5, <2>1, RingAssumption DEF IsPending
<1>6. CASE Distance(gpu_get[c], i) < k
  <2> DEFINE h == gpu_get'[c]
             g == gpu_get[c]
  <2>1. h \in Slots /\ Distance(g, h) = k BY <1>1, IndexDistance
  <2>2. Distance(h, i) = Distance(g, i) + (NumGpfifoEntries - k)
    BY <1>1, <1>6, <2>1, RingAssumption DEF Distance, Slots
  <2>3. Pending(c) < NumGpfifoEntries BY ChannelTypes, RingAssumption
  <2>4. ~(Distance(h, i) < Pending(c)')
    BY <1>2, <1>3, <1>4, <2>2, <2>3, RingAssumption
  <2> QED BY <1>2, <1>4, <1>6, <2>4, RingAssumption DEF IsPending
<1> QED BY <1>2, <1>4, <1>5, <1>6, RingAssumption

\* Entries are retired: the new first entry follows one whose value is completed.
LEMMA ChannelRetired ==
    ASSUME TypeInv, NEW c \in Channels, ChannelInv(c), SameRingOf(c), UNCHANGED cpu_put,
           NEW k \in Slots, NEW v \in Nat, NEW max, Retires(c, k, v, max),
           gpu_get'[c] = (gpu_get[c] + k) % NumGpfifoEntries,
           completed_value'[c] \in {completed_value[c], gpu[c].semaphore},
           v <= completed_value'[c]
    PROVE  ChannelInv(c)'
<1> USE DEF SameRingOf, ChannelInv
<1> DEFINE g == gpu_get[c]
<1>1. g \in Slots /\ cpu_put[c] \in Slots /\ gpu_put[c] \in Slots /\ gpu[c].get \in Slots
  BY ChannelTypes
<1>2. gpu[c].semaphore \in Nat /\ completed_value[c] \in Nat /\ queued_value[c] \in Nat
  BY ChannelTypes
<1>3. completed_value[c] <= completed_value'[c] /\ completed_value'[c] <= gpu[c].semaphore
      /\ completed_value'[c] \in Nat
  BY <1>2 DEF ChannelValues
<1>4. v <= gpu[c].semaphore BY <1>2, <1>3
<1>5. k <= Distance(g, gpu[c].get) /\ k <= Pending(c) BY <1>4, RetiresProcessed
<1>6. k \in Nat BY DEF Slots
<1>7. /\ Distance(g, gpu[c].get) \in Nat /\ Distance(g, gpu_put[c]) \in Nat
      /\ Distance(g, cpu_put[c]) \in Nat
  BY <1>1, DistanceType, RingAssumption
<1>8. ChannelOrder(c)'
  <2>1. k <= Distance(g, gpu_put[c]) /\ k <= Distance(g, cpu_put[c])
    BY <1>5, <1>6, <1>7 DEF ChannelOrder, Pending
  <2>2. /\ Distance(gpu_get'[c], gpu[c].get) = Distance(g, gpu[c].get) - k
        /\ Distance(gpu_get'[c], gpu_put[c]) = Distance(g, gpu_put[c]) - k
        /\ Distance(gpu_get'[c], cpu_put[c]) = Distance(g, cpu_put[c]) - k
    BY <1>1, <1>5, <2>1, RetiredDistance
  <2> QED BY <1>6, <1>7, <2>2 DEF ChannelOrder, Pending
<1>9. \A i \in Slots : /\ Value(c, i)' = Value(c, i) /\ Following(c, i)' = Following(c, i)
                       /\ IsPending(c, i)' => IsPending(c, i)
  <2>1. \A i \in Slots : IsPending(c, i)' => IsPending(c, i) BY <1>5, StillPending
  <2> QED BY <2>1 DEF Value, Following
<1>10. Value(c, gpu[c].get)' = gpu'[c].semaphore + 1
  <2>1. Value(c, gpu[c].get)' = Value(c, gpu[c].get) BY DEF Value
  <2> QED BY <2>1 DEF ChannelValues
<1>11. Value(c, gpu_get[c])' <= completed_value'[c] + 1
  <2>1. gpu_get'[c] \in Slots BY <1>1, IndexDistance
  <2>2. Value(c, gpu_get[c])' = Value(c, gpu_get'[c]) BY DEF Value
  <2>3. CASE k = 0
    <3>1. gpu_get'[c] = g BY <1>1, <2>3, ModSmall DEF Slots
    <3>2. Value(c, g) \in Nat BY <1>1, ChannelTypes DEF Value
    <3> QED BY <1>2, <1>3, <2>2, <3>1, <3>2 DEF ChannelValues
  <2>4. CASE k # 0
    <3> DEFINE i == (g + (k - 1)) % NumGpfifoEntries
    <3>1. k - 1 \in Slots /\ k - 1 \in Nat /\ k - 1 \in 0 .. k - 1 /\ (k - 1) + 1 = k
      BY <1>6, <2>4, RingAssumption DEF Slots
    <3>2. i \in Slots /\ Distance(g, i) = k - 1 BY <1>1, <3>1, IndexDistance
    <3>3. NextSlot(i) = gpu_get'[c] BY <1>1, <3>1, NextIndex
    <3>4. IsPending(c, i) BY <1>5, <1>6, <1>7, <3>2 DEF IsPending, Pending
    <3>5. gpfifo_entries[c][i].value <= v BY <3>1 DEF Retires
    <3>6. Value(c, gpu_get'[c]) = Following(c, i) BY <3>2, <3>3, <3>4 DEF ChannelValues
    <3>7. gpfifo_entries[c][i].value \in Nat BY <3>2, ChannelTypes
    <3>8. Following(c, i) <= v + 1 BY <3>5, <3>7 DEF Following
    <3>9. Following(c, i) \in Nat BY <3>7 DEF Following
    <3> QED BY <1>3, <2>2, <3>6, <3>8, <3>9
  <2> QED BY <2>3, <2>4
<1>12. \A i \in Slots : IsPending(c, i)' =>
         /\ Value(c, NextSlot(i))' = Following(c, i)'
         /\ Following(c, i)' <= queued_value'[c] + 1
  BY <1>9, NextSlotType DEF ChannelValues
<1>13. gpu[c].semaphore <= queued_value[c] BY DEF ChannelValues
<1> QED BY <1>3, <1>8, <1>10, <1>11, <1>12, <1>13 DEF ChannelValues

\* An entry is appended, with the next tracking value.
LEMMA ChannelAppended ==
    ASSUME TypeInv, NEW c \in Channels, ChannelInv(c), NEW entry \in Entries,
           AppendEntry(c, entry), entry.value = queued_value[c] + 1,
           queued_value'[c] = IF entry.type = "NORMAL" THEN queued_value[c] + 1
                                                       ELSE queued_value[c],
           gpu_get'[c] = gpu_get[c], completed_value'[c] = completed_value[c],
           gpu'[c] = gpu[c], Pending(c) < NumGpfifoEntries - 1,
           \/ gpu_put'[c] = gpu_put[c]
           \/ gpu_put[c] = cpu_put[c] /\ gpu_put'[c] = NextSlot(cpu_put[c])
    PROVE  /\ ChannelInv(c)'
           /\ Pending(c)' = Pending(c) + 1
           /\ \A i \in Slots : IsPending(c, i)' <=> IsPending(c, i) \/ i = cpu_put[c]
<1> USE DEF ChannelInv
<1> DEFINE g == gpu_get[c]
           p == cpu_put[c]
           n == NextSlot(p)
<1>1. g \in Slots /\ p \in Slots /\ gpu_put[c] \in Slots /\ gpu[c].get \in Slots
      /\ n \in Slots
  BY ChannelTypes, NextSlotType
<1>2. gpu[c].semaphore \in Nat /\ completed_value[c] \in Nat /\ queued_value[c] \in Nat
      /\ Pending(c) \in Nat
  BY ChannelTypes, RingAssumption
<1>3. /\ cpu_put'[c] = n
      /\ gpfifo_entries'[c][p] = entry
      /\ \A i \in Slots \ {p} : gpfifo_entries'[c][i] = gpfifo_entries[c][i]
  BY <1>1, ChannelTypes DEF AppendEntry, TypeInv, TypeOK, RingType
<1>4. Distance(g, n) = Pending(c) + 1 BY <1>1, DistanceNext DEF Pending
<1>5. Pending(c)' = Pending(c) + 1 BY <1>3, <1>4 DEF Pending
<1>6. /\ Distance(g, gpu[c].get) \in 0 .. Pending(c)
      /\ Distance(g, gpu_put[c]) \in 0 .. Pending(c)
  BY GpuNext
<1>7. ChannelOrder(c)'
  <2>1. CASE gpu_put'[c] = gpu_put[c]
    BY <1>2, <1>5, <1>6, <2>1 DEF ChannelOrder
  <2>2. CASE gpu_put'[c] = n
    BY <1>2, <1>4, <1>5, <1>6, <2>2 DEF ChannelOrder
  <2> QED BY <2>1, <2>2
<1>8. \A i \in Slots : IsPending(c, i)' <=> IsPending(c, i) \/ i = p
  <2> TAKE i \in Slots
  <2>1. Distance(g, i) \in Nat BY <1>1, DistanceType, RingAssumption
  <2>2. Distance(g, i) = Distance(g, p) <=> i = p BY <1>1, DistanceEqual
  <2>3. IsPending(c, i)' <=> Distance(g, i) < Pending(c) + 1 BY <1>5 DEF IsPending
  <2> QED BY <1>2, <2>1, <2>2, <2>3 DEF IsPending, Pending
<1>9. \A i \in Slots : i # n => Value(c, i)' = Value(c, i)
  <2> SUFFICES ASSUME NEW i \in Slots, i # n PROVE Value(c, i)' = Value(c, i) OBVIOUS
  <2>1. Value(c, i)' = gpfifo_entries'[c][i].value BY <1>3 DEF Value
  <2>2. CASE i = p BY <1>3, <2>1, <2>2 DEF Value
  <2>3. CASE i # p BY <1>3, <2>1, <2>3 DEF Value
  <2> QED BY <2>2, <2>3
<1>10. g # n /\ gpu[c].get # n
  <2>1. Distance(g, g) = 0 BY <1>1, DistanceZero
  <2> QED BY <1>2, <1>4, <1>6, <2>1
<1>11. Value(c, gpu[c].get)' = gpu'[c].semaphore + 1
  <2>1. Value(c, gpu[c].get)' = Value(c, gpu[c].get)
    <3>1. \A i \in Slots : i # n => Value(c, i)' = Value(c, i) BY <1>9
    <3>2. gpu'[c].get = gpu[c].get OBVIOUS
    <3> QED BY <1>1, <1>10, <3>1, <3>2 DEF Value
  <2> QED BY <2>1 DEF ChannelValues
<1>12. Value(c, gpu_get[c])' <= completed_value'[c] + 1
  <2>1. Value(c, gpu_get[c])' = Value(c, gpu_get[c])
    BY <1>1, <1>9, <1>10 DEF Value
  <2> QED BY <2>1 DEF ChannelValues
<1>13. \A i \in Slots : IsPending(c, i)' =>
         /\ Value(c, NextSlot(i))' = Following(c, i)'
         /\ Following(c, i)' <= queued_value'[c] + 1
  <2> SUFFICES ASSUME NEW i \in Slots, IsPending(c, i)'
               PROVE  /\ Value(c, NextSlot(i))' = Following(c, i)'
                      /\ Following(c, i)' <= queued_value'[c] + 1
    OBVIOUS
  <2>1. CASE i = p
    <3>1. Value(c, NextSlot(i))' = queued_value'[c] + 1 BY <1>3, <2>1 DEF Value
    <3>2. Following(c, i)' = queued_value'[c] + 1 BY <1>2, <1>3, <2>1 DEF Following
    <3>3. queued_value'[c] \in Nat BY <1>2
    <3> QED BY <3>1, <3>2, <3>3
  <2>2. CASE i # p
    <3>1. IsPending(c, i) BY <1>8, <2>2
    <3>2. NextSlot(i) # n /\ NextSlot(i) \in Slots BY <1>1, <2>2, NextSlotEqual, NextSlotType
    <3>3. Following(c, i)' = Following(c, i) BY <1>3, <2>2 DEF Following
    <3>4. Value(c, NextSlot(i))' = Value(c, NextSlot(i)) BY <1>9, <3>2
    <3>5. Following(c, i) \in Nat
      <4>1. gpfifo_entries[c][i].value \in Nat BY ChannelTypes
      <4> QED BY <4>1 DEF Following
    <3> QED BY <1>2, <3>1, <3>3, <3>4, <3>5 DEF ChannelValues
  <2> QED BY <2>1, <2>2
<1>14. completed_value'[c] <= gpu'[c].semaphore /\ gpu'[c].semaphore <= queued_value'[c]
  BY <1>2 DEF ChannelValues
<1> QED BY <1>5, <1>7, <1>8, <1>11, <1>12, <1>13, <1>14 DEF ChannelValues

\* The next entry is given to the GPU.
LEMMA ChannelSubmitted ==
    ASSUME TypeInv, NEW c \in Channels, ChannelInv(c), UNCHANGED <<cpu_put, gpu_get>>,
           UNCHANGED <<gpfifo_entries, queued_value, completed_value, gpu>>,
           IsPending(c, gpu_put[c]), gpu_put'[c] = NextSlot(gpu_put[c])
    PROVE  /\ ChannelInv(c)'
           /\ Distance(gpu_get[c], gpu_put'[c]) = Distance(gpu_get[c], gpu_put[c]) + 1
<1> USE DEF ChannelInv
<1>1. gpu_get[c] \in Slots /\ gpu_put[c] \in Slots /\ gpu[c].get \in Slots
      /\ Pending(c) \in 0 .. NumGpfifoEntries - 1
  BY ChannelTypes
<1>2. Distance(gpu_get[c], gpu_put[c]) \in Nat /\ Distance(gpu_get[c], gpu[c].get) \in Nat
  BY <1>1, DistanceType, RingAssumption
<1>3. Distance(gpu_get[c], gpu_put[c]) < NumGpfifoEntries - 1
  BY <1>1, <1>2, RingAssumption DEF IsPending
<1>4. Distance(gpu_get[c], gpu_put'[c]) = Distance(gpu_get[c], gpu_put[c]) + 1
  BY <1>1, <1>3, DistanceNext
<1>5. ChannelOrder(c)'
  BY <1>1, <1>2, <1>4, RingAssumption DEF ChannelOrder, IsPending, Pending
<1>6. ChannelValues(c)' BY DEF ChannelValues, Value, Following, IsPending, Pending
<1> QED BY <1>4, <1>5, <1>6

\* The GPU processes an entry that it was given.
LEMMA ChannelExecuted ==
    ASSUME TypeInv, NEW c \in Channels, ChannelInv(c), GpuExecute(c)
    PROVE  /\ ChannelInv(c)'
           /\ \/ gpu'[c].semaphore = gpu[c].semaphore /\ gpu'[c].key = gpu[c].key
              \/ /\ gpu'[c].semaphore = gpu[c].semaphore + 1
                 /\ gpu[c].semaphore < queued_value[c]
                 /\ gpu'[c].key = key_version
<1> USE DEF ChannelInv
<1> DEFINE i == gpu[c].get
           e == gpfifo_entries[c][i]
<1>1. gpu_get[c] \in Slots /\ gpu_put[c] \in Slots /\ i \in Slots
      /\ Pending(c) \in 0 .. NumGpfifoEntries - 1
  BY ChannelTypes
<1>2. gpu[c].semaphore \in Nat /\ completed_value[c] \in Nat /\ queued_value[c] \in Nat
      /\ e.value \in Nat
  BY <1>1, ChannelTypes
<1>3. /\ UNCHANGED <<cpu_put, gpu_get, gpfifo_entries, gpu_put, queued_value, completed_value>>
      /\ i # gpu_put[c]
  BY DEF GpuExecute, ringVars, semVars
<1>4. /\ gpu'[c].get = NextSlot(i)
      /\ e.type = "NORMAL" => gpu'[c].semaphore = e.value /\ gpu'[c].key = key_version
      /\ e.type # "NORMAL" => gpu'[c].semaphore = gpu[c].semaphore /\ gpu'[c].key = gpu[c].key
  BY DEF GpuExecute, TypeInv, TypeOK, EnvType
<1>5. /\ Distance(gpu_get[c], i) \in Nat /\ Distance(gpu_get[c], gpu_put[c]) \in Nat
      /\ Distance(gpu_get[c], i) < Distance(gpu_get[c], gpu_put[c])
      /\ Distance(gpu_get[c], gpu_put[c]) <= Pending(c)
  <2>1. Distance(gpu_get[c], i) # Distance(gpu_get[c], gpu_put[c])
    BY <1>1, <1>3, DistanceEqual
  <2>2. Distance(gpu_get[c], i) \in Nat /\ Distance(gpu_get[c], gpu_put[c]) \in Nat
    BY <1>1, DistanceType, RingAssumption
  <2> QED BY <2>1, <2>2 DEF ChannelOrder
<1>6. Distance(gpu_get[c], NextSlot(i)) = Distance(gpu_get[c], i) + 1
  BY <1>1, <1>5, DistanceNext, RingAssumption
<1>7. ChannelOrder(c)' BY <1>3, <1>4, <1>5, <1>6 DEF ChannelOrder, Pending
<1>8. IsPending(c, i) BY <1>1, <1>5, RingAssumption DEF IsPending
<1>9. e.value = gpu[c].semaphore + 1
  <2>1. i # cpu_put[c] BY <1>8, GpuNext
  <2> QED BY <2>1 DEF ChannelValues, Value
<1>10. Value(c, NextSlot(i)) = Following(c, i) /\ Following(c, i) <= queued_value[c] + 1
  BY <1>1, <1>8 DEF ChannelValues
<1>11. Following(c, i) = gpu'[c].semaphore + 1
  BY <1>4, <1>9 DEF Following
<1>12. \/ gpu'[c].semaphore = gpu[c].semaphore /\ gpu'[c].key = gpu[c].key
       \/ /\ gpu'[c].semaphore = gpu[c].semaphore + 1
          /\ gpu[c].semaphore < queued_value[c]
          /\ gpu'[c].key = key_version
  BY <1>2, <1>4, <1>9, <1>10, <1>11
<1>13. ChannelValues(c)'
  <2>1. Value(c, gpu[c].get)' = gpu'[c].semaphore + 1
    <3>1. Value(c, gpu[c].get)' = Value(c, NextSlot(i)) BY <1>3, <1>4 DEF Value
    <3> QED BY <1>10, <1>11, <3>1
  <2>2. Value(c, gpu_get[c])' <= completed_value'[c] + 1
    BY <1>3 DEF ChannelValues, Value
  <2>3. \A j \in Slots : IsPending(c, j)' =>
           /\ Value(c, NextSlot(j))' = Following(c, j)'
           /\ Following(c, j)' <= queued_value'[c] + 1
    BY <1>3 DEF ChannelValues, Value, Following, IsPending, Pending
  <2>4. completed_value'[c] <= gpu'[c].semaphore /\ gpu'[c].semaphore <= queued_value'[c]
    BY <1>2, <1>3, <1>12 DEF ChannelValues
  <2> QED BY <2>1, <2>2, <2>3, <2>4 DEF ChannelValues
<1> QED BY <1>7, <1>12, <1>13

-----------------------------------------------------------------------------
(* What the groups of steps do to the channels.                            *)

\* The CPU reads the tracking semaphore of c.
Observed(c) == completed_value' = [completed_value EXCEPT ![c] = gpu[c].semaphore]

LEMMA ObservingEffect ==
    ASSUME TypeInv, NEW t \in Threads, Observing(t)
    PROVE  /\ UNCHANGED <<cpu_put, gpu_get, gpfifo_entries, gpu_put, queued_value, gpu>>
           /\ UNCHANGED <<push_infos, key_version>>
           /\ \E c \in Channels : Observed(c)
<1>1. UNCHANGED <<cpu_put, gpu_get, gpfifo_entries, gpu_put, queued_value, gpu>>
      /\ UNCHANGED <<push_infos, key_version>>
  BY DEF Observing, StartPoll, RotateUpdate, SpinUpdate, IvUpdate, ringVars, envVars,
         rotationVars
<1>2. CASE \E c \in Channels : StartPoll(t, c) BY <1>1, <1>2 DEF StartPoll, Observed
<1>3. CASE RotateUpdate(t) \/ SpinUpdate(t) \/ IvUpdate(t)
  <2>1. call[t].channel \in Channels /\ call[t].index \in Channels
    BY FrameParts DEF TypeInv, TypeOK
  <2> QED BY <1>1, <1>3, <2>1 DEF RotateUpdate, SpinUpdate, IvUpdate,
                                  UpdateCompletedValue, Observed
<1> QED BY <1>2, <1>3 DEF Observing

\* k entries of c whose values are at most v, a completed value, are retired.
Retired(c, k, v, max) ==
    /\ UpdateProgress(c, k, v, max)
    /\ UNCHANGED completed_value \/ Observed(c)
    /\ v <= completed_value'[c]

LEMMA RetiringEffect ==
    ASSUME TypeInv, ReadInv, NEW t \in Threads, Retiring(t)
    PROVE  /\ UNCHANGED <<cpu_put, gpfifo_entries, gpu_put, queued_value, gpu, key_version>>
           /\ \/ UNCHANGED <<gpu_get, push_infos, completed_value>>
              \/ \E c \in Channels, k \in Slots, v \in Nat, max \in Nat : Retired(c, k, v, max)
<1>1. UNCHANGED <<cpu_put, gpfifo_entries, gpu_put, queued_value, gpu, key_version>>
  BY DEF Retiring, Poll, RotatePop, SpinPop, IvPop, RotateCheck, SpinCheck, IvCheck,
         semVars, envVars, rotationVars
<1>2. call[t].channel \in Channels /\ call[t].index \in Channels /\ call[t].completed \in Nat
  BY FrameParts DEF TypeInv, TypeOK, ThreadType, Frames
<1>3. CASE Poll(t) \/ RotatePop(t) \/ SpinPop(t) \/ IvPop(t)
  <2>1. UNCHANGED completed_value
    BY <1>3 DEF Poll, RotatePop, SpinPop, IvPop, semVars
  <2>2. CASE Poll(t) \/ IvPop(t)
    <3>1. call[t].completed <= completed_value[call[t].channel]
      BY <2>2 DEF Poll, IvPop, ReadInv
    <3> QED BY <1>1, <1>2, <2>1, <2>2, <3>1, ProgressAssumption DEF Poll, IvPop, Retired
  <2>3. CASE RotatePop(t) \/ SpinPop(t)
    <3>1. call[t].completed <= completed_value[call[t].index]
      BY <2>3 DEF RotatePop, SpinPop, ReadInv
    <3> QED BY <1>1, <1>2, <2>1, <2>3, <3>1, ProgressAssumption
            DEF RotatePop, SpinPop, Retired
  <2> QED BY <1>3, <2>2, <2>3
<1>4. ASSUME NEW c \in Channels, ReportChannelError(c)
      PROVE  \E k \in Slots, v \in Nat, max \in Nat : Retired(c, k, v, max)
  <2>1. Observed(c) BY <1>4 DEF ReportChannelError, Observed
  <2>2. gpu[c].semaphore \in Nat BY ChannelTypes
  <2>3. completed_value'[c] = gpu[c].semaphore
    BY <2>1 DEF Observed, TypeInv, TypeOK, PoolType
  <2>4. gpu[c].semaphore <= completed_value'[c] BY <2>2, <2>3
  <2> QED BY <1>4, <2>1, <2>2, <2>4, RingAssumption DEF ReportChannelError, Retired
<1>5. CASE RotateCheck(t) \/ SpinCheck(t) \/ IvCheck(t)
  <2>1. \/ UNCHANGED <<gpu_get, push_infos, completed_value>>
        \/ ReportChannelError(call[t].channel) \/ ReportChannelError(call[t].index)
    BY <1>5 DEF RotateCheck, SpinCheck, IvCheck
  <2> QED BY <1>1, <1>2, <1>4, <2>1
<1> QED BY <1>3, <1>5 DEF Retiring

\* The invariant about the channels, and what it needs from the threads.
ChannelsInv == OrderInv /\ ValuesInv
ThreadsInv == SubmitInv /\ WlcInv /\ ReadInv

LEMMA ChannelOf == ASSUME ChannelsInv, NEW c \in Channels PROVE ChannelInv(c)
BY DEF ChannelsInv, OrderInv, ValuesInv, ChannelInv

LEMMA ChannelsOf ==
    ASSUME \A c \in Channels : ChannelInv(c)'
    PROVE  ChannelsInv'
BY DEF ChannelsInv, OrderInv, ValuesInv, ChannelInv

\* Nothing of the ring changes.
LEMMA ChannelsKept ==
    ASSUME TypeInv, ChannelsInv,
           UNCHANGED <<cpu_put, gpu_get, gpfifo_entries, gpu_put, queued_value,
                       completed_value>>,
           \A c \in Channels : gpu'[c].get = gpu[c].get /\ gpu'[c].semaphore = gpu[c].semaphore
    PROVE  ChannelsInv'
<1> SUFFICES ASSUME NEW c \in Channels PROVE ChannelInv(c)' BY ChannelsOf
<1>1. ChannelInv(c) BY ChannelOf
<1> QED BY <1>1, ChannelObserved DEF SameRingOf

LEMMA ChannelsObserved ==
    ASSUME TypeInv, ChannelsInv, NEW c \in Channels, Observed(c),
           UNCHANGED <<cpu_put, gpu_get, gpfifo_entries, gpu_put, queued_value, gpu>>
    PROVE  ChannelsInv'
<1> SUFFICES ASSUME NEW d \in Channels PROVE ChannelInv(d)' BY ChannelsOf
<1>1. ChannelInv(d) BY ChannelOf
<1>2. completed_value'[d] \in {completed_value[d], gpu[d].semaphore}
  BY DEF Observed, TypeInv, TypeOK, PoolType
<1> QED BY <1>1, <1>2, ChannelObserved DEF SameRingOf

LEMMA ChannelsRetired ==
    ASSUME TypeInv, ChannelsInv, NEW c \in Channels, NEW k \in Slots, NEW v \in Nat, NEW max,
           Retired(c, k, v, max),
           UNCHANGED <<cpu_put, gpfifo_entries, gpu_put, queued_value, gpu>>
    PROVE  ChannelsInv'
<1> SUFFICES ASSUME NEW d \in Channels PROVE ChannelInv(d)' BY ChannelsOf
<1>1. ChannelInv(d) /\ SameRingOf(d) BY ChannelOf DEF SameRingOf
<1>2. completed_value'[d] \in {completed_value[d], gpu[d].semaphore}
  BY DEF Retired, Observed, TypeInv, TypeOK, PoolType
<1>3. /\ Retires(c, k, v, max) /\ v <= completed_value'[c]
      /\ gpu_get' = [gpu_get EXCEPT ![c] = (@ + k) % NumGpfifoEntries]
  BY DEF Retired, UpdateProgress
<1>4. CASE d = c
  <2>1. gpu_get'[c] = (gpu_get[c] + k) % NumGpfifoEntries
    BY <1>3 DEF TypeInv, TypeOK, RingType
  <2> QED BY <1>1, <1>2, <1>3, <1>4, <2>1, ChannelRetired
<1>5. CASE d # c
  <2>1. gpu_get'[d] = gpu_get[d] BY <1>3, <1>5 DEF TypeInv, TypeOK, RingType
  <2> QED BY <1>1, <1>2, <2>1, ChannelObserved
<1> QED BY <1>4, <1>5

\* A ready WLC channel has launched all of a channel whose owner has nothing to submit.
LEMMA WlcLaunched ==
    ASSUME ClaimsRingInv, WlcInv, WlcReady, NEW t \in Threads,
           pc[t] \in Owners \ {"submit_ctrl"}
    PROVE  gpu_put[call[t].channel] = cpu_put[call[t].channel]
<1>1. call[t].channel \in Channels BY FrameParts DEF ClaimsRingInv, TypeInv, TypeOK
<1>2. \A u \in Threads : pc[u] = "submit_ctrl" => call[u].channel # call[t].channel
  BY DEF ClaimsRingInv, ClaimsInv, OneOwner, Owners
<1> QED BY <1>1, <1>2 DEF WlcInv

\* What the steps that append an entry do, to the channel of their thread.
LEMMA AppendingEffect ==
    ASSUME ClaimsRingInv, WlcInv, NEW t \in Threads, WriteCtrl(t) \/ EndPush(t),
           NEW c, c = call[t].channel
    PROVE  /\ c \in Channels /\ Pending(c) < NumGpfifoEntries - 1
           /\ UNCHANGED <<gpu_get, push_infos, completed_value, gpu, key_version>>
           /\ \E entry \in Entries :
                 /\ AppendEntry(c, entry) /\ entry.value = queued_value[c] + 1
                 /\ entry.type = IF WriteCtrl(t) THEN "CONTROL" ELSE "NORMAL"
                 /\ queued_value' =
                      [queued_value EXCEPT ![c] = IF entry.type = "NORMAL" THEN @ + 1 ELSE @]
           /\ \/ UNCHANGED gpu_put
              \/ /\ gpu_put[c] = cpu_put[c]
                 /\ gpu_put' = [gpu_put EXCEPT ![c] = NextSlot(cpu_put[c])]
<1> USE DEF ClaimsRingInv, TypeInv, TypeOK
<1>1. c \in Channels BY FrameParts
<1>2. pc[t] \in Owners \ {"submit_ctrl"} BY DEF WriteCtrl, EndPush, Owners
<1>3. Pending(c) < NumGpfifoEntries - 1
  <2>1. current_gpfifo_count[c] = call[t].entries BY <1>2 DEF ClaimsInv, OwnerClaims
  <2>2. call[t].entries \in {1, 2} BY <1>2 DEF FrameOK, Claimed
  <2>3. Pending(c) \in Nat BY <1>1, ChannelTypes, RingAssumption
  <2> QED BY <1>1, <2>1, <2>2, <2>3, RingAssumption DEF RingSafe
<1>4. UNCHANGED <<gpu_get, push_infos, completed_value, gpu, key_version>>
  BY DEF WriteCtrl, EndPush, semVars, envVars, rotationVars
<1>5. queued_value \in [Channels -> Nat] BY DEF PoolType
<1>6. CASE WriteCtrl(t)
  <2> DEFINE e == [type |-> "CONTROL", value |-> queued_value[c] + 1]
  <2>1. e \in Entries /\ e.value = queued_value[c] + 1 /\ e.type = "CONTROL"
    BY <1>1, <1>5 DEF Entries, EntryTypes
  <2>2. AppendEntry(c, e) /\ UNCHANGED queued_value /\ UNCHANGED gpu_put
    BY <1>6 DEF WriteCtrl, semVars
  <2>3. queued_value' =
          [queued_value EXCEPT ![c] = IF e.type = "NORMAL" THEN @ + 1 ELSE @]
    BY <1>5, <2>1, <2>2
  <2> QED BY <1>1, <1>3, <1>4, <1>6, <2>1, <2>2, <2>3
<1>7. CASE EndPush(t) /\ ~WriteCtrl(t)
  <2> DEFINE e == [type |-> "NORMAL", value |-> queued_value[c] + 1]
  <2>1. e \in Entries /\ e.value = queued_value[c] + 1 /\ e.type = "NORMAL"
    BY <1>1, <1>5 DEF Entries, EntryTypes
  <2>2. /\ AppendEntry(c, e)
        /\ queued_value' = [queued_value EXCEPT ![c] = queued_value[c] + 1]
    BY <1>7 DEF EndPush
  <2>3. queued_value' =
          [queued_value EXCEPT ![c] = IF e.type = "NORMAL" THEN @ + 1 ELSE @]
    BY <2>1, <2>2
  <2>4. \/ UNCHANGED gpu_put
        \/ gpu_put[c] = cpu_put[c] /\ gpu_put' = [gpu_put EXCEPT ![c] = NextSlot(cpu_put[c])]
    BY <1>2, <1>7, WlcLaunched DEF EndPush
  <2> QED BY <1>1, <1>3, <1>4, <1>7, <2>1, <2>2, <2>3, <2>4
<1> QED BY <1>6, <1>7

LEMMA ChannelsAppended ==
    ASSUME ClaimsRingInv, ChannelsInv, WlcInv, NEW t \in Threads, WriteCtrl(t) \/ EndPush(t),
           NEW c, c = call[t].channel
    PROVE  /\ ChannelsInv'
           /\ Pending(c)' = Pending(c) + 1
           /\ \A i \in Slots : IsPending(c, i)' <=> IsPending(c, i) \/ i = cpu_put[c]
           /\ \A d \in Channels \ {c} : cpu_put'[d] = cpu_put[d] /\ gpu_put'[d] = gpu_put[d]
<1> USE DEF ClaimsRingInv
<1>1. c \in Channels /\ Pending(c) < NumGpfifoEntries - 1
      /\ UNCHANGED <<gpu_get, completed_value, gpu>>
  BY AppendingEffect
<1>2. PICK entry \in Entries :
         /\ AppendEntry(c, entry) /\ entry.value = queued_value[c] + 1
         /\ queued_value' =
              [queued_value EXCEPT ![c] = IF entry.type = "NORMAL" THEN @ + 1 ELSE @]
  BY AppendingEffect
<1>3. \/ UNCHANGED gpu_put
      \/ gpu_put[c] = cpu_put[c] /\ gpu_put' = [gpu_put EXCEPT ![c] = NextSlot(cpu_put[c])]
  BY AppendingEffect
<1>4. cpu_put \in [Channels -> Slots] /\ gpu_put \in [Channels -> Slots]
      /\ queued_value \in [Channels -> Nat]
      /\ gpfifo_entries \in [Channels -> [Slots -> Entries]]
  BY DEF TypeInv, TypeOK, RingType, PoolType
<1>5. ASSUME NEW d \in Channels \ {c}
      PROVE  cpu_put'[d] = cpu_put[d] /\ gpu_put'[d] = gpu_put[d] /\ ChannelInv(d)'
  <2>1. ChannelInv(d) BY ChannelOf
  <2>2. cpu_put'[d] = cpu_put[d] /\ gpfifo_entries'[d] = gpfifo_entries[d]
    BY <1>2, <1>4 DEF AppendEntry
  <2>3. gpu_put'[d] = gpu_put[d] /\ queued_value'[d] = queued_value[d]
    BY <1>2, <1>3, <1>4
  <2> QED BY <1>1, <2>1, <2>2, <2>3, ChannelObserved DEF SameRingOf
<1>6. /\ ChannelInv(c)' /\ Pending(c)' = Pending(c) + 1
      /\ \A i \in Slots : IsPending(c, i)' <=> IsPending(c, i) \/ i = cpu_put[c]
  <2>1. ChannelInv(c) BY <1>1, ChannelOf
  <2>2. queued_value'[c] = IF entry.type = "NORMAL" THEN queued_value[c] + 1
                                                    ELSE queued_value[c]
    BY <1>1, <1>2, <1>4
  <2>3. \/ gpu_put'[c] = gpu_put[c]
        \/ gpu_put[c] = cpu_put[c] /\ gpu_put'[c] = NextSlot(cpu_put[c])
    BY <1>1, <1>3, <1>4
  <2>4. gpu_get'[c] = gpu_get[c] /\ completed_value'[c] = completed_value[c]
        /\ gpu'[c] = gpu[c]
    BY <1>1
  <2> QED BY <1>1, <1>2, <2>1, <2>2, <2>3, <2>4, ChannelAppended
<1>7. ChannelsInv' BY <1>5, <1>6, ChannelsOf
<1> QED BY <1>5, <1>6, <1>7

\* A thread submits the entry that gpu_put is at.
LEMMA ChannelsSubmitted ==
    ASSUME TypeInv, ChannelsInv, SubmitInv, NEW t \in Threads, SubmitCtrl(t) \/ Submit(t),
           NEW c, c = call[t].channel
    PROVE  /\ ChannelsInv'
           /\ c \in Channels /\ Submitting(t, c) /\ gpu_put[c] = call[t].old_cpu_put
           /\ gpu_put' = [gpu_put EXCEPT ![c] = NextSlot(call[t].old_cpu_put)]
           /\ Distance(gpu_get[c], gpu_put'[c]) = Distance(gpu_get[c], gpu_put[c]) + 1
           /\ UNCHANGED <<cpu_put, gpu_get, gpfifo_entries, queued_value, completed_value, gpu>>
           /\ UNCHANGED <<push_infos, key_version>>
<1>1. c \in Channels BY FrameParts DEF TypeInv, TypeOK
<1>2. Submitting(t, c) /\ gpu_put[c] = call[t].old_cpu_put
      /\ gpu_put' = [gpu_put EXCEPT ![c] = NextSlot(call[t].old_cpu_put)]
      /\ UNCHANGED <<cpu_put, gpu_get, gpfifo_entries, queued_value, completed_value, gpu>>
      /\ UNCHANGED <<push_infos, key_version>>
  BY DEF SubmitCtrl, Submit, Submitting, semVars, envVars, rotationVars
<1>3. IsPending(c, gpu_put[c]) BY <1>1, <1>2 DEF SubmitInv, IsPending
<1>4. gpu_put \in [Channels -> Slots] BY DEF TypeInv, TypeOK, RingType
<1>5. gpu_put'[c] = NextSlot(gpu_put[c]) BY <1>1, <1>2, <1>4
<1>6. ChannelInv(c) BY <1>1, ChannelOf
<1>7. /\ ChannelInv(c)'
      /\ Distance(gpu_get[c], gpu_put'[c]) = Distance(gpu_get[c], gpu_put[c]) + 1
  BY <1>1, <1>2, <1>3, <1>5, <1>6, ChannelSubmitted
<1>8. ASSUME NEW d \in Channels \ {c} PROVE ChannelInv(d)'
  <2>1. ChannelInv(d) BY ChannelOf
  <2>2. gpu_put'[d] = gpu_put[d] BY <1>2, <1>4
  <2> QED BY <1>2, <2>1, <2>2, ChannelObserved DEF SameRingOf
<1>9. ChannelsInv' BY <1>7, <1>8, ChannelsOf
<1> QED BY <1>1, <1>2, <1>7, <1>9

LEMMA ChannelsExecuted ==
    ASSUME TypeInv, ChannelsInv, NEW c \in Channels, GpuExecute(c)
    PROVE  ChannelsInv'
<1>1. ChannelInv(c)' BY ChannelOf, ChannelExecuted
<1>2. ASSUME NEW d \in Channels \ {c} PROVE ChannelInv(d)'
  <2>1. ChannelInv(d) BY ChannelOf
  <2>2. gpu'[d] = gpu[d] BY DEF GpuExecute, TypeInv, TypeOK, EnvType
  <2>3. SameRingOf(d) /\ gpu_get'[d] = gpu_get[d] /\ completed_value'[d] = completed_value[d]
    BY <2>2 DEF SameRingOf, GpuExecute, ringVars, semVars
  <2> QED BY <2>1, <2>3, ChannelObserved
<1> QED BY <1>1, <1>2, ChannelsOf

\* Every step keeps the order and the values of every channel.
LEMMA ChannelsNext ==
    ASSUME ClaimsRingInv, ChannelsInv, ThreadsInv, [Next]_vars PROVE ChannelsInv'
<1> USE DEF ClaimsRingInv, ThreadsInv
<1>1. ASSUME NEW t \in Threads, Quiet(t) PROVE ChannelsInv'
  <2>1. UNCHANGED ringState BY <1>1, QuietRing
  <2> QED BY <2>1, ChannelsKept DEF ringState
<1>2. ASSUME NEW t \in Threads, Observing(t) PROVE ChannelsInv'
  BY <1>2, ObservingEffect, ChannelsObserved
<1>3. ASSUME NEW t \in Threads, Retiring(t) PROVE ChannelsInv'
  <2>1. UNCHANGED <<cpu_put, gpfifo_entries, gpu_put, queued_value, gpu>>
    BY <1>3, RetiringEffect
  <2>2. CASE UNCHANGED <<gpu_get, push_infos, completed_value>>
    BY <2>1, <2>2, ChannelsKept
  <2>3. CASE \E c \in Channels, k \in Slots, v \in Nat, max \in Nat : Retired(c, k, v, max)
    BY <2>1, <2>3, ChannelsRetired
  <2> QED BY <1>3, <2>2, <2>3, RetiringEffect
<1>4. ASSUME NEW t \in Threads, WriteCtrl(t) \/ EndPush(t) PROVE ChannelsInv'
  BY <1>4, ChannelsAppended
<1>5. ASSUME NEW t \in Threads, SubmitCtrl(t) \/ Submit(t) PROVE ChannelsInv'
  BY <1>5, ChannelsSubmitted
<1>6. ASSUME NEW c \in Channels, GpuFault(c) PROVE ChannelsInv'
  <2>1. UNCHANGED <<cpu_put, gpu_get, gpfifo_entries, gpu_put, queued_value,
                    completed_value>>
    BY <1>6, DeviceSteps
  <2>2. \A d \in Channels : gpu'[d].get = gpu[d].get /\ gpu'[d].semaphore = gpu[d].semaphore
    BY <1>6 DEF GpuFault, TypeInv, TypeOK, EnvType
  <2> QED BY <2>1, <2>2, ChannelsKept
<1>7. CASE RequestRotation \/ UNCHANGED vars
  <2>1. UNCHANGED ringState
    BY <1>7 DEF RequestRotation, vars, ringState, ringVars, semVars, envVars
  <2> QED BY <2>1, ChannelsKept DEF ringState
<1> QED BY <1>1, <1>2, <1>3, <1>4, <1>5, <1>6, <1>7, ChannelsExecuted, NextCases

-----------------------------------------------------------------------------
(* What the threads have read, and what they are still to submit.          *)

SubmitStates == {"submit", "submit_ctrl"}

\* A step that leaves the submissions alone.
SameSubmissions ==
    \A u \in Threads :
        /\ pc[u] \in SubmitStates => pc'[u] = pc[u] /\ call'[u] = call[u]
        /\ pc'[u] \in SubmitStates => pc[u] \in SubmitStates

LEMMA OtherSubmissions ==
    ASSUME TypeInv, NEW t \in Threads, Quiet(t) \/ Observing(t) \/ Retiring(t)
    PROVE  SameSubmissions
<1>1. Moves(t) BY QuietMoves, OtherMoves
<1> USE DEF TypeInv, TypeOK, ThreadType, Goto, Return, SubmitStates
<1>2. ASSUME Quiet(t) PROVE pc[t] \notin SubmitStates /\ pc'[t] \notin SubmitStates
  <2>1. CASE Reserve(t) BY <2>1 DEF Reserve, StartReserve
  <2>2. CASE StartRotate(t) \/ RotateLock(t) \/ RotateDecide(t) \/ RotateKey(t) \/ Down(t)
    BY <2>2 DEF StartRotate, RotateLock, RotateDecide, RotateKey, Down
  <2>3. CASE ReserveAll(t) \/ ReleaseAll(t) BY <2>3 DEF ReserveAll, ReleaseAll
  <2>4. CASE Claim(t) \/ SpinClaim(t) BY <2>4 DEF Claim, SpinClaim, ClaimAndLock
  <2>5. CASE CheckIvs(t) \/ IvRotate(t) \/ IvRefuse(t)
    BY <2>5 DEF CheckIvs, IvRotate, IvRefuse, AfterIvs
  <2>6. CASE BeginPush(t) \/ Release(t) BY <2>6 DEF BeginPush, Release
  <2> QED BY <1>2, <2>1, <2>2, <2>3, <2>4, <2>5, <2>6 DEF Quiet
<1>3. ASSUME Observing(t) PROVE pc[t] \notin SubmitStates /\ pc'[t] \notin SubmitStates
  BY <1>3 DEF Observing, StartPoll, RotateUpdate, SpinUpdate, IvUpdate, UpdateCompletedValue
<1>4. ASSUME Retiring(t) PROVE pc[t] \notin SubmitStates /\ pc'[t] \notin SubmitStates
  <2>1. CASE Poll(t) \/ SpinPop(t) BY <2>1 DEF Poll, SpinPop
  <2>2. CASE RotatePop(t) \/ IvPop(t) BY <2>2, WaitKeepsFrame DEF Rotators
  <2>3. CASE RotateCheck(t) \/ SpinCheck(t) \/ IvCheck(t)
    BY <2>3 DEF RotateCheck, SpinCheck, IvCheck
  <2> QED BY <1>4, <2>1, <2>2, <2>3 DEF Retiring
<1> QED BY <1>1, <1>2, <1>3, <1>4 DEF SameSubmissions, Moves

\* Submissions stay ahead of gpu_put as entries are retired, or as nothing changes.
LEMMA SubmitKept ==
    ASSUME TypeInv, ChannelsInv, SubmitInv, WlcInv, SameSubmissions,
           UNCHANGED <<cpu_put, gpu_put>>,
           \/ UNCHANGED gpu_get
           \/ \E c \in Channels, k \in Slots :
                 /\ gpu_get' = [gpu_get EXCEPT ![c] = (@ + k) % NumGpfifoEntries]
                 /\ k <= Distance(gpu_get[c], gpu[c].get)
    PROVE  SubmitInv' /\ WlcInv'
<1>1. WlcInv' BY DEF WlcInv, SameSubmissions, SubmitStates
<1>2. \A u \in Threads, d \in Channels : Submitting(u, d)' =>
         Submitting(u, d) /\ call'[u].old_cpu_put = call[u].old_cpu_put
  BY DEF SameSubmissions, SubmitStates, Submitting
<1>3. \A u, w \in Threads, d \in Channels :
         Submitting(u, d)' /\ Submitting(w, d)'
           /\ call'[u].old_cpu_put = call'[w].old_cpu_put => u = w
  BY <1>2 DEF SubmitInv
<1>4. ASSUME NEW u \in Threads, NEW d \in Channels, Submitting(u, d)'
      PROVE  /\ Distance(gpu_get'[d], gpu_put[d]) <= Distance(gpu_get'[d], call[u].old_cpu_put)
             /\ Distance(gpu_get'[d], call[u].old_cpu_put) < Distance(gpu_get'[d], cpu_put[d])
  <2>1. /\ Distance(gpu_get[d], gpu_put[d]) <= Distance(gpu_get[d], call[u].old_cpu_put)
        /\ Distance(gpu_get[d], call[u].old_cpu_put) < Distance(gpu_get[d], cpu_put[d])
    BY <1>2, <1>4 DEF SubmitInv, Pending
  <2>2. CASE gpu_get'[d] = gpu_get[d] BY <2>1, <2>2
  <2>3. ASSUME NEW k \in Slots, gpu_get'[d] = (gpu_get[d] + k) % NumGpfifoEntries,
               k <= Distance(gpu_get[d], gpu[d].get)
        PROVE  /\ Distance(gpu_get'[d], gpu_put[d])
                    <= Distance(gpu_get'[d], call[u].old_cpu_put)
               /\ Distance(gpu_get'[d], call[u].old_cpu_put)
                    < Distance(gpu_get'[d], cpu_put[d])
    <3> DEFINE g == gpu_get[d]
               o == call[u].old_cpu_put
    <3>1. g \in Slots /\ gpu_put[d] \in Slots /\ cpu_put[d] \in Slots /\ gpu[d].get \in Slots
          /\ o \in Slots
      BY ChannelTypes DEF TypeInv, TypeOK, ThreadType, Frames
    <3>2. /\ Distance(g, gpu_put[d]) \in Nat /\ Distance(g, cpu_put[d]) \in Nat
          /\ Distance(g, gpu[d].get) \in Nat /\ Distance(g, o) \in Nat /\ k \in Nat
      <4>1. k \in Nat BY DEF Slots
      <4>2. \A p \in Slots : Distance(g, p) \in Nat BY <3>1, DistanceType, RingAssumption
      <4> QED BY <3>1, <4>1, <4>2
    <3>3. Distance(g, gpu[d].get) <= Distance(g, gpu_put[d])
      BY ChannelOf DEF ChannelInv, ChannelOrder
    <3>4. /\ k <= Distance(g, gpu_put[d]) /\ k <= Distance(g, cpu_put[d])
          /\ k <= Distance(g, o)
      BY <2>1, <2>3, <3>2, <3>3
    <3>5. /\ Distance(gpu_get'[d], gpu_put[d]) = Distance(g, gpu_put[d]) - k
          /\ Distance(gpu_get'[d], cpu_put[d]) = Distance(g, cpu_put[d]) - k
          /\ Distance(gpu_get'[d], o) = Distance(g, o) - k
      BY <2>3, <3>1, <3>4, RetiredDistance
    <3> QED BY <2>1, <3>2, <3>5
  <2>4. gpu_get \in [Channels -> Slots] BY DEF TypeInv, TypeOK, RingType
  <2> QED BY <2>2, <2>3, <2>4
<1>5. SubmitInv' BY <1>2, <1>3, <1>4 DEF SubmitInv, Pending
<1> QED BY <1>1, <1>5

\* The completed value of a channel only grows, up to the value of the semaphore.
LEMMA CompletedGrows ==
    ASSUME ClaimsRingInv, ChannelsInv, ReadInv, WlcInv, SubmitInv, [Next]_vars,
           NEW c \in Channels
    PROVE  /\ completed_value'[c] \in {completed_value[c], gpu[c].semaphore}
           /\ completed_value[c] <= completed_value'[c]
<1> USE DEF ClaimsRingInv
<1>1. completed_value \in [Channels -> Nat] BY DEF TypeInv, TypeOK, PoolType
<1>2. completed_value[c] <= gpu[c].semaphore /\ completed_value[c] \in Nat
  BY ChannelOf, ChannelTypes DEF ChannelInv, ChannelValues
<1> SUFFICES completed_value'[c] \in {completed_value[c], gpu[c].semaphore} BY <1>2
<1>3. ASSUME NEW d \in Channels, Observed(d)
      PROVE  completed_value'[c] \in {completed_value[c], gpu[c].semaphore}
  BY <1>1, <1>3 DEF Observed
<1>4. ASSUME NEW t \in Threads, Quiet(t) PROVE UNCHANGED completed_value
  BY <1>4, QuietRing DEF ringState
<1>5. ASSUME NEW t \in Threads, Observing(t) PROVE \E d \in Channels : Observed(d)
  BY <1>5, ObservingEffect
<1>6. ASSUME NEW t \in Threads, Retiring(t)
      PROVE  UNCHANGED completed_value \/ \E d \in Channels : Observed(d)
  BY <1>6, RetiringEffect DEF Retired
<1>7. ASSUME NEW t \in Threads, WriteCtrl(t) \/ EndPush(t) PROVE UNCHANGED completed_value
  BY <1>7, AppendingEffect
<1>8. ASSUME NEW t \in Threads, SubmitCtrl(t) \/ Submit(t) PROVE UNCHANGED completed_value
  BY <1>8, ChannelsSubmitted
<1> QED BY <1>3, <1>4, <1>5, <1>6, <1>7, <1>8, NextCases, DeviceSteps

ReadStates == {"poll_pop", "iv_pop", "spin_pop", "rotate_pop"}

\* What a thread has read stays completed.
LEMMA ReadNext == ASSUME ClaimsRingInv, ChannelsInv, ThreadsInv, [Next]_vars PROVE ReadInv'
<1> USE DEF ClaimsRingInv, ThreadsInv
<1>1. \A c \in Channels : /\ completed_value[c] <= completed_value'[c]
                          /\ completed_value[c] \in Nat /\ completed_value'[c] \in Nat
  <2>1. TypeInv' BY ClaimsRingNext
  <2>2. completed_value' \in [Channels -> Nat] BY <2>1 DEF TypeInv, TypeOK, PoolType
  <2> QED BY <2>2, CompletedGrows, ChannelTypes
<1>2. \A u \in Threads : /\ call[u].channel \in Channels /\ call[u].index \in Channels
                         /\ call[u].completed \in Nat
  BY FrameParts DEF TypeInv, TypeOK, ThreadType, Frames
<1>3. ASSUME NEW u \in Threads, pc'[u] = pc[u], call'[u] = call[u]
      PROVE  /\ pc'[u] \in {"poll_pop", "iv_pop"} =>
                  call'[u].completed <= completed_value'[call'[u].channel]
             /\ pc'[u] \in {"spin_pop", "rotate_pop"} =>
                  call'[u].completed <= completed_value'[call'[u].index]
  BY <1>1, <1>2, <1>3 DEF ReadInv
<1>4. ASSUME NEW t \in Threads, Moves(t), pc'[t] \notin ReadStates PROVE ReadInv'
  BY <1>3, <1>4 DEF ReadInv, Moves, ReadStates
<1>5. ASSUME UNCHANGED <<pc, call>> PROVE ReadInv'
  BY <1>3, <1>5 DEF ReadInv
<1> USE DEF TypeInv, TypeOK, ThreadType, Goto, Return, ReadStates
<1>6. ASSUME NEW t \in Threads, Quiet(t) PROVE ReadInv'
  <2>1. Moves(t) BY <1>6, QuietMoves
  <2>2. CASE Reserve(t) BY <1>4, <2>1, <2>2 DEF Reserve, StartReserve
  <2>3. CASE StartRotate(t) \/ RotateLock(t) \/ RotateDecide(t) \/ RotateKey(t) \/ Down(t)
    BY <1>4, <2>1, <2>3 DEF StartRotate, RotateLock, RotateDecide, RotateKey, Down
  <2>4. CASE ReserveAll(t) \/ ReleaseAll(t) BY <1>4, <2>1, <2>4 DEF ReserveAll, ReleaseAll
  <2>5. CASE Claim(t) \/ SpinClaim(t)
    BY <1>4, <2>1, <2>5 DEF Claim, SpinClaim, ClaimAndLock
  <2>6. CASE CheckIvs(t) \/ IvRotate(t) \/ IvRefuse(t)
    BY <1>4, <2>1, <2>6 DEF CheckIvs, IvRotate, IvRefuse, AfterIvs
  <2>7. CASE BeginPush(t) \/ Release(t) BY <1>4, <2>1, <2>7 DEF BeginPush, Release
  <2> QED BY <1>6, <2>2, <2>3, <2>4, <2>5, <2>6, <2>7 DEF Quiet
<1>7. ASSUME NEW t \in Threads, Observing(t) PROVE ReadInv'
  <2>1. Moves(t) BY <1>7, OtherMoves
  <2>2. completed_value \in [Channels -> Nat] BY DEF PoolType
  <2>3. \A c \in Channels : gpu[c].semaphore \in Nat BY ChannelTypes
  <2>4. /\ pc'[t] \in {"poll_pop", "iv_pop"} =>
             call'[t].completed <= completed_value'[call'[t].channel]
        /\ pc'[t] \in {"spin_pop", "rotate_pop"} =>
             call'[t].completed <= completed_value'[call'[t].index]
    <3>1. CASE \E c \in Channels : StartPoll(t, c)
      <4>1. PICK c \in Channels : StartPoll(t, c) BY <3>1
      <4>2. pc'[t] = "poll_pop" /\ completed_value'[c] = gpu[c].semaphore
        BY <2>2, <4>1 DEF StartPoll
      <4>3. call'[t] = [NoCall EXCEPT !.channel = c, !.completed = gpu[c].semaphore]
        BY <4>1 DEF StartPoll
      <4>4. call'[t].channel = c /\ call'[t].completed = gpu[c].semaphore
        BY <4>3 DEF NoCall
      <4> QED BY <2>3, <4>2, <4>4
    <3>2. CASE IvUpdate(t)
      <4>1. pc'[t] = "iv_pop" /\ call'[t].channel = call[t].channel
            /\ call'[t].completed = gpu[call[t].channel].semaphore
            /\ completed_value'[call[t].channel] = gpu[call[t].channel].semaphore
        BY <1>2, <2>2, <3>2 DEF IvUpdate, UpdateCompletedValue, Frames
      <4> QED BY <1>2, <2>3, <4>1
    <3>3. CASE SpinUpdate(t) \/ RotateUpdate(t)
      <4>1. pc'[t] \in {"spin_pop", "rotate_pop"} /\ call'[t].index = call[t].index
            /\ call'[t].completed = gpu[call[t].index].semaphore
            /\ completed_value'[call[t].index] = gpu[call[t].index].semaphore
        BY <1>2, <2>2, <3>3 DEF SpinUpdate, RotateUpdate, UpdateCompletedValue, Frames
      <4> QED BY <1>2, <2>3, <4>1
    <3> QED BY <1>7, <3>1, <3>2, <3>3 DEF Observing
  <2> QED BY <1>3, <2>1, <2>4 DEF ReadInv, Moves
<1>8. ASSUME NEW t \in Threads, Retiring(t) PROVE ReadInv'
  <2>1. Moves(t) BY <1>8, OtherMoves
  <2>2. CASE Poll(t) \/ SpinPop(t) BY <1>4, <2>1, <2>2 DEF Poll, SpinPop
  <2>3. CASE RotatePop(t) \/ IvPop(t)
    <3>1. pc'[t] \notin {"poll_pop", "iv_pop", "spin_pop", "rotate_pop"}
      BY <2>3, RotatePopCases, IvPopCases
    <3> QED BY <1>4, <2>1, <3>1
  <2>4. CASE RotateCheck(t) \/ SpinCheck(t) \/ IvCheck(t)
    BY <1>4, <2>1, <2>4 DEF RotateCheck, SpinCheck, IvCheck
  <2> QED BY <1>8, <2>2, <2>3, <2>4 DEF Retiring
<1>9. ASSUME NEW t \in Threads, WriteCtrl(t) \/ EndPush(t) \/ SubmitCtrl(t) \/ Submit(t)
      PROVE  ReadInv'
  <2>1. Moves(t) BY <1>9, OtherMoves
  <2> QED BY <1>4, <1>9, <2>1 DEF WriteCtrl, EndPush, SubmitCtrl, Submit
<1> QED BY <1>5, <1>6, <1>7, <1>8, <1>9, NextCases, DeviceSteps

\* An entry appended by t is submitted by t, after all others.
LEMMA SubmitAppended ==
    ASSUME ClaimsRingInv, ChannelsInv, ThreadsInv, NEW t \in Threads,
           WriteCtrl(t) \/ EndPush(t)
    PROVE  SubmitInv' /\ WlcInv'
<1> USE DEF ClaimsRingInv, ThreadsInv
<1>0. PICK c \in Channels : c = call[t].channel BY FrameParts DEF TypeInv, TypeOK
<1>1. /\ Pending(c)' = Pending(c) + 1 /\ UNCHANGED gpu_get
      /\ \A d \in Channels \ {c} : cpu_put'[d] = cpu_put[d] /\ gpu_put'[d] = gpu_put[d]
  BY <1>0, ChannelsAppended, AppendingEffect
<1>2. Moves(t) BY OtherMoves
<1>3. pc[t] \in Owners \ {"submit_ctrl"} /\ pc[t] \notin SubmitStates
  BY DEF WriteCtrl, EndPush, Owners, SubmitStates
<1>4. cpu_put[c] \in Slots /\ gpu_get[c] \in Slots /\ gpu_put[c] \in Slots
      /\ Pending(c) \in Nat
  BY ChannelTypes, RingAssumption
<1>5. ChannelOrder(c) BY ChannelOf DEF ChannelInv
<1>6. ASSUME NEW u \in Threads \ {t}, NEW d \in Channels, Submitting(u, d)'
      PROVE  /\ Submitting(u, d) /\ call'[u].old_cpu_put = call[u].old_cpu_put
             /\ Distance(gpu_get[d], gpu_put[d]) <= Distance(gpu_get[d], call[u].old_cpu_put)
             /\ Distance(gpu_get[d], call[u].old_cpu_put) < Pending(d)
             /\ Distance(gpu_get[d], call[u].old_cpu_put) \in Nat
  <2>1. Submitting(u, d) /\ call'[u].old_cpu_put = call[u].old_cpu_put
    BY <1>2, <1>6 DEF Submitting, Moves
  <2>2. call[u].old_cpu_put \in Slots /\ gpu_get[d] \in Slots
    BY ChannelTypes DEF TypeInv, TypeOK, ThreadType, Frames
  <2>3. Distance(gpu_get[d], call[u].old_cpu_put) \in Nat
    BY <2>2, DistanceType, RingAssumption
  <2> QED BY <2>1, <2>3 DEF SubmitInv
<1>7. CASE /\ UNCHANGED gpu_put
           /\ pc'[t] \in SubmitStates /\ call'[t].channel = c
           /\ call'[t].old_cpu_put = cpu_put[c]
           /\ WlcReady => pc'[t] = "submit_ctrl" /\ cpu_put'[c] = NextSlot(cpu_put[c])
  <2>1. ASSUME NEW u \in Threads, NEW d \in Channels, Submitting(u, d)'
        PROVE  /\ Distance(gpu_get'[d], gpu_put'[d])
                    <= Distance(gpu_get'[d], call'[u].old_cpu_put)
               /\ Distance(gpu_get'[d], call'[u].old_cpu_put) < Pending(d)'
    <3>1. CASE u = t
      <4>1. d = c BY <1>7, <2>1, <3>1 DEF Submitting
      <4>2. Distance(gpu_get[c], cpu_put[c]) = Pending(c) BY DEF Pending
      <4> QED BY <1>1, <1>4, <1>5, <1>7, <3>1, <4>1, <4>2 DEF ChannelOrder
    <3>2. CASE u # t
      <4>1. /\ call'[u].old_cpu_put = call[u].old_cpu_put
            /\ Distance(gpu_get[d], gpu_put[d])
                 <= Distance(gpu_get[d], call[u].old_cpu_put)
            /\ Distance(gpu_get[d], call[u].old_cpu_put) < Pending(d)
            /\ Distance(gpu_get[d], call[u].old_cpu_put) \in Nat
        BY <1>6, <2>1, <3>2
      <4>2. d # c => Pending(d)' = Pending(d) BY <1>1 DEF Pending
      <4> QED BY <1>1, <1>4, <1>7, <4>1, <4>2
    <3> QED BY <3>1, <3>2
  <2>2. ASSUME NEW u \in Threads \ {t}, NEW d \in Channels, Submitting(u, d)',
               Submitting(t, d)', call'[u].old_cpu_put = call'[t].old_cpu_put
        PROVE  FALSE
    <3>1. d = c BY <1>7, <2>2 DEF Submitting
    <3>2. Distance(gpu_get[c], cpu_put[c]) < Pending(c) BY <1>6, <1>7, <2>2, <3>1
    <3> QED BY <1>4, <3>2 DEF Pending
  <2>3. ASSUME NEW u \in Threads \ {t}, NEW w \in Threads \ {t}, NEW d \in Channels,
               Submitting(u, d)', Submitting(w, d)',
               call'[u].old_cpu_put = call'[w].old_cpu_put
        PROVE  u = w
    BY <1>6, <2>3 DEF SubmitInv
  <2>4. SubmitInv' BY <2>1, <2>2, <2>3 DEF SubmitInv
  <2>5. WlcInv'
    <3> SUFFICES ASSUME WlcReady
                 PROVE  /\ \A u \in Threads : pc'[u] # "submit"
                        /\ \A d \in Channels : gpu_put'[d] # cpu_put'[d] =>
                             \E u \in Threads : /\ pc'[u] = "submit_ctrl"
                                                /\ call'[u].channel = d
                                                /\ gpu_put'[d] = call'[u].old_cpu_put
                                                /\ cpu_put'[d] = NextSlot(call'[u].old_cpu_put)
      BY DEF WlcInv
    <3>1. \A u \in Threads : pc'[u] # "submit" BY <1>2, <1>7 DEF WlcInv, Moves
    <3>2. gpu_put[c] = cpu_put[c] BY <1>0, <1>3, WlcLaunched
    <3>3. ASSUME NEW d \in Channels \ {c}, gpu_put'[d] # cpu_put'[d]
          PROVE  \E u \in Threads : /\ pc'[u] = "submit_ctrl" /\ call'[u].channel = d
                                    /\ gpu_put'[d] = call'[u].old_cpu_put
                                    /\ cpu_put'[d] = NextSlot(call'[u].old_cpu_put)
      <4>1. PICK u \in Threads : /\ pc[u] = "submit_ctrl" /\ call[u].channel = d
                                 /\ gpu_put[d] = call[u].old_cpu_put
                                 /\ cpu_put[d] = NextSlot(call[u].old_cpu_put)
        BY <1>1, <3>3 DEF WlcInv
      <4>2. u # t BY <1>3, <4>1
      <4> QED BY <1>1, <1>2, <4>1, <4>2 DEF Moves
    <3> QED BY <1>7, <3>1, <3>2, <3>3
  <2> QED BY <2>4, <2>5
<1>8. CASE /\ WlcReady /\ pc'[t] = "idle"
           /\ gpu_put'[c] = NextSlot(cpu_put[c]) /\ cpu_put'[c] = NextSlot(cpu_put[c])
  <2>1. ASSUME NEW u \in Threads, NEW d \in Channels, Submitting(u, d)'
        PROVE  u # t /\ d # c
    <3>1. u # t BY <1>8, <2>1 DEF Submitting
    <3>2. Submitting(u, d) BY <1>6, <2>1, <3>1
    <3>3. pc[u] = "submit_ctrl" BY <1>8, <3>2 DEF Submitting, WlcInv
    <3> QED BY <1>0, <1>3, <3>1, <3>2, <3>3 DEF Submitting, ClaimsInv, OneOwner, Owners
  <2>2. \A d \in Channels \ {c} : Pending(d)' = Pending(d) BY <1>1 DEF Pending
  <2>3. SubmitInv' BY <1>1, <1>6, <2>1, <2>2 DEF SubmitInv
  <2>4. WlcInv'
    <3>1. \A u \in Threads : pc'[u] # "submit" BY <1>2, <1>8 DEF WlcInv, Moves
    <3>2. ASSUME NEW d \in Channels, gpu_put'[d] # cpu_put'[d]
          PROVE  \E u \in Threads : /\ pc'[u] = "submit_ctrl" /\ call'[u].channel = d
                                    /\ gpu_put'[d] = call'[u].old_cpu_put
                                    /\ cpu_put'[d] = NextSlot(call'[u].old_cpu_put)
      <4>0. d # c BY <1>8, <3>2
      <4>1. PICK u \in Threads : /\ pc[u] = "submit_ctrl" /\ call[u].channel = d
                                 /\ gpu_put[d] = call[u].old_cpu_put
                                 /\ cpu_put[d] = NextSlot(call[u].old_cpu_put)
        BY <1>1, <1>8, <3>2, <4>0 DEF WlcInv
      <4>2. u # t BY <1>3, <4>1
      <4> QED BY <1>1, <1>2, <4>0, <4>1, <4>2 DEF Moves
    <3> QED BY <3>1, <3>2 DEF WlcInv
  <2> QED BY <2>3, <2>4
<1>9. cpu_put'[c] = NextSlot(cpu_put[c])
  <2>1. \E entry \in Entries : AppendEntry(c, entry) BY <1>0, AppendingEffect
  <2> QED BY <2>1 DEF AppendEntry, TypeInv, TypeOK, RingType
<1>10. CASE WriteCtrl(t)
  <2>1. UNCHANGED gpu_put /\ pc'[t] = "submit_ctrl"
    BY <1>10 DEF WriteCtrl, Goto, TypeInv, TypeOK, ThreadType
  <2>2. call'[t].channel = c /\ call'[t].old_cpu_put = cpu_put[c]
    BY <1>0, <1>10 DEF WriteCtrl, TypeInv, TypeOK, ThreadType, Frames
  <2> QED BY <1>7, <1>9, <2>1, <2>2 DEF SubmitStates
<1>11. CASE EndPush(t) /\ ~WlcReady
  <2>1. UNCHANGED gpu_put /\ pc'[t] = "submit"
    BY <1>11 DEF EndPush, Goto, TypeInv, TypeOK, ThreadType
  <2>2. call'[t].channel = c /\ call'[t].old_cpu_put = cpu_put[c]
    BY <1>0, <1>11 DEF EndPush, TypeInv, TypeOK, ThreadType, Frames
  <2> QED BY <1>7, <1>11, <2>1, <2>2 DEF SubmitStates
<1>12. CASE EndPush(t) /\ WlcReady
  <2>1. gpu_put'[c] = NextSlot(cpu_put[c]) /\ pc'[t] = "idle"
    BY <1>0, <1>12 DEF EndPush, Goto, Return, TypeInv, TypeOK, ThreadType, RingType
  <2> QED BY <1>8, <1>9, <1>12, <2>1
<1> QED BY <1>10, <1>11, <1>12

\* The submission of t leaves those after it.
LEMMA SubmitSubmitted ==
    ASSUME TypeInv, ChannelsInv, SubmitInv, WlcInv, NEW t \in Threads,
           SubmitCtrl(t) \/ Submit(t)
    PROVE  SubmitInv' /\ WlcInv'
<1>0. PICK c \in Channels : c = call[t].channel BY FrameParts DEF TypeInv, TypeOK
<1>1. /\ Submitting(t, c) /\ gpu_put[c] = call[t].old_cpu_put
      /\ gpu_put' = [gpu_put EXCEPT ![c] = NextSlot(call[t].old_cpu_put)]
      /\ Distance(gpu_get[c], gpu_put'[c]) = Distance(gpu_get[c], gpu_put[c]) + 1
      /\ UNCHANGED <<cpu_put, gpu_get>>
  BY <1>0, ChannelsSubmitted
<1>2. Moves(t) BY OtherMoves
<1>3. pc'[t] \notin SubmitStates
  BY DEF SubmitCtrl, Submit, Goto, Return, SubmitStates, TypeInv, TypeOK, ThreadType
<1>4. ASSUME NEW u \in Threads, NEW d \in Channels, Submitting(u, d)'
      PROVE  u # t /\ Submitting(u, d) /\ call'[u] = call[u]
  BY <1>2, <1>3, <1>4 DEF Submitting, Moves, SubmitStates
<1>5. gpu_put \in [Channels -> Slots] BY DEF TypeInv, TypeOK, RingType
<1>6. ASSUME NEW u \in Threads, NEW d \in Channels, Submitting(u, d)'
      PROVE  /\ Distance(gpu_get'[d], gpu_put'[d])
                  <= Distance(gpu_get'[d], call'[u].old_cpu_put)
             /\ Distance(gpu_get'[d], call'[u].old_cpu_put) < Pending(d)'
  <2> DEFINE o == call[u].old_cpu_put
  <2>1. /\ Distance(gpu_get[d], gpu_put[d]) <= Distance(gpu_get[d], o)
        /\ Distance(gpu_get[d], o) < Pending(d)
    BY <1>4, <1>6 DEF SubmitInv
  <2>2. Pending(d)' = Pending(d) BY <1>1 DEF Pending
  <2>3. CASE d # c BY <1>1, <1>4, <1>5, <1>6, <2>1, <2>2, <2>3
  <2>4. CASE d = c
    <3>1. o # gpu_put[c] BY <1>1, <1>4, <1>6, <2>4 DEF SubmitInv
    <3>2. o \in Slots /\ gpu_get[c] \in Slots /\ gpu_put[c] \in Slots
      BY ChannelTypes DEF TypeInv, TypeOK, ThreadType, Frames
    <3>3. Distance(gpu_get[c], o) # Distance(gpu_get[c], gpu_put[c])
      BY <3>1, <3>2, DistanceEqual
    <3>4. Distance(gpu_get[c], o) \in Nat /\ Distance(gpu_get[c], gpu_put[c]) \in Nat
      BY <3>2, DistanceType, RingAssumption
    <3> QED BY <1>1, <1>4, <1>6, <2>1, <2>2, <2>4, <3>3, <3>4
  <2> QED BY <2>3, <2>4
<1>7. SubmitInv' BY <1>4, <1>6 DEF SubmitInv
<1>8. WlcInv'
  <2> SUFFICES ASSUME WlcReady
               PROVE  /\ \A u \in Threads : pc'[u] # "submit"
                      /\ \A d \in Channels : gpu_put'[d] # cpu_put'[d] =>
                           \E u \in Threads : /\ pc'[u] = "submit_ctrl"
                                              /\ call'[u].channel = d
                                              /\ gpu_put'[d] = call'[u].old_cpu_put
                                              /\ cpu_put'[d] = NextSlot(call'[u].old_cpu_put)
    BY DEF WlcInv
  <2>1. \A u \in Threads : pc'[u] # "submit"
    BY <1>2, <1>3 DEF WlcInv, Moves, SubmitStates
  <2>2. gpu_put'[c] = cpu_put'[c]
    <3>1. gpu_put[c] # cpu_put[c]
      <4>1. Distance(gpu_get[c], gpu_put[c]) < Pending(c) BY <1>1 DEF SubmitInv
      <4>2. Pending(c) \in Nat BY ChannelTypes, RingAssumption
      <4> QED BY <4>1, <4>2 DEF Pending
    <3>2. PICK u \in Threads : /\ pc[u] = "submit_ctrl" /\ call[u].channel = c
                               /\ gpu_put[c] = call[u].old_cpu_put
                               /\ cpu_put[c] = NextSlot(call[u].old_cpu_put)
      BY <3>1 DEF WlcInv
    <3>3. Submitting(u, c) BY <3>2 DEF Submitting
    <3>4. u = t BY <1>1, <3>2, <3>3 DEF SubmitInv
    <3> QED BY <1>1, <1>5, <3>2, <3>4
  <2>3. ASSUME NEW d \in Channels, gpu_put'[d] # cpu_put'[d]
        PROVE  \E u \in Threads : /\ pc'[u] = "submit_ctrl" /\ call'[u].channel = d
                                  /\ gpu_put'[d] = call'[u].old_cpu_put
                                  /\ cpu_put'[d] = NextSlot(call'[u].old_cpu_put)
    <3>0. d # c /\ gpu_put'[d] = gpu_put[d] BY <1>1, <1>5, <2>2, <2>3
    <3>1. PICK u \in Threads : /\ pc[u] = "submit_ctrl" /\ call[u].channel = d
                               /\ gpu_put[d] = call[u].old_cpu_put
                               /\ cpu_put[d] = NextSlot(call[u].old_cpu_put)
      BY <1>1, <2>3, <3>0 DEF WlcInv
    <3>2. u # t BY <1>0, <3>0, <3>1
    <3> QED BY <1>1, <1>2, <3>0, <3>1, <3>2 DEF Moves
  <2> QED BY <2>1, <2>3
<1> QED BY <1>7, <1>8

\* Entries that a step retires have been processed.
LEMMA RetiredProcessed ==
    ASSUME TypeInv, ChannelsInv, NEW c \in Channels, NEW k \in Slots, NEW v \in Nat, NEW max,
           Retired(c, k, v, max)
    PROVE  k <= Distance(gpu_get[c], gpu[c].get) /\ k <= Pending(c)
<1>1. ChannelInv(c) BY ChannelOf
<1>2. gpu[c].semaphore \in Nat /\ completed_value[c] \in Nat BY ChannelTypes
<1>3. completed_value'[c] \in {completed_value[c], gpu[c].semaphore}
  BY DEF Retired, Observed, TypeInv, TypeOK, PoolType
<1>4. completed_value[c] <= gpu[c].semaphore BY <1>1 DEF ChannelInv, ChannelValues
<1>5. v <= gpu[c].semaphore BY <1>2, <1>3, <1>4 DEF Retired
<1> QED BY <1>1, <1>5, RetiresProcessed DEF Retired, UpdateProgress

LEMMA ThreadsNext ==
    ASSUME ClaimsRingInv, ChannelsInv, ThreadsInv, [Next]_vars PROVE ThreadsInv'
<1> USE DEF ClaimsRingInv
<1>1. ReadInv' BY ReadNext
<1>2. SubmitInv /\ WlcInv /\ ReadInv BY DEF ThreadsInv
<1>3. ASSUME NEW t \in Threads, Quiet(t) PROVE SubmitInv' /\ WlcInv'
  BY <1>2, <1>3, QuietRing, OtherSubmissions, SubmitKept DEF ringState
<1>4. ASSUME NEW t \in Threads, Observing(t) PROVE SubmitInv' /\ WlcInv'
  BY <1>2, <1>4, ObservingEffect, OtherSubmissions, SubmitKept
<1>5. ASSUME NEW t \in Threads, Retiring(t) PROVE SubmitInv' /\ WlcInv'
  <2>1. UNCHANGED <<cpu_put, gpu_put>> /\ SameSubmissions
    BY <1>2, <1>5, RetiringEffect, OtherSubmissions
  <2>2. CASE UNCHANGED gpu_get BY <1>2, <2>1, <2>2, SubmitKept
  <2>3. ASSUME NEW c \in Channels, NEW k \in Slots, NEW v \in Nat, NEW max \in Nat,
               Retired(c, k, v, max)
        PROVE  SubmitInv' /\ WlcInv'
    <3>1. /\ k <= Distance(gpu_get[c], gpu[c].get)
          /\ gpu_get' = [gpu_get EXCEPT ![c] = (@ + k) % NumGpfifoEntries]
      BY <2>3, RetiredProcessed DEF Retired, UpdateProgress
    <3> QED BY <1>2, <2>1, <3>1, SubmitKept
  <2> QED BY <1>2, <1>5, <2>2, <2>3, RetiringEffect
<1>6. ASSUME NEW t \in Threads, WriteCtrl(t) \/ EndPush(t) PROVE SubmitInv' /\ WlcInv'
  BY <1>6, SubmitAppended
<1>7. ASSUME NEW t \in Threads, SubmitCtrl(t) \/ Submit(t) PROVE SubmitInv' /\ WlcInv'
  BY <1>2, <1>7, SubmitSubmitted
<1>8. ASSUME \/ \E c \in Channels : GpuExecute(c) \/ GpuFault(c)
             \/ RequestRotation
             \/ UNCHANGED vars
      PROVE  SubmitInv' /\ WlcInv'
  <2>1. SameSubmissions BY <1>8, DeviceSteps DEF SameSubmissions
  <2>2. UNCHANGED <<cpu_put, gpu_put>> /\ UNCHANGED gpu_get BY <1>8, DeviceSteps
  <2> QED BY <1>2, <2>1, <2>2, SubmitKept
<1>9. SubmitInv' /\ WlcInv'
  <2>1. CASE \E t \in Threads : \/ Quiet(t) \/ Observing(t) \/ Retiring(t) \/ WriteCtrl(t)
                                \/ EndPush(t) \/ SubmitCtrl(t) \/ Submit(t)
    BY <1>3, <1>4, <1>5, <1>6, <1>7, <2>1
  <2> QED BY <1>8, <2>1, NextCases
<1> QED BY <1>1, <1>9 DEF ThreadsInv

-----------------------------------------------------------------------------
(* The rotation of keys.                                                   *)

DrainStates == {"rotate_update", "rotate_pop", "rotate_check", "rotate_key"}

\* A rotation that has reserved all channels leaves no unit to another thread.
LEMMA AllReserved ==
    ASSUME ClaimsRingInv, UnitsInv, RotationInv, NEW t \in Threads, pc[t] \in DrainStates
    PROVE  push_locks = {} /\ \A u \in Threads : pc[u] \notin Owners
<1>1. rotation_slots = NumChannels BY DEF RotationInv, DrainStates
<1>2. push_sem \in Nat BY DEF ClaimsRingInv, TypeInv, TypeOK, PoolType
<1>3. Cardinality(Units) = 0 BY <1>1, <1>2, UnitsFinite, PoolAssumption DEF UnitsInv
<1>4. Units = {} BY <1>3, UnitsFinite, FS_EmptySet
<1>5. \A u \in Threads : pc[u] \notin Owners BY <1>4 DEF Units
<1>6. \A c \in push_locks : \E u \in Threads : pc[u] \in Owners
  BY DEF ClaimsRingInv, ClaimsInv, LockedOwned, Owns
<1> QED BY <1>5, <1>6

\* With nothing pending, the GPU has processed all and the CPU has observed it.
LEMMA IdleChannel ==
    ASSUME TypeInv, ChannelsInv, NEW c \in Channels, Pending(c) = 0
    PROVE  gpu[c].get = cpu_put[c] /\ completed_value[c] = gpu[c].semaphore
<1>1. ChannelInv(c) BY ChannelOf
<1>2. gpu_get[c] \in Slots /\ cpu_put[c] \in Slots /\ gpu[c].get \in Slots BY ChannelTypes
<1>3. cpu_put[c] = gpu_get[c] BY <1>2, DistanceZero DEF Pending
<1>4. Distance(gpu_get[c], gpu[c].get) = 0 BY <1>1, GpuNext DEF ChannelInv
<1>5. gpu[c].get = gpu_get[c] BY <1>2, <1>4, DistanceZero
<1>6. /\ queued_value[c] + 1 <= completed_value[c] + 1
      /\ completed_value[c] <= gpu[c].semaphore /\ gpu[c].semaphore <= queued_value[c]
  BY <1>1, <1>3 DEF ChannelInv, ChannelValues, Value
<1>7. queued_value[c] \in Nat /\ completed_value[c] \in Nat /\ gpu[c].semaphore \in Nat
  BY ChannelTypes
<1> QED BY <1>3, <1>5, <1>6, <1>7

\* Retiring entries takes them from the pending ones.
LEMMA RetiredPending ==
    ASSUME TypeInv, NEW c \in Channels, NEW k \in Slots, NEW v, NEW max,
           UpdateProgress(c, k, v, max), UNCHANGED cpu_put
    PROVE  /\ Pending(c)' = Pending(c) - k /\ k <= Pending(c)
           /\ \A d \in Channels \ {c} : Pending(d)' = Pending(d)
<1>1. k <= Pending(c) /\ gpu_get' = [gpu_get EXCEPT ![c] = (@ + k) % NumGpfifoEntries]
  BY DEF UpdateProgress, Retires
<1>2. gpu_get \in [Channels -> Slots] BY DEF TypeInv, TypeOK, RingType
<1>3. gpu_get'[c] = (gpu_get[c] + k) % NumGpfifoEntries BY <1>1, <1>2
<1>4. cpu_put[c] \in Slots BY ChannelTypes
<1>5. Distance(gpu_get'[c], cpu_put[c]) = Distance(gpu_get[c], cpu_put[c]) - k
  BY <1>1, <1>3, <1>4, RetiredDistance DEF Pending
<1>6. \A d \in Channels \ {c} : gpu_get'[d] = gpu_get[d] BY <1>1, <1>2
<1> QED BY <1>1, <1>5, <1>6 DEF Pending

\* No entry is added while all channels are reserved.
LEMMA StaysIdle ==
    ASSUME ClaimsRingInv, ChannelsInv, ThreadsInv, UnitsInv, RotationInv, [Next]_vars,
           NEW u \in Threads, pc[u] \in DrainStates, NEW d \in Channels, Pending(d) = 0
    PROVE  Pending(d)' = 0
<1> USE DEF ClaimsRingInv, ThreadsInv
<1>1. ASSUME UNCHANGED <<cpu_put, gpu_get>> PROVE Pending(d)' = 0 BY <1>1 DEF Pending
<1>2. ASSUME NEW t \in Threads, Quiet(t) PROVE Pending(d)' = 0
  BY <1>1, <1>2, QuietRing DEF ringState
<1>3. ASSUME NEW t \in Threads, Observing(t) PROVE Pending(d)' = 0
  BY <1>1, <1>3, ObservingEffect
<1>4. ASSUME NEW t \in Threads, Retiring(t) PROVE Pending(d)' = 0
  <2>1. UNCHANGED cpu_put BY <1>4, RetiringEffect
  <2>2. CASE UNCHANGED gpu_get BY <1>1, <2>1, <2>2
  <2>3. ASSUME NEW c \in Channels, NEW k \in Slots, NEW v \in Nat, NEW max \in Nat,
               Retired(c, k, v, max)
        PROVE  Pending(d)' = 0
    <3>1. k \in Nat BY DEF Slots
    <3>2. /\ Pending(c)' = Pending(c) - k /\ k <= Pending(c)
          /\ d # c => Pending(d)' = Pending(d)
      BY <2>1, <2>3, RetiredPending DEF Retired
    <3> QED BY <3>1, <3>2
  <2> QED BY <1>4, <2>2, <2>3, RetiringEffect
<1>5. ASSUME NEW t \in Threads, WriteCtrl(t) \/ EndPush(t) PROVE FALSE
  <2>1. pc[t] \in Owners BY <1>5 DEF WriteCtrl, EndPush, Owners
  <2> QED BY <2>1, AllReserved
<1>6. ASSUME NEW t \in Threads, SubmitCtrl(t) \/ Submit(t) PROVE Pending(d)' = 0
  BY <1>1, <1>6, ChannelsSubmitted
<1>7. ASSUME \/ \E c \in Channels : GpuExecute(c) \/ GpuFault(c)
             \/ RequestRotation
             \/ UNCHANGED vars
      PROVE  Pending(d)' = 0
  BY <1>1, <1>7, DeviceSteps
<1> QED BY <1>2, <1>3, <1>4, <1>5, <1>6, <1>7, NextCases

\* The channels that a rotation has waited for stay idle until the key is changed.
LEMMA DrainNext ==
    ASSUME ClaimsRingInv, ChannelsInv, ThreadsInv, UnitsInv, RotationInv, DrainInv,
           [Next]_vars
    PROVE  DrainInv'
<1> USE DEF ClaimsRingInv
<1>1. ASSUME NEW u \in Threads, pc'[u] = pc[u], call'[u].index = call[u].index
      PROVE  /\ pc'[u] \in {"rotate_update", "rotate_pop", "rotate_check"} =>
                  \A c \in Channels : c < call'[u].index => Pending(c)' = 0
             /\ pc'[u] = "rotate_key" => \A c \in Channels : Pending(c)' = 0
  BY <1>1, StaysIdle DEF DrainInv, DrainStates
<1>2. ASSUME NEW t \in Threads, Moves(t), pc'[t] \notin DrainStates PROVE DrainInv'
  BY <1>1, <1>2 DEF DrainInv, Moves, DrainStates
<1>3. ASSUME NEW t \in Threads, Moves(t), pc'[t] \in DrainStates \ {"rotate_key"},
             \A c \in Channels : c < call'[t].index => Pending(c)' = 0
      PROVE DrainInv'
  BY <1>1, <1>3 DEF DrainInv, Moves, DrainStates
<1>4. ASSUME NEW t \in Threads, Moves(t), pc'[t] = "rotate_key",
             \A c \in Channels : Pending(c)' = 0
      PROVE DrainInv'
  BY <1>1, <1>4 DEF DrainInv, Moves, DrainStates
<1>5. ASSUME NEW t \in Threads, Moves(t), call'[t].index = call[t].index,
             pc[t] \in DrainStates \ {"rotate_key"}, pc'[t] \in DrainStates \ {"rotate_key"}
      PROVE DrainInv'
  BY <1>3, <1>5, StaysIdle DEF DrainInv, DrainStates
<1> USE DEF TypeInv, TypeOK, ThreadType, Goto, Return, DrainStates
<1>6. ASSUME NEW t \in Threads, Quiet(t) PROVE DrainInv'
  <2>1. Moves(t) BY <1>6, QuietMoves
  <2>2. CASE Reserve(t) BY <1>2, <2>1, <2>2 DEF Reserve, StartReserve
  <2>3. CASE StartRotate(t) \/ RotateLock(t) \/ RotateDecide(t) \/ RotateKey(t) \/ Down(t)
    BY <1>2, <2>1, <2>3 DEF StartRotate, RotateLock, RotateDecide, RotateKey, Down
  <2>4. CASE ReserveAll(t)
    <3>1. CASE rotation_slots + 1 = NumChannels
      <4>1. pc'[t] = "rotate_update" /\ call'[t].index = 0
        BY <2>4, <3>1 DEF ReserveAll, FirstChannel, Frames
      <4>2. \A c \in Channels : ~(c < 0) BY PoolAssumption DEF Channels
      <4> QED BY <1>3, <2>1, <4>1, <4>2
    <3>2. CASE rotation_slots + 1 # NumChannels BY <1>2, <2>1, <2>4, <3>2 DEF ReserveAll
    <3> QED BY <3>1, <3>2
  <2>5. CASE ReleaseAll(t) BY <1>2, <2>1, <2>5 DEF ReleaseAll
  <2>6. CASE Claim(t) \/ SpinClaim(t)
    BY <1>2, <2>1, <2>6 DEF Claim, SpinClaim, ClaimAndLock
  <2>7. CASE CheckIvs(t) \/ IvRotate(t) \/ IvRefuse(t)
    BY <1>2, <2>1, <2>7 DEF CheckIvs, IvRotate, IvRefuse, AfterIvs
  <2>8. CASE BeginPush(t) \/ Release(t) BY <1>2, <2>1, <2>8 DEF BeginPush, Release
  <2> QED BY <1>6, <2>2, <2>3, <2>4, <2>5, <2>6, <2>7, <2>8 DEF Quiet
<1>7. ASSUME NEW t \in Threads, Observing(t) PROVE DrainInv'
  <2>1. Moves(t) BY <1>7, OtherMoves
  <2>2. CASE RotateUpdate(t)
    BY <1>5, <2>1, <2>2 DEF RotateUpdate, UpdateCompletedValue, Frames
  <2>3. CASE (\E c \in Channels : StartPoll(t, c)) \/ SpinUpdate(t) \/ IvUpdate(t)
    BY <1>2, <2>1, <2>3 DEF StartPoll, SpinUpdate, IvUpdate, UpdateCompletedValue
  <2> QED BY <1>7, <2>2, <2>3 DEF Observing
<1>8. ASSUME NEW t \in Threads, RotatePop(t) PROVE DrainInv'
  <2>1. Moves(t) BY <1>8, OtherMoves DEF Retiring
  <2>2. pc[t] = "rotate_pop" /\ pc[t] \in DrainStates BY <1>8 DEF RotatePop
  <2>3. PICK c \in Channels : c = call[t].index BY FrameParts
  <2>4. UNCHANGED cpu_put BY <1>8 DEF RotatePop
  <2>5. PICK k \in Slots :
          /\ UpdateProgress(c, k, call[t].completed, MaxToComplete)
          /\ \/ pc'[t] = "release_all"
             \/ pc'[t] \in {"rotate_update", "rotate_check"} /\ call'[t].index = c
             \/ k = Pending(c) /\ pc'[t] = "rotate_update" /\ call'[t].index = c + 1
             \/ k = Pending(c) /\ pc'[t] = "rotate_key" /\ c = NumChannels - 1
    BY <1>8, <2>3 DEF RotatePop, WaitGoesOn, WaitDone, Frames
  <2>6. CASE pc'[t] = "release_all" BY <1>2, <2>1, <2>6
  <2>7. CASE pc'[t] \in {"rotate_update", "rotate_check"} /\ call'[t].index = c
    BY <1>5, <2>1, <2>2, <2>3, <2>7
  <2>8. ASSUME k = Pending(c) PROVE \A d \in Channels : d < c + 1 => Pending(d)' = 0
    <3> SUFFICES ASSUME NEW d \in Channels, d < c + 1 PROVE Pending(d)' = 0 OBVIOUS
    <3>1. CASE d = c
      <4>1. Pending(c)' = Pending(c) - k BY <2>4, <2>5, RetiredPending
      <4>2. k \in Nat BY DEF Slots
      <4> QED BY <2>8, <3>1, <4>1, <4>2
    <3>2. CASE d # c
      <4>1. d < c BY <3>2, PoolAssumption DEF Channels
      <4> QED BY <2>2, <2>3, <4>1, StaysIdle DEF DrainInv
    <3> QED BY <3>1, <3>2
  <2>9. CASE k = Pending(c) /\ pc'[t] = "rotate_update" /\ call'[t].index = c + 1
    BY <1>3, <2>1, <2>8, <2>9
  <2>10. CASE k = Pending(c) /\ pc'[t] = "rotate_key" /\ c = NumChannels - 1
    <3>1. \A d \in Channels : d < c + 1 BY <2>10, PoolAssumption DEF Channels
    <3> QED BY <1>4, <2>1, <2>8, <2>10, <3>1
  <2> QED BY <2>5, <2>6, <2>7, <2>9, <2>10
<1>9. ASSUME NEW t \in Threads, Retiring(t), ~RotatePop(t) PROVE DrainInv'
  <2>1. Moves(t) BY <1>9, OtherMoves
  <2>2. CASE RotateCheck(t) BY <1>5, <2>1, <2>2 DEF RotateCheck, Frames
  <2>3. CASE Poll(t) \/ SpinPop(t) BY <1>2, <2>1, <2>3 DEF Poll, SpinPop
  <2>5. CASE IvPop(t) BY <1>2, <2>1, <2>5, IvPopCases
  <2>4. CASE SpinCheck(t) \/ IvCheck(t) BY <1>2, <2>1, <2>4 DEF SpinCheck, IvCheck
  <2> QED BY <1>9, <2>2, <2>3, <2>4, <2>5 DEF Retiring
<1>10. ASSUME NEW t \in Threads, WriteCtrl(t) \/ EndPush(t) \/ SubmitCtrl(t) \/ Submit(t)
       PROVE  DrainInv'
  <2>1. Moves(t) BY <1>10, OtherMoves
  <2> QED BY <1>2, <1>10, <2>1 DEF WriteCtrl, EndPush, SubmitCtrl, Submit
<1>11. ASSUME \/ \E c \in Channels : GpuExecute(c) \/ GpuFault(c)
              \/ RequestRotation
              \/ UNCHANGED vars
       PROVE  DrainInv'
  <2>1. UNCHANGED <<pc, call>> BY <1>11, DeviceSteps
  <2> QED BY <1>1, <2>1 DEF DrainInv
<1> QED BY <1>6, <1>7, <1>8, <1>9, <1>10, <1>11, NextCases

\* Only RotateKey() changes the key of the pool.
LEMMA KeyChange ==
    ASSUME TypeInv, ChannelsInv, ThreadsInv, ClaimsRingInv, [Next]_vars,
           key_version' # key_version
    PROVE  \E t \in Threads : RotateKey(t)
<1> USE DEF ThreadsInv
<1>1. ASSUME NEW t \in Threads, Quiet(t), ~RotateKey(t) PROVE UNCHANGED key_version
  <2>1. CASE Reserve(t) BY <2>1 DEF Reserve, StartReserve, rotationVars
  <2>2. CASE \/ StartRotate(t) \/ RotateLock(t) \/ RotateDecide(t) \/ ReserveAll(t)
             \/ ReleaseAll(t) \/ Down(t)
    BY <2>2 DEF StartRotate, RotateLock, RotateDecide, ReserveAll, ReleaseAll, Down,
                rotationVars
  <2>3. CASE \/ Claim(t) \/ SpinClaim(t) \/ CheckIvs(t) \/ IvRotate(t) \/ IvRefuse(t)
             \/ BeginPush(t) \/ Release(t)
    BY <2>3 DEF Claim, SpinClaim, CheckIvs, IvRotate, IvRefuse, BeginPush, Release,
                rotationVars
  <2> QED BY <1>1, <2>1, <2>2, <2>3 DEF Quiet
<1>2. ASSUME NEW t \in Threads, Observing(t) \/ Retiring(t) PROVE UNCHANGED key_version
  BY <1>2, ObservingEffect, RetiringEffect
<1>3. ASSUME NEW t \in Threads, WriteCtrl(t) \/ EndPush(t) PROVE UNCHANGED key_version
  BY <1>3, AppendingEffect
<1>4. ASSUME NEW t \in Threads, SubmitCtrl(t) \/ Submit(t) PROVE UNCHANGED key_version
  BY <1>4, ChannelsSubmitted
<1> QED BY <1>1, <1>2, <1>3, <1>4, NextCases, DeviceSteps

\* The pool is quiet when its key changes.
LEMMA QuietRotation ==
    ASSUME ClaimsRingInv, ChannelsInv, UnitsInv, RotationInv, DrainInv,
           NEW t \in Threads, RotateKey(t)
    PROVE  /\ push_locks = {}
           /\ \A c \in Channels : /\ Pending(c) = 0 /\ gpu[c].get = cpu_put[c]
                                  /\ completed_value[c] = gpu[c].semaphore
<1>1. pc[t] = "rotate_key" BY DEF RotateKey
<1>2. push_locks = {} BY <1>1, AllReserved DEF DrainStates
<1>3. \A c \in Channels : Pending(c) = 0 BY <1>1 DEF DrainInv
<1> QED BY <1>2, <1>3, IdleChannel DEF ClaimsRingInv

LEMMA KeyNext ==
    ASSUME ClaimsRingInv, ChannelsInv, ThreadsInv, UnitsInv, RotationInv, DrainInv,
           KeyVersionMatches, [Next]_vars
    PROVE  KeyVersionMatches'
<1> SUFFICES ASSUME NEW c \in Channels, completed_value'[c] # gpu'[c].semaphore
             PROVE  gpu'[c].key = key_version'
  BY DEF KeyVersionMatches
<1> USE DEF ClaimsRingInv
<1>1. ASSUME UNCHANGED gpu PROVE gpu'[c].key = key_version'
  <2>1. completed_value'[c] = completed_value[c] BY <1>1, CompletedGrows DEF ThreadsInv
  <2>2. gpu[c].key = key_version BY <1>1, <2>1 DEF KeyVersionMatches
  <2>3. ASSUME key_version' # key_version PROVE FALSE
    <3>1. PICK t \in Threads : RotateKey(t) BY <2>3, KeyChange
    <3>2. completed_value[c] = gpu[c].semaphore BY <3>1, QuietRotation
    <3> QED BY <1>1, <2>1, <3>2
  <2> QED BY <1>1, <2>2, <2>3
<1>2. ASSUME NEW d \in Channels, GpuExecute(d) PROVE gpu'[c].key = key_version'
  <2>1. UNCHANGED <<completed_value, key_version>> BY <1>2, DeviceSteps
  <2>2. CASE d = c
    <3>1. \/ gpu'[c].semaphore = gpu[c].semaphore /\ gpu'[c].key = gpu[c].key
          \/ gpu'[c].key = key_version
      BY <1>2, <2>2, ChannelOf, ChannelExecuted
    <3> QED BY <2>1, <3>1 DEF KeyVersionMatches
  <2>3. CASE d # c
    <3>1. gpu'[c] = gpu[c] BY <1>2, <2>3 DEF GpuExecute, TypeInv, TypeOK, EnvType
    <3> QED BY <2>1, <3>1 DEF KeyVersionMatches
  <2> QED BY <2>2, <2>3
<1>3. ASSUME NEW d \in Channels, GpuFault(d) PROVE gpu'[c].key = key_version'
  <2>1. UNCHANGED <<completed_value, key_version>> BY <1>3, DeviceSteps
  <2>2. gpu'[c].key = gpu[c].key /\ gpu'[c].semaphore = gpu[c].semaphore
    BY <1>3 DEF GpuFault, TypeInv, TypeOK, EnvType
  <2> QED BY <2>1, <2>2 DEF KeyVersionMatches
<1>4. ASSUME NEW t \in Threads,
             \/ Quiet(t) \/ Observing(t) \/ Retiring(t) \/ WriteCtrl(t) \/ EndPush(t)
             \/ SubmitCtrl(t) \/ Submit(t)
      PROVE  UNCHANGED gpu
  BY <1>4, QuietRing, ObservingEffect, RetiringEffect, AppendingEffect, ChannelsSubmitted
     DEF ThreadsInv, ringState
<1>5. CASE RequestRotation \/ UNCHANGED vars
  BY <1>1, <1>5 DEF RequestRotation, vars, envVars
<1> QED BY <1>1, <1>2, <1>3, <1>4, <1>5, NextCases

-----------------------------------------------------------------------------
(* Push infos.                                                             *)

LEMMA PushesFinite ==
    ASSUME NEW c \in Channels, NEW k
    PROVE  IsFiniteSet(Pushes(c, k)) /\ Cardinality(Pushes(c, k)) \in Nat
<1>1. IsFiniteSet(Slots) BY FS_Interval, RingAssumption DEF Slots
<1> QED BY <1>1, FS_Subset, FS_CardinalityType DEF Pushes

LEMMA BegunFinite ==
    ASSUME NEW c PROVE IsFiniteSet(Begun(c)) /\ Cardinality(Begun(c)) \in Nat
BY ThreadAssumption, FS_Subset, FS_CardinalityType DEF Begun

\* A step of a thread that is not building a push, before or after it.
LEMMA BegunKept ==
    ASSUME NEW t \in Threads, Moves(t), pc[t] # "begun", pc'[t] # "begun", NEW c
    PROVE  Begun(c)' = Begun(c)
BY DEF Moves, Begun

\* The push infos of a channel that a step leaves alone.
LEMMA InfosKept ==
    ASSUME InfosInv, NEW c \in Channels, push_infos'[c] = push_infos[c],
           gpu_get'[c] = gpu_get[c], cpu_put'[c] = cpu_put[c],
           gpfifo_entries'[c] = gpfifo_entries[c], Begun(c)' = Begun(c)
    PROVE  push_infos'[c] + Cardinality(Pushes(c, Pending(c)))' + Cardinality(Begun(c))'
             = NumGpfifoEntries
<1>1. Pushes(c, Pending(c))' = Pushes(c, Pending(c)) BY DEF Pushes, Pending
<1> QED BY <1>1 DEF InfosInv

\* Retired pushes give their push infos back.
LEMMA InfosRetired ==
    ASSUME TypeInv, InfosInv, NEW c \in Channels, NEW k \in Slots, NEW v, NEW max,
           UpdateProgress(c, k, v, max), UNCHANGED <<cpu_put, gpfifo_entries>>,
           \A d \in Channels : Begun(d)' = Begun(d)
    PROVE  InfosInv'
<1>1. /\ k <= Pending(c)
      /\ gpu_get' = [gpu_get EXCEPT ![c] = (@ + k) % NumGpfifoEntries]
      /\ push_infos' = [push_infos EXCEPT ![c] = @ + Cardinality(Pushes(c, k))]
  BY DEF UpdateProgress, Retires
<1>2. gpu_get \in [Channels -> Slots] /\ push_infos \in [Channels -> Int]
  BY DEF TypeInv, TypeOK, RingType
<1>3. ASSUME NEW d \in Channels, d # c
      PROVE  push_infos'[d] + Cardinality(Pushes(d, Pending(d)))' + Cardinality(Begun(d))'
               = NumGpfifoEntries
  BY <1>1, <1>2, <1>3, InfosKept
<1>4. push_infos'[c] + Cardinality(Pushes(c, Pending(c)))' + Cardinality(Begun(c))'
        = NumGpfifoEntries
  <2>1. gpu_get'[c] = (gpu_get[c] + k) % NumGpfifoEntries
        /\ push_infos'[c] = push_infos[c] + Cardinality(Pushes(c, k))
    BY <1>1, <1>2
  <2>2. \A i \in Slots : IsPending(c, i)' <=> IsPending(c, i) /\ k <= Distance(gpu_get[c], i)
    BY <1>1, <2>1, StillPending
  <2>3. \A i \in Slots : Distance(gpu_get[c], i) \in Nat
    BY <1>2, DistanceType, RingAssumption
  <2>4. k \in Nat /\ Pending(c) \in Nat BY ChannelTypes, RingAssumption DEF Slots
  <2>5. Pushes(c, Pending(c))' = Pushes(c, Pending(c)) \ Pushes(c, k)
    BY <2>2, <2>3, <2>4 DEF Pushes, IsPending
  <2>6. Pushes(c, k) \subseteq Pushes(c, Pending(c))
    <3>1. \A i \in Slots : Distance(gpu_get[c], i) < k => Distance(gpu_get[c], i) < Pending(c)
      BY <1>1, <2>3, <2>4
    <3> QED BY <3>1 DEF Pushes
  <2>7. Pushes(c, Pending(c)) \cap Pushes(c, k) = Pushes(c, k) BY <2>6
  <2>8. Cardinality(Pushes(c, Pending(c)))'
          = Cardinality(Pushes(c, Pending(c))) - Cardinality(Pushes(c, k))
    BY <2>5, <2>7, PushesFinite, FS_Difference
  <2>9. push_infos[c] + Cardinality(Pushes(c, Pending(c))) + Cardinality(Begun(c))
          = NumGpfifoEntries
    BY DEF InfosInv
  <2>10. Cardinality(Begun(c))' = Cardinality(Begun(c)) OBVIOUS
  <2> QED BY <1>2, <2>1, <2>8, <2>9, <2>10, PushesFinite, BegunFinite, RingAssumption
<1> QED BY <1>3, <1>4 DEF InfosInv

\* A push takes a push info when it begins and has it until it is retired.
LEMMA InfosNext ==
    ASSUME ClaimsRingInv, ChannelsInv, ThreadsInv, InfosInv, [Next]_vars PROVE InfosInv'
<1> USE DEF ClaimsRingInv, ThreadsInv
<1>1. ASSUME UNCHANGED <<cpu_put, gpu_get, gpfifo_entries, push_infos>>,
             \A c \in Channels : Begun(c)' = Begun(c)
      PROVE  InfosInv'
  BY <1>1, InfosKept DEF InfosInv
<1>2. push_infos \in [Channels -> Int] BY DEF TypeInv, TypeOK, RingType
<1>3. ASSUME NEW c \in Channels
      PROVE  push_infos[c] + Cardinality(Pushes(c, Pending(c))) + Cardinality(Begun(c))
               = NumGpfifoEntries
  BY DEF InfosInv
<1> USE DEF TypeInv, TypeOK, ThreadType, Goto, Return
<1>4. ASSUME NEW t \in Threads, Quiet(t), ~BeginPush(t) PROVE InfosInv'
  <2>1. Moves(t) BY <1>4, QuietMoves
  <2>2. UNCHANGED push_infos
    <3>1. CASE Reserve(t) BY <3>1 DEF Reserve, StartReserve, ringVars
    <3>2. CASE \/ StartRotate(t) \/ RotateLock(t) \/ RotateDecide(t) \/ ReserveAll(t)
               \/ RotateKey(t) \/ ReleaseAll(t) \/ Down(t)
      BY <3>2 DEF StartRotate, RotateLock, RotateDecide, ReserveAll, RotateKey, ReleaseAll,
                  Down, ringVars
    <3>3. CASE \/ Claim(t) \/ SpinClaim(t) \/ CheckIvs(t) \/ IvRotate(t) \/ IvRefuse(t)
               \/ Release(t)
      BY <3>3 DEF Claim, SpinClaim, CheckIvs, IvRotate, IvRefuse, Release, ringVars
    <3> QED BY <1>4, <3>1, <3>2, <3>3 DEF Quiet
  <2>3. pc[t] # "begun" /\ pc'[t] # "begun"
    <3>1. CASE Reserve(t) BY <3>1 DEF Reserve, StartReserve
    <3>2. CASE StartRotate(t) \/ RotateLock(t) \/ RotateDecide(t) \/ RotateKey(t) \/ Down(t)
      BY <3>2 DEF StartRotate, RotateLock, RotateDecide, RotateKey, Down
    <3>3. CASE ReserveAll(t) \/ ReleaseAll(t) BY <3>3 DEF ReserveAll, ReleaseAll
    <3>4. CASE Claim(t) \/ SpinClaim(t) BY <3>4 DEF Claim, SpinClaim, ClaimAndLock
    <3>5. CASE CheckIvs(t) \/ IvRotate(t) \/ IvRefuse(t)
      BY <3>5 DEF CheckIvs, IvRotate, IvRefuse, AfterIvs
    <3>6. CASE Release(t) BY <3>6 DEF Release
    <3> QED BY <1>4, <3>1, <3>2, <3>3, <3>4, <3>5, <3>6 DEF Quiet
  <2>4. \A c \in Channels : Begun(c)' = Begun(c) BY <2>1, <2>3, BegunKept
  <2>5. UNCHANGED <<cpu_put, gpu_get, gpfifo_entries>> BY <1>4, QuietRing DEF ringState
  <2> QED BY <1>1, <2>2, <2>4, <2>5
<1>5. ASSUME NEW t \in Threads, BeginPush(t) PROVE InfosInv'
  <2>1. Moves(t) BY <1>5, QuietMoves DEF Quiet
  <2>2. UNCHANGED <<cpu_put, gpu_get, gpfifo_entries, call>> /\ pc[t] = "begin"
    BY <1>5 DEF BeginPush
  <2>3. PICK c \in Channels : c = call[t].channel BY FrameParts
  <2>4. CASE pc'[t] = "release" /\ UNCHANGED push_infos
    <3>1. \A d \in Channels : Begun(d)' = Begun(d) BY <2>1, <2>2, <2>4, BegunKept
    <3> QED BY <1>1, <2>2, <2>4, <3>1
  <2>5. CASE pc'[t] = "begun" /\ push_infos' = [push_infos EXCEPT ![c] = @ - 1]
    <3>1. Begun(c)' = Begun(c) \cup {t} /\ t \notin Begun(c)
      BY <2>1, <2>2, <2>3, <2>5 DEF Begun, Moves
    <3>2. Cardinality(Begun(c))' = Cardinality(Begun(c)) + 1
      BY <3>1, BegunFinite, FS_AddElement
    <3>3. \A d \in Channels \ {c} : Begun(d)' = Begun(d)
      BY <2>1, <2>2, <2>3, <2>5 DEF Begun, Moves
    <3>4. \A d \in Channels : Pushes(d, Pending(d))' = Pushes(d, Pending(d))
      BY <2>2 DEF Pushes, Pending
    <3>5. push_infos'[c] = push_infos[c] - 1
          /\ \A d \in Channels \ {c} : push_infos'[d] = push_infos[d]
      BY <1>2, <2>5
    <3>6. push_infos'[c] + Cardinality(Pushes(c, Pending(c)))' + Cardinality(Begun(c))'
            = NumGpfifoEntries
      BY <1>2, <1>3, <3>2, <3>4, <3>5, PushesFinite, BegunFinite, RingAssumption
    <3>7. \A d \in Channels \ {c} :
             push_infos'[d] + Cardinality(Pushes(d, Pending(d)))' + Cardinality(Begun(d))'
               = NumGpfifoEntries
      BY <1>3, <3>3, <3>4, <3>5
    <3> QED BY <3>6, <3>7 DEF InfosInv
  <2> QED BY <1>5, <2>3, <2>4, <2>5 DEF BeginPush
<1>6. ASSUME NEW t \in Threads, Observing(t) PROVE InfosInv'
  <2>1. Moves(t) BY <1>6, OtherMoves
  <2>2. pc[t] # "begun" /\ pc'[t] # "begun"
    BY <1>6 DEF Observing, StartPoll, RotateUpdate, SpinUpdate, IvUpdate,
                UpdateCompletedValue
  <2>3. \A c \in Channels : Begun(c)' = Begun(c) BY <2>1, <2>2, BegunKept
  <2> QED BY <1>1, <1>6, <2>3, ObservingEffect
<1>7. ASSUME NEW t \in Threads, Retiring(t) PROVE InfosInv'
  <2>1. Moves(t) BY <1>7, OtherMoves
  <2>2. pc[t] # "begun" /\ pc'[t] # "begun"
    <3>1. CASE Poll(t) \/ SpinPop(t) BY <3>1 DEF Poll, SpinPop
    <3>2. CASE RotatePop(t) \/ IvPop(t) BY <3>2, WaitKeepsFrame DEF Rotators
    <3>3. CASE RotateCheck(t) \/ SpinCheck(t) \/ IvCheck(t)
      BY <3>3 DEF RotateCheck, SpinCheck, IvCheck
    <3> QED BY <1>7, <3>1, <3>2, <3>3 DEF Retiring
  <2>3. \A c \in Channels : Begun(c)' = Begun(c) BY <2>1, <2>2, BegunKept
  <2>4. UNCHANGED <<cpu_put, gpfifo_entries>> BY <1>7, RetiringEffect
  <2>5. CASE UNCHANGED <<gpu_get, push_infos>> BY <1>1, <2>3, <2>4, <2>5
  <2>6. ASSUME NEW c \in Channels, NEW k \in Slots, NEW v \in Nat, NEW max \in Nat,
               Retired(c, k, v, max)
        PROVE  InfosInv'
    BY <2>3, <2>4, <2>6, InfosRetired DEF Retired
  <2> QED BY <1>7, <2>5, <2>6, RetiringEffect
<1>8. ASSUME NEW t \in Threads, WriteCtrl(t) \/ EndPush(t) PROVE InfosInv'
  <2>1. Moves(t) BY <1>8, OtherMoves
  <2>2. PICK c \in Channels : c = call[t].channel BY FrameParts
  <2>3. UNCHANGED <<gpu_get, push_infos>> BY <1>8, <2>2, AppendingEffect
  <2>4. PICK entry \in Entries :
           /\ AppendEntry(c, entry)
           /\ entry.type = IF WriteCtrl(t) THEN "CONTROL" ELSE "NORMAL"
    BY <1>8, <2>2, AppendingEffect
  <2>5. \A i \in Slots : IsPending(c, i)' <=> IsPending(c, i) \/ i = cpu_put[c]
    BY <1>8, <2>2, ChannelsAppended
  <2>6. cpu_put[c] \in Slots /\ ~IsPending(c, cpu_put[c])
    <3>1. cpu_put[c] \in Slots /\ Pending(c) \in Nat BY ChannelTypes, RingAssumption
    <3> QED BY <3>1 DEF IsPending, Pending
  <2>7. /\ gpfifo_entries'[c][cpu_put[c]] = entry
        /\ \A i \in Slots \ {cpu_put[c]} : gpfifo_entries'[c][i] = gpfifo_entries[c][i]
        /\ \A d \in Channels \ {c} : gpfifo_entries'[d] = gpfifo_entries[d]
                                     /\ cpu_put'[d] = cpu_put[d]
    BY <2>4, <2>6 DEF AppendEntry, RingType
  <2>8. /\ \A i \in Slots : i \in Pushes(c, Pending(c))' <=>
              IsPending(c, i)' /\ gpfifo_entries'[c][i].type = "NORMAL"
        /\ \A i \in Slots : i \in Pushes(c, Pending(c)) <=>
              IsPending(c, i) /\ gpfifo_entries[c][i].type = "NORMAL"
        /\ Pushes(c, Pending(c))' \subseteq Slots /\ Pushes(c, Pending(c)) \subseteq Slots
    BY DEF Pushes, IsPending
  <2>9. CASE WriteCtrl(t)
    <3>1. pc[t] # "begun" /\ pc'[t] # "begun" BY <2>9 DEF WriteCtrl
    <3>2. \A d \in Channels : Begun(d)' = Begun(d) BY <2>1, <3>1, BegunKept
    <3>3. Pushes(c, Pending(c))' = Pushes(c, Pending(c))
      <4>1. gpfifo_entries'[c][cpu_put[c]].type # "NORMAL" BY <2>4, <2>7, <2>9
      <4>2. \A i \in Slots : i \in Pushes(c, Pending(c))' <=> i \in Pushes(c, Pending(c))
        BY <2>5, <2>6, <2>7, <2>8, <4>1
      <4> QED BY <2>8, <4>2
    <3>4. \A d \in Channels \ {c} : Pushes(d, Pending(d))' = Pushes(d, Pending(d))
      BY <2>3, <2>7 DEF Pushes, Pending
    <3> QED BY <1>3, <2>3, <3>2, <3>3, <3>4 DEF InfosInv
  <2>10. CASE EndPush(t) /\ ~WriteCtrl(t)
    <3>1. pc[t] = "begun" /\ pc'[t] # "begun" BY <2>10 DEF EndPush
    <3>2. Begun(c)' = Begun(c) \ {t} /\ t \in Begun(c)
      BY <2>1, <2>2, <3>1 DEF Begun, Moves
    <3>3. Cardinality(Begun(c))' = Cardinality(Begun(c)) - 1
      BY <3>2, BegunFinite, FS_RemoveElement
    <3>4. \A d \in Channels \ {c} : Begun(d)' = Begun(d)
      BY <2>1, <2>2, <3>1 DEF Begun, Moves
    <3>5. Pushes(c, Pending(c))' = Pushes(c, Pending(c)) \cup {cpu_put[c]}
          /\ cpu_put[c] \notin Pushes(c, Pending(c))
      BY <2>4, <2>5, <2>6, <2>7, <2>8, <2>10
    <3>6. Cardinality(Pushes(c, Pending(c)))' = Cardinality(Pushes(c, Pending(c))) + 1
      BY <3>5, PushesFinite, FS_AddElement
    <3>7. \A d \in Channels \ {c} : Pushes(d, Pending(d))' = Pushes(d, Pending(d))
      BY <2>3, <2>7 DEF Pushes, Pending
    <3>8. push_infos'[c] + Cardinality(Pushes(c, Pending(c)))' + Cardinality(Begun(c))'
            = NumGpfifoEntries
      BY <1>2, <1>3, <2>3, <3>3, <3>6, PushesFinite, BegunFinite, RingAssumption
    <3> QED BY <1>3, <2>3, <3>4, <3>7, <3>8 DEF InfosInv
  <2> QED BY <1>8, <2>9, <2>10
<1>9. ASSUME NEW t \in Threads, SubmitCtrl(t) \/ Submit(t) PROVE InfosInv'
  <2>1. Moves(t) BY <1>9, OtherMoves
  <2>2. pc[t] # "begun" /\ pc'[t] # "begun" BY <1>9 DEF SubmitCtrl, Submit
  <2>3. \A c \in Channels : Begun(c)' = Begun(c) BY <2>1, <2>2, BegunKept
  <2>4. UNCHANGED <<cpu_put, gpu_get, gpfifo_entries, push_infos>>
    BY <1>9, ChannelsSubmitted
  <2> QED BY <1>1, <2>3, <2>4
<1>10. ASSUME \/ \E c \in Channels : GpuExecute(c) \/ GpuFault(c)
              \/ RequestRotation
              \/ UNCHANGED vars
       PROVE  InfosInv'
  BY <1>1, <1>10, DeviceSteps DEF Begun
<1> QED BY <1>4, <1>5, <1>6, <1>7, <1>8, <1>9, <1>10, NextCases

\* Pending pushes leave the sentinel, and at most one thread builds a push of a channel.
LEMMA InfosLeft == ASSUME ClaimsRingInv, InfosInv PROVE PushInfosAccounted
<1> SUFFICES ASSUME NEW c \in Channels PROVE push_infos[c] >= 0
  BY DEF PushInfosAccounted, InfosInv, Begun
<1>1. push_infos[c] \in Int /\ cpu_put[c] \in Slots /\ Pending(c) \in Nat
  BY ChannelTypes, RingAssumption DEF ClaimsRingInv, TypeInv, TypeOK, RingType
<1>2. Cardinality(Pushes(c, Pending(c))) <= NumGpfifoEntries - 1
  <2>1. Pushes(c, Pending(c)) \subseteq Slots \ {cpu_put[c]}
    BY <1>1 DEF Pushes, Pending
  <2>2. IsFiniteSet(Slots) /\ Cardinality(Slots) = NumGpfifoEntries
    BY FS_Interval, RingAssumption DEF Slots
  <2>3. /\ IsFiniteSet(Slots \ {cpu_put[c]})
        /\ Cardinality(Slots \ {cpu_put[c]}) = NumGpfifoEntries - 1
    BY <1>1, <2>2, FS_RemoveElement
  <2> QED BY <2>1, <2>3, FS_Subset
<1>3. Cardinality(Begun(c)) <= 1
  <2>1. CASE Begun(c) = {}
    <3>1. Cardinality(Begun(c)) = 0 BY <2>1, FS_EmptySet
    <3> QED BY <3>1
  <2>2. CASE Begun(c) # {}
    <3>1. PICK t \in Begun(c) : TRUE BY <2>2
    <3>2. Begun(c) = {t}
      BY <3>1 DEF Begun, ClaimsRingInv, ClaimsInv, OneOwner, Owners
    <3>3. Cardinality(Begun(c)) = 1 BY <3>2, FS_Singleton
    <3> QED BY <3>3
  <2> QED BY <2>1, <2>2
<1>4. push_infos[c] + Cardinality(Pushes(c, Pending(c))) + Cardinality(Begun(c))
        = NumGpfifoEntries
  BY DEF InfosInv
<1> QED BY <1>1, <1>2, <1>3, <1>4, PushesFinite, BegunFinite, RingAssumption

-----------------------------------------------------------------------------
(* The invariant and the theorems.                                         *)

LEMMA ProgressInit == Init => Inv
<1> SUFFICES ASSUME Init PROVE Inv OBVIOUS
<1>1. ClaimsRingInv BY TypeInit, ClaimsInit DEF ClaimsRingInv
<1>2. IvInv BY IvAssumption DEF Init, IvInv
<1>3. UnitsInv
  <2>1. Units = {} BY DEF Init, Units, Holders, Owners
  <2>2. Cardinality(Units) = 0 BY <2>1, FS_EmptySet
  <2> QED BY <2>2, PoolAssumption DEF Init, UnitsInv
<1>4. RotationInv BY ThreadAssumption DEF Init, RotationInv, Rotators
<1>5. \A c \in Channels : Pending(c) = 0 BY DEF Init, Pending, Distance
<1>6. OrderInv BY <1>5 DEF Init, OrderInv, ChannelOrder, Distance
<1>7. SubmitInv BY DEF Init, SubmitInv, Submitting
<1>8. WlcInv BY DEF Init, WlcInv
<1>9. ValuesInv
  <2> SUFFICES ASSUME NEW c \in Channels PROVE ChannelValues(c) BY DEF ValuesInv
  <2>1. \A i \in Slots : ~IsPending(c, i)
    <3>1. gpu_get[c] = 0 /\ 0 \in Slots BY ZeroTypes DEF Init
    <3> QED BY <1>5, <3>1, DistanceType, RingAssumption DEF IsPending
  <2>2. Value(c, 0) = 1 BY DEF Init, Value
  <2> QED BY <2>1, <2>2 DEF Init, ChannelValues
<1>10. ReadInv BY DEF Init, ReadInv
<1>11. DrainInv BY DEF Init, DrainInv
<1>12. InfosInv
  <2> SUFFICES ASSUME NEW c \in Channels
               PROVE  push_infos[c] + Cardinality(Pushes(c, Pending(c)))
                        + Cardinality(Begun(c)) = NumGpfifoEntries
    BY DEF InfosInv
  <2>1. Pushes(c, Pending(c)) = {}
    <3>1. gpu_get[c] = 0 /\ 0 \in Slots BY ZeroTypes DEF Init
    <3> QED BY <1>5, <3>1, DistanceType, RingAssumption DEF Pushes
  <2>2. Begun(c) = {} BY DEF Init, Begun
  <2>3. Cardinality(Pushes(c, Pending(c))) = 0 /\ Cardinality(Begun(c)) = 0
    BY <2>1, <2>2, FS_EmptySet
  <2> QED BY <2>3, RingAssumption DEF Init
<1>13. KeyVersionMatches BY DEF Init, KeyVersionMatches
<1> QED BY <1>1, <1>2, <1>3, <1>4, <1>6, <1>7, <1>8, <1>9, <1>10, <1>11, <1>12, <1>13
        DEF Inv, ProgressInv

LEMMA ProgressNext == Inv /\ [Next]_vars => Inv'
<1> SUFFICES ASSUME Inv, [Next]_vars PROVE Inv' OBVIOUS
<1>1. ClaimsRingInv /\ ChannelsInv /\ ThreadsInv
  BY DEF Inv, ProgressInv, ChannelsInv, ThreadsInv
<1>2. IvInv /\ UnitsInv /\ RotationInv /\ DrainInv /\ InfosInv /\ KeyVersionMatches
  BY DEF Inv, ProgressInv
<1>3. ClaimsRingInv' BY <1>1, ClaimsRingNext
<1>4. ChannelsInv' /\ ThreadsInv' BY <1>1, ChannelsNext, ThreadsNext
<1>5. IvInv' /\ UnitsInv' /\ RotationInv' BY <1>1, <1>2, IvNext, UnitsNext, RotationNext
<1>6. DrainInv' /\ KeyVersionMatches' BY <1>1, <1>2, DrainNext, KeyNext
<1>7. InfosInv' BY <1>1, <1>2, InfosNext
<1> QED BY <1>3, <1>4, <1>5, <1>6, <1>7 DEF Inv, ProgressInv, ChannelsInv, ThreadsInv

LEMMA ProgressAlways == Spec => []Inv
BY ProgressInit, ProgressNext, PTL DEF Spec

LEMMA InvParts == Inv => /\ ClaimsRingInv /\ ChannelsInv /\ ThreadsInv /\ IvInv /\ UnitsInv
                         /\ RotationInv /\ DrainInv /\ InfosInv /\ KeyVersionMatches
BY DEF Inv, ProgressInv, ChannelsInv, ThreadsInv

\* A thread that has taken a unit of push_sem finds an unlocked channel ("At least one
\* channel is unlocked" of channel_reserve_and_lock_in_pool()), for any number of channels
\* and threads, whatever rotation takes and failed begins give back.
THEOREM UnlockedCorrect == Spec => []UnlockedChannelLeft
<1>1. Inv => UnlockedChannelLeft BY InvParts, UnitsLeave
<1> QED BY <1>1, ProgressAlways, PTL

\* The IVs of a channel never run out: rotation comes before the last is used, on every
\* path to a push, the one on which RM is busy included.
THEOREM IvCorrect == Spec => []IvNeverExhausted
<1>1. Inv => IvNeverExhausted BY InvParts DEF IvInv, IvNeverExhausted
<1> QED BY <1>1, ProgressAlways, PTL

\* uvm_channel_update_progress_with_max() retires only entries that the GPU has processed,
\* control entries too, whose completion it infers from the value of the next push.
THEOREM RetiredCorrect == Spec => []RetiredAfterExecution
<1>1. ASSUME Inv, NEW c \in Channels PROVE Distance(gpu_get[c], gpu[c].get) <= Pending(c)
  <2>1. TypeInv /\ ChannelOrder(c)
    BY <1>1, InvParts, ChannelOf DEF ClaimsRingInv, ChannelInv
  <2>2. Distance(gpu_get[c], gpu[c].get) \in 0 .. Pending(c) BY <2>1, GpuNext
  <2> QED BY <2>1, <2>2, ChannelTypes, RingAssumption
<1>2. Inv => RetiredAfterExecution BY <1>1 DEF RetiredAfterExecution
<1> QED BY <1>2, ProgressAlways, PTL

\* Submissions reach the GPU in ring order, and a launch through WLC finds gpu_put where
\* internal_channel_submit_work_indirect_wlc() asserts it to be.
THEOREM LaunchCorrect == Spec => []LaunchInOrder
<1>1. ASSUME Inv, NEW c \in Channels
      PROVE  Distance(gpu[c].get, gpu_put[c]) <= Distance(gpu[c].get, cpu_put[c])
  <2> DEFINE g == gpu_get[c]
             a == Distance(g, gpu[c].get)
  <2>1. TypeInv /\ ChannelOrder(c)
    BY <1>1, InvParts, ChannelOf DEF ClaimsRingInv, ChannelInv
  <2>2. g \in Slots /\ gpu[c].get \in Slots /\ gpu_put[c] \in Slots /\ cpu_put[c] \in Slots
    BY <2>1, ChannelTypes
  <2>3. a \in Nat /\ Distance(g, gpu_put[c]) \in Nat /\ Distance(g, cpu_put[c]) \in Nat
    BY <2>2, DistanceType, RingAssumption
  <2>4. a <= Distance(g, gpu_put[c]) /\ Distance(g, gpu_put[c]) <= Distance(g, cpu_put[c])
    BY <2>1 DEF ChannelOrder, Pending
  <2>5. (g + a) % NumGpfifoEntries = gpu[c].get BY <2>2, DistanceIndex
  <2>6. a <= Distance(g, cpu_put[c]) BY <2>3, <2>4
  <2>7. /\ Distance(gpu[c].get, gpu_put[c]) = Distance(g, gpu_put[c]) - a
        /\ Distance(gpu[c].get, cpu_put[c]) = Distance(g, cpu_put[c]) - a
    BY <2>2, <2>3, <2>4, <2>5, <2>6, DistanceAdvance
  <2> QED BY <2>3, <2>4, <2>7
<1>2. ASSUME Inv, NEW t \in Threads, pc[t] = "begun", WlcReady
      PROVE  gpu_put[call[t].channel] = cpu_put[call[t].channel]
  BY <1>2, InvParts, WlcLaunched DEF ThreadsInv, Owners
<1>3. Inv => LaunchInOrder BY <1>1, <1>2 DEF LaunchInOrder
<1> QED BY <1>3, ProgressAlways, PTL

\* A push that begins on a reserved channel finds a push info, and none is ever lost
\* (channel_get_available_push_info_index()).
THEOREM InfosCorrect == Spec => []PushInfosAccounted
<1>1. Inv => PushInfosAccounted BY InvParts, InfosLeft
<1> QED BY <1>1, ProgressAlways, PTL

\* What the CPU has yet to decrypt was encrypted with the key that it will decrypt with
\* (gpu_semaphore_encrypted_payload_update()), whatever rotations there have been.
THEOREM KeyCorrect == Spec => []KeyVersionMatches
<1>1. Inv => KeyVersionMatches BY InvParts
<1> QED BY <1>1, ProgressAlways, PTL

\* The key of a pool changes only while no channel is locked for push and the GPU has
\* processed every entry (channel_pool_rotate_key_locked()).
THEOREM RotationCorrect == Spec => RotationQuiescent
<1>1. ASSUME Inv, [Next]_vars, key_version' # key_version
      PROVE  /\ push_locks = {}
             /\ \A c \in Channels : Pending(c) = 0 /\ gpu[c].get = cpu_put[c]
  <2>1. ClaimsRingInv /\ ChannelsInv /\ ThreadsInv /\ UnitsInv /\ RotationInv /\ DrainInv
    BY <1>1, InvParts
  <2>2. PICK t \in Threads : RotateKey(t)
    BY <1>1, <2>1, KeyChange DEF ClaimsRingInv
  <2> QED BY <2>1, <2>2, QuietRotation
<1>2. Inv /\ [Next]_vars =>
        [key_version' # key_version =>
           /\ push_locks = {}
           /\ \A c \in Channels : Pending(c) = 0 /\ gpu[c].get = cpu_put[c]]_vars
  BY <1>1
<1> QED BY <1>2, ProgressAlways, PTL DEF Spec, RotationQuiescent

-----------------------------------------------------------------------------
(* The tracking semaphore of each channel implements CompletionCounter.    *)

LEMMA CounterStep ==
    ASSUME Inv, [Next]_vars, NEW c \in Channels
    PROVE  [Counter(c)!Next]_(Counter(c)!vars)
<1> USE DEF Counter!Next, Counter!vars
<1>1. ClaimsRingInv /\ ChannelsInv /\ ThreadsInv /\ SubmitInv /\ WlcInv /\ ReadInv /\ TypeInv
  BY InvParts DEF ThreadsInv, ClaimsRingInv
<1>2. queued_value[c] \in Nat /\ completed_value[c] \in Nat /\ gpu[c].semaphore \in Nat
  BY <1>1, ChannelTypes
<1>3. completed_value[c] <= gpu[c].semaphore
  BY <1>1, ChannelOf DEF ChannelInv, ChannelValues
<1>4. completed_value'[c] \in {completed_value[c], gpu[c].semaphore}
  BY <1>1, CompletedGrows
<1>5. ASSUME queued_value'[c] = queued_value[c], gpu'[c].semaphore = gpu[c].semaphore
      PROVE  [Counter(c)!Next]_(Counter(c)!vars)
  BY <1>2, <1>3, <1>4, <1>5 DEF Counter!Observe
<1>6. ASSUME NEW t \in Threads,
             \/ Quiet(t) \/ Observing(t) \/ Retiring(t) \/ SubmitCtrl(t) \/ Submit(t)
      PROVE  UNCHANGED <<queued_value, gpu>>
  BY <1>1, <1>6, QuietRing, ObservingEffect, RetiringEffect, ChannelsSubmitted DEF ringState
<1>7. ASSUME NEW t \in Threads, WriteCtrl(t) \/ EndPush(t)
      PROVE  [Counter(c)!Next]_(Counter(c)!vars)
  <2>1. PICK d \in Channels : d = call[t].channel
    BY <1>1, FrameParts DEF TypeInv, TypeOK
  <2>2. UNCHANGED <<completed_value, gpu>> BY <1>1, <1>7, <2>1, AppendingEffect
  <2>3. PICK entry \in Entries :
          queued_value' = [queued_value EXCEPT ![d] = IF entry.type = "NORMAL" THEN @ + 1
                                                                               ELSE @]
    BY <1>1, <1>7, <2>1, AppendingEffect
  <2>4. queued_value'[c] = queued_value[c] \/ queued_value'[c] = queued_value[c] + 1
    BY <1>1, <2>3 DEF TypeInv, TypeOK, PoolType
  <2> QED BY <1>5, <2>2, <2>4 DEF Counter!Queue
<1>8. ASSUME NEW d \in Channels, GpuExecute(d) PROVE [Counter(c)!Next]_(Counter(c)!vars)
  <2>1. UNCHANGED <<queued_value, completed_value>> BY <1>8, DeviceSteps
  <2>2. CASE d = c
    <3>1. \/ gpu'[c].semaphore = gpu[c].semaphore
          \/ /\ gpu'[c].semaphore = gpu[c].semaphore + 1
             /\ gpu[c].semaphore < queued_value[c]
      BY <1>1, <1>8, <2>2, ChannelOf, ChannelExecuted
    <3> QED BY <1>5, <2>1, <3>1 DEF Counter!Execute
  <2>3. CASE d # c
    <3>1. gpu'[c] = gpu[c] BY <1>1, <1>8, <2>3 DEF GpuExecute, TypeInv, TypeOK, EnvType
    <3> QED BY <1>5, <2>1, <3>1
  <2> QED BY <2>2, <2>3
<1>9. ASSUME NEW d \in Channels, GpuFault(d) PROVE [Counter(c)!Next]_(Counter(c)!vars)
  <2>1. UNCHANGED <<queued_value, completed_value>> BY <1>9, DeviceSteps
  <2>2. gpu'[c].semaphore = gpu[c].semaphore
    BY <1>1, <1>9 DEF GpuFault, TypeInv, TypeOK, EnvType
  <2> QED BY <1>5, <2>1, <2>2
<1>10. CASE RequestRotation \/ UNCHANGED vars
  <2>1. UNCHANGED <<queued_value, gpu>>
    BY <1>10 DEF RequestRotation, vars, envVars, semVars
  <2> QED BY <1>5, <2>1
<1> QED BY <1>5, <1>6, <1>7, <1>8, <1>9, <1>10, NextCases

\* The tracking semaphore of each channel is the abstract counter: a value is queued by
\* each push, released by the GPU in that order and observed afterwards, whatever entries
\* are between the pushes and whoever reads it.
THEOREM CountersRefined == Spec => CountersImplemented
<1>1. Init => \A c \in Channels : Counter(c)!Init BY DEF Init, Counter!Init
<1>2. Inv /\ [Next]_vars => [\A c \in Channels : [Counter(c)!Next]_(Counter(c)!vars)]_vars
  BY CounterStep
<1> QED BY <1>1, <1>2, ProgressAlways, PTL DEF Spec, CountersImplemented
=============================================================================

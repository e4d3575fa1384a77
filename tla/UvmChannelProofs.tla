-------------------------- MODULE UvmChannelProofs --------------------------
(***************************************************************************)
(* Proofs about the channel pool of UvmChannel: type correctness, the      *)
(* accounting of claimed GPFIFO entries and the safety of the ring, for    *)
(* every number of threads, channels and GPFIFO entries.                   *)
(***************************************************************************)
EXTENDS UvmChannel, FiniteSetTheorems, TLAPS

\* The entries a thread has reserved and not yet used.
Claimed(t) == IF BeforeCtrl(t) /\ pc[t] # "submit_ctrl" THEN 2 ELSE 1

\* What the frame of a thread holds at each control state: how many entries it
\* has reserved, and where the control entry is still to be written.  TypeOK is
\* not inductive without it: WriteCtrl takes an entry from the frame.
FrameOK ==
    \A t \in Threads :
        /\ pc[t] \in Holders \cup Owners \cup {"down"} =>
              /\ call[t].kind \in {"pool", "channel", "ctrl"}
              /\ call[t].entries = Claimed(t)
        /\ pc[t] \in Rotators \cup {"rotate_lock"} =>
              \/ call[t].kind = "rotate"
              \/ /\ call[t].kind \in {"pool", "channel", "ctrl"}
                 /\ call[t].entries = Claimed(t)
        /\ call[t].written => pc[t] \in Owners \cup {"submit"}
        /\ pc[t] \in {"write_ctrl", "submit_ctrl"} => BeforeCtrl(t)
        /\ pc[t] \in {"begin", "begun"} => ~BeforeCtrl(t)

\* Ring indexes wrap as (x % num_gpfifo_entries) does.
LEMMA ModSmall == ASSUME NEW x \in 0 .. NumGpfifoEntries - 1
                  PROVE  x % NumGpfifoEntries = x
BY RingAssumption

LEMMA ModWrap == ASSUME NEW x \in NumGpfifoEntries .. 2 * NumGpfifoEntries - 1
                 PROVE  x % NumGpfifoEntries = x - NumGpfifoEntries
BY RingAssumption

LEMMA ModRange == ASSUME NEW x \in Nat
                  PROVE  x % NumGpfifoEntries \in Slots
BY RingAssumption DEF Slots

\* The next ring index is a ring index.
LEMMA NextSlotType == ASSUME NEW i \in Slots PROVE NextSlot(i) \in Slots
BY ModRange, RingAssumption DEF NextSlot, Slots

\* The indexes that loops and rings start from.
LEMMA ZeroTypes == 0 \in Channels /\ 0 \in Slots
BY PoolAssumption, RingAssumption DEF Channels, Slots

\* Frames and control states that the actions build.
LEMMA NoCallType == NoCall \in Frames
BY ZeroTypes DEF NoCall, Frames, FirstChannel, Kinds

LEMMA NewCallType ==
    ASSUME ThreadType, NEW t \in Threads, NEW kind \in Kinds, NEW c \in Channels,
           NEW n \in 0 .. 2, NewCall(t, kind, c, n)
    PROVE  call' \in [Threads -> Frames]
BY NoCallType DEF ThreadType, NewCall, Frames

LEMMA GotoType ==
    ASSUME ThreadType, NEW t \in Threads, NEW state \in PcStates, Goto(t, state)
    PROVE  pc' \in [Threads -> PcStates]
BY DEF ThreadType, Goto

LEMMA ReturnType ==
    ASSUME ThreadType, NEW t \in Threads, Return(t)
    PROVE  pc' \in [Threads -> PcStates] /\ call' \in [Threads -> Frames]
BY GotoType, NoCallType DEF ThreadType, Return, PcStates

\* Retiring entries keeps the ring well typed.
LEMMA UpdateProgressType ==
    ASSUME RingType, NEW c \in Channels, NEW k \in Slots, NEW completed, NEW max,
           UpdateProgress(c, k, completed, max)
    PROVE  gpu_get' \in [Channels -> Slots] /\ push_infos' \in [Channels -> Int]
<1>1. Cardinality(Pushes(c, k)) \in Nat
  <2>1. IsFiniteSet(Slots) BY FS_Interval, RingAssumption DEF Slots
  <2>2. IsFiniteSet(Pushes(c, k)) BY <2>1, FS_Subset DEF Pushes
  <2> QED BY <2>2, FS_CardinalityType
<1>2. (gpu_get[c] + k) % NumGpfifoEntries \in Slots
  <2>1. gpu_get[c] + k \in Nat BY DEF RingType, Slots
  <2> QED BY <2>1, ModRange
<1> QED BY <1>1, <1>2 DEF RingType, UpdateProgress

\* Appending an entry keeps the ring well typed.
LEMMA AppendEntryType ==
    ASSUME RingType, NEW c \in Channels, NEW entry \in Entries, AppendEntry(c, entry)
    PROVE  /\ cpu_put' \in [Channels -> Slots]
           /\ gpfifo_entries' \in [Channels -> [Slots -> Entries]]
           /\ current_gpfifo_count' \in [Channels -> Int]
BY NextSlotType DEF RingType, AppendEntry

\* Parts of a frame, and updates of some of them.
LEMMA FrameParts ==
    ASSUME ThreadType, NEW t \in Threads
    PROVE  /\ call[t].channel \in Channels /\ call[t].index \in Channels
           /\ call[t].entries \in 0 .. 2 /\ call[t].entries \in Int
BY DEF ThreadType, Frames

LEMMA SetOk ==
    ASSUME ThreadType, NEW t \in Threads, NEW b \in BOOLEAN,
           call' = [call EXCEPT ![t].ok = b]
    PROVE  call' \in [Threads -> Frames]
BY DEF ThreadType, Frames

LEMMA SetLooping ==
    ASSUME ThreadType, NEW t \in Threads, NEW b \in BOOLEAN,
           call' = [call EXCEPT ![t].looping = b]
    PROVE  call' \in [Threads -> Frames]
BY DEF ThreadType, Frames

LEMMA SetOkLooping ==
    ASSUME ThreadType, NEW t \in Threads, NEW b \in BOOLEAN, NEW l \in BOOLEAN,
           call' = [call EXCEPT ![t].ok = b, ![t].looping = l]
    PROVE  call' \in [Threads -> Frames]
BY DEF ThreadType, Frames

LEMMA SetIndexOk ==
    ASSUME ThreadType, NEW t \in Threads, NEW i \in Channels, NEW b \in BOOLEAN,
           NEW l \in BOOLEAN,
           call' = [call EXCEPT ![t].index = i, ![t].ok = b, ![t].looping = l]
    PROVE  call' \in [Threads -> Frames]
<1> DEFINE f == [call EXCEPT ![t].index = i]
           g == [f EXCEPT ![t].ok = b]
<1>1. f \in [Threads -> Frames] BY DEF ThreadType, Frames
<1>2. g \in [Threads -> Frames]
  <2> HIDE DEF f
  <2> QED BY <1>1 DEF Frames
<1>3. [g EXCEPT ![t].looping = l] \in [Threads -> Frames]
  <2> HIDE DEF g
  <2> QED BY <1>2 DEF Frames
<1>4. call' = [g EXCEPT ![t].looping = l] BY DEF ThreadType
<1> QED BY <1>3, <1>4

LEMMA SetEntries ==
    ASSUME ThreadType, NEW t \in Threads, NEW n \in 0 .. 2, NEW i \in Slots,
           call' = [call EXCEPT ![t].entries = n, ![t].old_cpu_put = i]
    PROVE  call' \in [Threads -> Frames]
BY DEF ThreadType, Frames

\* The inductive invariant of type correctness.
TypeInv == TypeOK /\ FrameOK

\* It holds initially.
LEMMA TypeInit == Init => TypeInv
<1> SUFFICES ASSUME Init PROVE TypeInv OBVIOUS
<1> USE RingAssumption, PoolAssumption, IvAssumption, ThreadAssumption
<1>1. RingType BY DEF Init, RingType, Channels, Slots, Entries, EntryTypes
<1>2. PoolType BY DEF Init, PoolType, Channels
<1>3. EnvType
  <2>1. iv_left \in [Channels -> Int] BY DEF Init
  <2>2. fatal_error \in BOOLEAN BY DEF Init
  <2>3. gpu \in [Channels -> [get : Slots, semaphore : Nat, key : Nat, error : BOOLEAN]]
    BY ZeroTypes DEF Init
  <2> QED BY <2>1, <2>2, <2>3 DEF EnvType
<1>4. ThreadType BY NoCallType DEF Init, ThreadType, PcStates
<1>5. FrameOK BY DEF Init, FrameOK, NoCall, Holders, Owners, Rotators, BeforeCtrl
<1> QED BY <1>1, <1>2, <1>3, <1>4, <1>5 DEF TypeInv, TypeOK

\* The loop over the channels of a pool stays in the pool.
LEMMA NextChannelType == ASSUME NEW c \in Channels PROVE NextChannel(c) \in Channels
BY PoolAssumption DEF NextChannel, Channels

-----------------------------------------------------------------------------
(* Each step preserves it.                                                 *)

LEMMA TypeStartReserve ==
    ASSUME TypeInv, NEW t \in Threads, NEW kind \in {"pool", "channel", "ctrl"},
           NEW c \in Channels, StartReserve(t, kind, c)
    PROVE  TypeInv'
<1> USE DEF TypeInv, TypeOK
<1>1. RingType' BY DEF RingType, ringVars, StartReserve
<1>2. PoolType' BY DEF PoolType, semVars, poolVars, rotationVars, StartReserve
<1>3. EnvType' BY DEF EnvType, envVars, StartReserve
<1>4. ThreadType'
  BY NewCallType, GotoType, BoundAssumption
     DEF ThreadType, Kinds, PcStates, StartReserve
<1>5. FrameOK'
  BY DEF ThreadType, FrameOK, Frames, PcStates, Holders, Owners, Rotators, PollStates,
         BeforeCtrl, Claimed, Goto, NewCall, NoCall, StartReserve
<1> QED BY <1>1, <1>2, <1>3, <1>4, <1>5

LEMMA TypeStartRotate ==
    ASSUME TypeInv, NEW t \in Threads, StartRotate(t), UNCHANGED started
    PROVE  TypeInv'
<1> USE DEF TypeInv, TypeOK
<1>1. RingType' BY DEF RingType, ringVars, StartRotate
<1>2. PoolType' BY DEF PoolType, semVars, poolVars, rotationVars, StartRotate
<1>3. EnvType' BY DEF EnvType, envVars, StartRotate
<1>4. ThreadType'
  BY NewCallType, GotoType, ZeroTypes
     DEF ThreadType, Kinds, PcStates, FirstChannel, StartRotate
<1>5. FrameOK'
  BY DEF ThreadType, FrameOK, Frames, PcStates, Holders, Owners, Rotators, PollStates,
         BeforeCtrl, Claimed, Goto, NewCall, NoCall, StartRotate
<1> QED BY <1>1, <1>2, <1>3, <1>4, <1>5

LEMMA TypeStartPoll ==
    ASSUME TypeInv, NEW t \in Threads, NEW c \in Channels, StartPoll(t, c), UNCHANGED started
    PROVE  TypeInv'
<1> USE DEF TypeInv, TypeOK
<1>1. RingType' BY DEF RingType, ringVars, StartPoll
<1>2. PoolType' BY DEF PoolType, EnvType, poolVars, rotationVars, StartPoll
<1>3. EnvType' BY DEF EnvType, envVars, StartPoll
<1>4. ThreadType'
  BY GotoType, NoCallType
     DEF ThreadType, EnvType, PcStates, PollStates, Frames, StartPoll
<1>5. FrameOK'
  BY DEF ThreadType, FrameOK, Frames, PcStates, Holders, Owners, Rotators, PollStates,
         BeforeCtrl, Claimed, Goto, NoCall, StartPoll
<1> QED BY <1>1, <1>2, <1>3, <1>4, <1>5

LEMMA TypePoll ==
    ASSUME TypeInv, NEW t \in Threads, Poll(t), UNCHANGED started
    PROVE  TypeInv'
<1> USE DEF TypeInv, TypeOK
<1>1. RingType' BY UpdateProgressType DEF RingType, ThreadType, Frames, Poll
<1>2. PoolType' BY DEF PoolType, semVars, poolVars, rotationVars, Poll
<1>3. EnvType' BY DEF EnvType, envVars, Poll
<1>4. ThreadType' BY ReturnType DEF ThreadType, Poll
<1>5. FrameOK'
  BY DEF ThreadType, FrameOK, Frames, PcStates, Holders, Owners, Rotators, PollStates,
         BeforeCtrl, Claimed, Return, Goto, NoCall, Poll
<1> QED BY <1>1, <1>2, <1>3, <1>4, <1>5

LEMMA TypeRotateLock ==
    ASSUME TypeInv, NEW t \in Threads, RotateLock(t), UNCHANGED started
    PROVE  TypeInv'
<1> USE DEF TypeInv, TypeOK
<1>1. RingType' BY DEF RingType, ringVars, RotateLock
<1>2. PoolType' BY DEF PoolType, semVars, poolVars, RotateLock
<1>3. EnvType' BY DEF EnvType, envVars, RotateLock
<1>4. ThreadType' BY GotoType DEF ThreadType, PcStates, Rotators, RotateLock
<1>5. FrameOK'
  BY DEF ThreadType, FrameOK, Frames, PcStates, Holders, Owners, Rotators, PollStates,
         BeforeCtrl, Claimed, Goto, RotateLock
<1> QED BY <1>1, <1>2, <1>3, <1>4, <1>5

LEMMA TypeRotateDecide ==
    ASSUME TypeInv, NEW t \in Threads, RotateDecide(t), UNCHANGED started
    PROVE  TypeInv'
<1> USE DEF TypeInv, TypeOK
<1>1. RingType' BY DEF RingType, ringVars, RotateDecide
<1>2. PoolType' BY DEF PoolType, semVars, poolVars, RotateDecide
<1>3. EnvType' BY DEF EnvType, envVars, RotateDecide
<1>4. ThreadType' BY GotoType DEF ThreadType, PcStates, Rotators, RotateDecide
<1>5. FrameOK'
  BY DEF ThreadType, FrameOK, Frames, PcStates, Holders, Owners, Rotators, PollStates,
         BeforeCtrl, Claimed, Goto, RotateDecide
<1> QED BY <1>1, <1>2, <1>3, <1>4, <1>5

LEMMA TypeReserveAll ==
    ASSUME TypeInv, NEW t \in Threads, ReserveAll(t), UNCHANGED started
    PROVE  TypeInv'
<1> USE DEF TypeInv, TypeOK
<1>1. RingType' BY DEF RingType, ringVars, ReserveAll
<1>2. PoolType' BY DEF PoolType, semVars, ReserveAll
<1>3. EnvType' BY DEF EnvType, envVars, ReserveAll
<1>4. ThreadType'
  BY GotoType, ZeroTypes
     DEF ThreadType, PcStates, Rotators, Frames, FirstChannel, ReserveAll
<1>5. FrameOK'
  BY DEF ThreadType, FrameOK, Frames, PcStates, Holders, Owners, Rotators, PollStates,
         BeforeCtrl, Claimed, Goto, ReserveAll
<1> QED BY <1>1, <1>2, <1>3, <1>4, <1>5

LEMMA TypeRotateUpdate ==
    ASSUME TypeInv, NEW t \in Threads, RotateUpdate(t), UNCHANGED started
    PROVE  TypeInv'
<1> USE DEF TypeInv, TypeOK
<1>1. RingType' BY DEF RingType, ringVars, RotateUpdate
<1>2. PoolType'
  BY DEF PoolType, EnvType, ThreadType, Frames, poolVars, rotationVars,
         UpdateCompletedValue, RotateUpdate
<1>3. EnvType' BY DEF EnvType, envVars, RotateUpdate
<1>4. ThreadType'
  BY GotoType
     DEF ThreadType, EnvType, PcStates, Rotators, Frames, UpdateCompletedValue,
         RotateUpdate
<1>5. FrameOK'
  BY DEF ThreadType, FrameOK, Frames, PcStates, Holders, Owners, Rotators, PollStates,
         BeforeCtrl, Claimed, Goto, UpdateCompletedValue, RotateUpdate
<1> QED BY <1>1, <1>2, <1>3, <1>4, <1>5

\* What a wait does to the frame of its thread and to the fatal error.
LEMMA RotatePopCases ==
    ASSUME NEW t \in Threads, RotatePop(t)
    PROVE  /\ pc[t] = "rotate_pop"
           /\ \/ Goto(t, "rotate_update") \/ Goto(t, "rotate_check")
              \/ Goto(t, "release_all") \/ Goto(t, "rotate_key")
           /\ \/ UNCHANGED call
              \/ call' = [call EXCEPT ![t].ok = FALSE]
              \/ call' = [call EXCEPT ![t].looping = TRUE]
              \/ /\ call[t].index # NumChannels - 1
                 /\ call' = [call EXCEPT ![t].index = call[t].index + 1,
                                         ![t].ok = ~fatal_error, ![t].looping = FALSE]
           /\ UNCHANGED fatal_error \/ fatal_error' = TRUE
           /\ UNCHANGED <<iv_left, gpu, started>>
BY DEF RotatePop, WaitGoesOn, WaitDone

LEMMA IvPopCases ==
    ASSUME NEW t \in Threads, IvPop(t)
    PROVE  /\ pc[t] = "iv_pop"
           /\ \/ Goto(t, "iv_update") \/ Goto(t, "iv_check")
              \/ Goto(t, "release") \/ Goto(t, "iv_rotate")
           /\ \/ UNCHANGED call
              \/ call' = [call EXCEPT ![t].ok = FALSE]
              \/ call' = [call EXCEPT ![t].looping = TRUE]
           /\ UNCHANGED fatal_error \/ fatal_error' = TRUE
           /\ UNCHANGED <<iv_left, gpu, started>>
BY DEF IvPop, WaitGoesOn, WaitDone

\* It keeps what the thread has reserved.
SameFrame(t) ==
    /\ call'[t].kind = call[t].kind /\ call'[t].channel = call[t].channel
    /\ call'[t].entries = call[t].entries /\ call'[t].written = call[t].written

LEMMA Fields ==
    ASSUME call \in [Threads -> Frames], NEW t \in Threads
    PROVE  /\ UNCHANGED call => SameFrame(t)
           /\ \A b : call' = [call EXCEPT ![t].ok = b] => SameFrame(t)
           /\ \A b : call' = [call EXCEPT ![t].looping = b] => SameFrame(t)
           /\ \A i, b, l : call' = [call EXCEPT ![t].index = i, ![t].ok = b, ![t].looping = l]
                              => SameFrame(t)
<1>1. UNCHANGED call => SameFrame(t) BY DEF SameFrame
<1>2. ASSUME NEW b, call' = [call EXCEPT ![t].ok = b] PROVE SameFrame(t)
  BY <1>2 DEF SameFrame, Frames
<1>3. ASSUME NEW b, call' = [call EXCEPT ![t].looping = b] PROVE SameFrame(t)
  BY <1>3 DEF SameFrame, Frames
<1>4. ASSUME NEW i, NEW b, NEW l,
             call' = [call EXCEPT ![t].index = i, ![t].ok = b, ![t].looping = l]
      PROVE  SameFrame(t)
  BY <1>4 DEF SameFrame, Frames
<1> QED BY <1>1, <1>2, <1>3, <1>4

LEMMA WaitKeepsFrame ==
    ASSUME ThreadType, NEW t \in Threads, RotatePop(t) \/ IvPop(t)
    PROVE  /\ \A u \in Threads \ {t} : call'[u] = call[u] /\ pc'[u] = pc[u]
           /\ SameFrame(t)
           /\ RotatePop(t) => pc[t] = "rotate_pop" /\ pc'[t] \in Rotators
           /\ IvPop(t) => pc[t] = "iv_pop" /\ pc'[t] \in {"iv_update", "iv_check", "release", "iv_rotate"}
<1>1. pc \in [Threads -> PcStates] /\ call \in [Threads -> Frames] BY DEF ThreadType
<1>2. CASE RotatePop(t)
  <2>1. \A u \in Threads \ {t} : call'[u] = call[u] BY <1>1, <1>2, RotatePopCases
  <2>2. SameFrame(t)
    <3>1. CASE UNCHANGED call BY <1>1, <3>1, Fields
    <3>2. CASE call' = [call EXCEPT ![t].ok = FALSE] BY <1>1, <3>2, Fields
    <3>3. CASE call' = [call EXCEPT ![t].looping = TRUE] BY <1>1, <3>3, Fields
    <3>4. CASE call' = [call EXCEPT ![t].index = call[t].index + 1,
                                    ![t].ok = ~fatal_error, ![t].looping = FALSE]
      BY <1>1, <3>4, Fields, Zenon
    <3> QED BY <1>2, <3>1, <3>2, <3>3, <3>4, RotatePopCases
  <2>3. /\ \A u \in Threads \ {t} : pc'[u] = pc[u]
        /\ pc[t] = "rotate_pop" /\ pc'[t] \in Rotators
    BY <1>1, <1>2, RotatePopCases DEF Goto, Rotators
  <2>4. ~IvPop(t) BY <2>3 DEF IvPop
  <2> QED BY <2>1, <2>2, <2>3, <2>4
<1>3. CASE IvPop(t)
  <2>1. \A u \in Threads \ {t} : call'[u] = call[u] BY <1>1, <1>3, IvPopCases
  <2>2. SameFrame(t) BY <1>1, <1>3, IvPopCases, Fields
  <2>3. /\ \A u \in Threads \ {t} : pc'[u] = pc[u]
        /\ pc[t] = "iv_pop" /\ pc'[t] \in {"iv_update", "iv_check", "release", "iv_rotate"}
    BY <1>1, <1>3, IvPopCases DEF Goto
  <2>4. ~RotatePop(t) BY <2>3 DEF RotatePop
  <2> QED BY <2>1, <2>2, <2>3, <2>4
<1> QED BY <1>2, <1>3

LEMMA TypeRotatePop ==
    ASSUME TypeInv, NEW t \in Threads, RotatePop(t), UNCHANGED started
    PROVE  TypeInv'
<1> USE DEF TypeInv, TypeOK
<1>1. RingType' BY UpdateProgressType DEF RingType, ThreadType, Frames, RotatePop
<1>2. PoolType' BY DEF PoolType, semVars, poolVars, rotationVars, RotatePop
<1>3. EnvType' BY RotatePopCases DEF EnvType
<1>4. ThreadType' 
  <2>1. (~fatal_error) \in BOOLEAN BY DEF EnvType
  <2>2. pc' \in [Threads -> PcStates] BY GotoType, RotatePopCases DEF PcStates, Rotators
  <2>3. call[t].index # NumChannels - 1 => call[t].index + 1 \in Channels
    BY FrameParts, PoolAssumption DEF Channels
  <2>4. call' \in [Threads -> Frames]
    <3>1. CASE UNCHANGED call BY <3>1 DEF ThreadType
    <3>2. CASE call' = [call EXCEPT ![t].ok = FALSE] BY <3>2, SetOk
    <3>3. CASE call' = [call EXCEPT ![t].looping = TRUE] BY <3>3, SetLooping
    <3>4. CASE /\ call[t].index # NumChannels - 1
               /\ call' = [call EXCEPT ![t].index = call[t].index + 1,
                                       ![t].ok = ~fatal_error, ![t].looping = FALSE]
      <4> DEFINE i == call[t].index + 1
                 b == ~fatal_error
      <4>1. i \in Channels /\ b \in BOOLEAN BY <2>1, <2>3, <3>4
      <4>2. call' = [call EXCEPT ![t].index = i, ![t].ok = b, ![t].looping = FALSE] BY <3>4
      <4> HIDE DEF i, b
      <4> QED BY <4>1, <4>2, SetIndexOk
    <3> QED BY <3>1, <3>2, <3>3, <3>4, RotatePopCases
  <2> QED BY <2>2, <2>4 DEF ThreadType
<1>5. FrameOK'
  BY WaitKeepsFrame
     DEF SameFrame, FrameOK, Holders, Owners, Rotators, BeforeCtrl, Claimed
<1> QED BY <1>1, <1>2, <1>3, <1>4, <1>5

LEMMA TypeRotateCheck ==
    ASSUME TypeInv, NEW t \in Threads, RotateCheck(t), UNCHANGED started
    PROVE  TypeInv'
<1> USE DEF TypeInv, TypeOK
<1>1. RingType'
  BY UpdateProgressType
     DEF RingType, ThreadType, Frames, ReportChannelError, RotateCheck
<1>2. PoolType'
  BY DEF PoolType, EnvType, ThreadType, Frames, poolVars, rotationVars,
         ReportChannelError, RotateCheck
<1>3. EnvType' BY DEF EnvType, ReportChannelError, RotateCheck
<1>4. ThreadType' 
  <2>1. (~fatal_error) \in BOOLEAN BY DEF EnvType
  <2>2. pc' \in [Threads -> PcStates]
    BY GotoType, ReturnType
       DEF PcStates, RotateCheck, Rotators
  <2>3. \E b \in BOOLEAN : call' = [call EXCEPT ![t].ok = b] BY <2>1 DEF RotateCheck
  <2>4. call' \in [Threads -> Frames] BY <2>3, SetOk
  <2> QED BY <2>2, <2>4 DEF ThreadType
<1>5. FrameOK'
  BY DEF ThreadType, FrameOK, Frames, PcStates, Holders, Owners, Rotators, PollStates,
         BeforeCtrl, Claimed, Goto, RotateCheck
<1> QED BY <1>1, <1>2, <1>3, <1>4, <1>5

LEMMA TypeRotateKey ==
    ASSUME TypeInv, NEW t \in Threads, RotateKey(t), UNCHANGED started
    PROVE  TypeInv'
<1> USE DEF TypeInv, TypeOK
<1>1. RingType' BY DEF RingType, ringVars, RotateKey
<1>2. PoolType' 
  <2>1. key_version' \in Nat BY DEF PoolType, RotateKey
  <2>2. rotation_pending' \in BOOLEAN BY DEF PoolType, RotateKey
  <2> QED BY <2>1, <2>2 DEF PoolType, semVars, poolVars, RotateKey
<1>3. EnvType' BY DEF EnvType, envVars, RotateKey
<1>4. ThreadType'
  <2>1. pc' \in [Threads -> PcStates] BY GotoType DEF PcStates, Rotators, RotateKey
  <2>2. call' \in [Threads -> Frames] BY SetOk DEF ThreadType, RotateKey
  <2> QED BY <2>1, <2>2 DEF ThreadType
<1>5. FrameOK'
  BY DEF ThreadType, FrameOK, Frames, PcStates, Holders, Owners, Rotators, PollStates,
         BeforeCtrl, Claimed, Goto, RotateKey
<1> QED BY <1>1, <1>2, <1>3, <1>4, <1>5

LEMMA TypeReleaseAll ==
    ASSUME TypeInv, NEW t \in Threads, ReleaseAll(t), UNCHANGED started
    PROVE  TypeInv'
<1> USE DEF TypeInv, TypeOK
<1>1. RingType' BY DEF RingType, ringVars, ReleaseAll
<1>2. PoolType' BY DEF PoolType, semVars, ReleaseAll
<1>3. EnvType' BY DEF EnvType, envVars, ReleaseAll
<1>4. ThreadType' BY GotoType, ReturnType DEF ThreadType, PcStates, ReleaseAll
<1>5. FrameOK'
  BY DEF ThreadType, FrameOK, Frames, PcStates, Holders, Owners, Rotators, PollStates,
         BeforeCtrl, Claimed, Goto, Return, NoCall, ReleaseAll
<1> QED BY <1>1, <1>2, <1>3, <1>4, <1>5

LEMMA TypeDown ==
    ASSUME TypeInv, NEW t \in Threads, Down(t), UNCHANGED started
    PROVE  TypeInv'
<1> USE DEF TypeInv, TypeOK
<1>1. RingType' BY DEF RingType, ringVars, Down
<1>2. PoolType' BY DEF PoolType, semVars, rotationVars, Down
<1>3. EnvType' BY DEF EnvType, envVars, Down
<1>4. ThreadType' BY GotoType DEF ThreadType, PcStates, Holders, Down
<1>5. FrameOK'
  BY DEF ThreadType, FrameOK, Frames, PcStates, Holders, Owners, Rotators, PollStates,
         BeforeCtrl, Claimed, Goto, Down
<1> QED BY <1>1, <1>2, <1>3, <1>4, <1>5

LEMMA TypeClaim ==
    ASSUME TypeInv, NEW t \in Threads, Claim(t), UNCHANGED started
    PROVE  TypeInv'
<1> USE DEF TypeInv, TypeOK
<1>1. RingType' 
  <2>1. call[t].entries \in Int BY FrameParts
  <2>2. current_gpfifo_count' \in [Channels -> Int]
    BY <2>1 DEF ClaimAndLock, Claimable, RingType, Claim
  <2> QED BY <2>2 DEF RingType, Claim
<1>2. PoolType' BY DEF PoolType, semVars, rotationVars, Claimable, ClaimAndLock, Claim
<1>3. EnvType' BY DEF EnvType, envVars, Claim
<1>4. ThreadType'
  BY GotoType, ZeroTypes
     DEF ThreadType, PcStates, Holders, Owners, Frames, FirstChannel, Claimable,
         ClaimAndLock, Claim
<1>5. FrameOK'
  BY DEF ThreadType, FrameOK, Frames, PcStates, Holders, Owners, Rotators, PollStates,
         BeforeCtrl, Claimed, Goto, ClaimAndLock, Claim
<1> QED BY <1>1, <1>2, <1>3, <1>4, <1>5

LEMMA TypeSpinUpdate ==
    ASSUME TypeInv, NEW t \in Threads, SpinUpdate(t), UNCHANGED started
    PROVE  TypeInv'
<1> USE DEF TypeInv, TypeOK
<1>1. RingType' BY DEF RingType, ringVars, SpinUpdate
<1>2. PoolType'
  BY DEF PoolType, EnvType, ThreadType, Frames, poolVars, rotationVars,
         UpdateCompletedValue, SpinUpdate
<1>3. EnvType' BY DEF EnvType, envVars, SpinUpdate
<1>4. ThreadType'
  BY GotoType
     DEF ThreadType, EnvType, PcStates, Holders, Frames, UpdateCompletedValue,
         SpinUpdate
<1>5. FrameOK'
  BY DEF ThreadType, FrameOK, Frames, PcStates, Holders, Owners, Rotators, PollStates,
         BeforeCtrl, Claimed, Goto, UpdateCompletedValue, SpinUpdate
<1> QED BY <1>1, <1>2, <1>3, <1>4, <1>5

LEMMA TypeSpinPop ==
    ASSUME TypeInv, NEW t \in Threads, SpinPop(t), UNCHANGED started
    PROVE  TypeInv'
<1> USE DEF TypeInv, TypeOK
<1>1. RingType' BY UpdateProgressType DEF RingType, ThreadType, Frames, SpinPop
<1>2. PoolType' BY DEF PoolType, semVars, poolVars, rotationVars, SpinPop
<1>3. EnvType' BY DEF EnvType, envVars, SpinPop
<1>4. ThreadType' BY GotoType DEF ThreadType, PcStates, Holders, SpinPop
<1>5. FrameOK'
  BY DEF ThreadType, FrameOK, Frames, PcStates, Holders, Owners, Rotators, PollStates,
         BeforeCtrl, Claimed, Goto, SpinPop
<1> QED BY <1>1, <1>2, <1>3, <1>4, <1>5

LEMMA TypeSpinClaim ==
    ASSUME TypeInv, NEW t \in Threads, SpinClaim(t), UNCHANGED started
    PROVE  TypeInv'
<1> USE DEF TypeInv, TypeOK
<1>1. RingType' 
  <2>1. call[t].entries \in Int BY FrameParts
  <2>2. current_gpfifo_count' \in [Channels -> Int]
    BY <2>1, FrameParts DEF ClaimAndLock, RingType, SpinClaim
  <2> QED BY <2>2 DEF RingType, SpinClaim
<1>2. PoolType'
  BY DEF PoolType, ThreadType, Frames, semVars, rotationVars, ClaimAndLock, SpinClaim
<1>3. EnvType' BY DEF EnvType, envVars, SpinClaim
<1>4. ThreadType'
  BY GotoType
     DEF ThreadType, PcStates, Holders, Owners, Frames, ClaimAndLock, SpinClaim
<1>5. FrameOK'
  BY DEF ThreadType, FrameOK, Frames, PcStates, Holders, Owners, Rotators, PollStates,
         BeforeCtrl, Claimed, Goto, ClaimAndLock, SpinClaim
<1> QED BY <1>1, <1>2, <1>3, <1>4, <1>5

LEMMA TypeSpinCheck ==
    ASSUME TypeInv, NEW t \in Threads, SpinCheck(t), UNCHANGED started
    PROVE  TypeInv'
<1> USE DEF TypeInv, TypeOK
<1>1. RingType'
  BY UpdateProgressType
     DEF RingType, ThreadType, Frames, ReportChannelError, SpinCheck
<1>2. PoolType' 
  <2>1. completed_value' \in [Channels -> Nat]
    BY FrameParts DEF PoolType, EnvType, ReportChannelError, SpinCheck
  <2>2. push_sem' \in Nat BY DEF PoolType, SpinCheck
  <2> QED BY <2>1, <2>2 DEF PoolType, rotationVars, SpinCheck
<1>3. EnvType' BY DEF EnvType, ReportChannelError, SpinCheck
<1>4. ThreadType'
  BY GotoType, ReturnType, NextChannelType
     DEF ThreadType, PcStates, Holders, Frames, SpinCheck
<1>5. FrameOK'
  BY DEF ThreadType, FrameOK, Frames, PcStates, Holders, Owners, Rotators, PollStates,
         BeforeCtrl, Claimed, Goto, Return, NoCall, SpinCheck
<1> QED BY <1>1, <1>2, <1>3, <1>4, <1>5

LEMMA TypeCheckIvs ==
    ASSUME TypeInv, NEW t \in Threads, CheckIvs(t), UNCHANGED started
    PROVE  TypeInv'
<1> USE DEF TypeInv, TypeOK
<1>1. RingType' BY DEF RingType, ringVars, CheckIvs
<1>2. PoolType' BY DEF PoolType, semVars, poolVars, rotationVars, CheckIvs
<1>3. EnvType' BY DEF EnvType, envVars, CheckIvs
<1>4. ThreadType' 
  <2>1. (~fatal_error) \in BOOLEAN BY DEF EnvType
  <2>2. pc' \in [Threads -> PcStates]
    BY GotoType, ReturnType
       DEF PcStates, CheckIvs, Owners, AfterIvs
  <2>3. \/ UNCHANGED call
        \/ \E b \in BOOLEAN : call' = [call EXCEPT ![t].ok = b, ![t].looping = FALSE]
    BY <2>1
       DEF CheckIvs
  <2>4. call' \in [Threads -> Frames] BY <2>3, SetOkLooping DEF ThreadType
  <2> QED BY <2>2, <2>4 DEF ThreadType
<1>5. FrameOK'
  BY DEF ThreadType, FrameOK, Frames, PcStates, Holders, Owners, Rotators, PollStates,
         BeforeCtrl, Claimed, Goto, AfterIvs, CheckIvs
<1> QED BY <1>1, <1>2, <1>3, <1>4, <1>5

LEMMA TypeIvUpdate ==
    ASSUME TypeInv, NEW t \in Threads, IvUpdate(t), UNCHANGED started
    PROVE  TypeInv'
<1> USE DEF TypeInv, TypeOK
<1>1. RingType' BY DEF RingType, ringVars, IvUpdate
<1>2. PoolType'
  BY DEF PoolType, EnvType, ThreadType, Frames, poolVars, rotationVars,
         UpdateCompletedValue, IvUpdate
<1>3. EnvType' BY DEF EnvType, envVars, IvUpdate
<1>4. ThreadType'
  BY GotoType
     DEF ThreadType, EnvType, PcStates, Owners, Frames, UpdateCompletedValue, IvUpdate
<1>5. FrameOK'
  BY DEF ThreadType, FrameOK, Frames, PcStates, Holders, Owners, Rotators, PollStates,
         BeforeCtrl, Claimed, Goto, UpdateCompletedValue, IvUpdate
<1> QED BY <1>1, <1>2, <1>3, <1>4, <1>5

LEMMA TypeIvPop ==
    ASSUME TypeInv, NEW t \in Threads, IvPop(t), UNCHANGED started
    PROVE  TypeInv'
<1> USE DEF TypeInv, TypeOK
<1>1. RingType' BY UpdateProgressType DEF RingType, ThreadType, Frames, IvPop
<1>2. PoolType' BY DEF PoolType, semVars, poolVars, rotationVars, IvPop
<1>3. EnvType' BY IvPopCases DEF EnvType
<1>4. ThreadType'
  <2>1. pc' \in [Threads -> PcStates] BY GotoType, IvPopCases DEF PcStates, Owners
  <2>2. call' \in [Threads -> Frames] BY IvPopCases, SetOk, SetLooping DEF ThreadType
  <2> QED BY <2>1, <2>2 DEF ThreadType
<1>5. FrameOK'
  BY WaitKeepsFrame
     DEF SameFrame, FrameOK, Holders, Owners, Rotators, BeforeCtrl, Claimed
<1> QED BY <1>1, <1>2, <1>3, <1>4, <1>5

LEMMA TypeIvCheck ==
    ASSUME TypeInv, NEW t \in Threads, IvCheck(t), UNCHANGED started
    PROVE  TypeInv'
<1> USE DEF TypeInv, TypeOK
<1>1. RingType'
  BY UpdateProgressType
     DEF RingType, ThreadType, Frames, ReportChannelError, IvCheck
<1>2. PoolType'
  BY DEF PoolType, EnvType, ThreadType, Frames, poolVars, rotationVars,
         ReportChannelError, IvCheck
<1>3. EnvType' BY DEF EnvType, ReportChannelError, IvCheck
<1>4. ThreadType' 
  <2>1. (~fatal_error) \in BOOLEAN BY DEF EnvType
  <2>2. pc' \in [Threads -> PcStates]
    BY GotoType, ReturnType
       DEF PcStates, IvCheck, Owners
  <2>3. \E b \in BOOLEAN : call' = [call EXCEPT ![t].ok = b] BY <2>1 DEF IvCheck
  <2>4. call' \in [Threads -> Frames] BY <2>3, SetOk
  <2> QED BY <2>2, <2>4 DEF ThreadType
<1>5. FrameOK'
  BY DEF ThreadType, FrameOK, Frames, PcStates, Holders, Owners, Rotators, PollStates,
         BeforeCtrl, Claimed, Goto, IvCheck
<1> QED BY <1>1, <1>2, <1>3, <1>4, <1>5

LEMMA TypeIvRotate ==
    ASSUME TypeInv, NEW t \in Threads, IvRotate(t), UNCHANGED started
    PROVE  TypeInv'
<1> USE DEF TypeInv, TypeOK
<1>1. RingType' BY DEF RingType, ringVars, IvRotate
<1>2. PoolType' BY DEF PoolType, semVars, poolVars, rotationVars, IvRotate
<1>3. EnvType' 
  <2>1. iv_left' \in [Channels -> Int] BY IvAssumption, FrameParts DEF EnvType, IvRotate
  <2> QED BY <2>1 DEF EnvType, IvRotate
<1>4. ThreadType' BY GotoType DEF ThreadType, PcStates, Owners, AfterIvs, IvRotate
<1>5. FrameOK'
  BY DEF ThreadType, FrameOK, Frames, PcStates, Holders, Owners, Rotators, PollStates,
         BeforeCtrl, Claimed, Goto, AfterIvs, IvRotate
<1> QED BY <1>1, <1>2, <1>3, <1>4, <1>5

LEMMA TypeIvRefuse ==
    ASSUME TypeInv, NEW t \in Threads, IvRefuse(t), UNCHANGED started
    PROVE  TypeInv'
<1> USE DEF TypeInv, TypeOK
<1>1. RingType' BY DEF RingType, ringVars, IvRefuse
<1>2. PoolType' BY DEF PoolType, semVars, poolVars, rotationVars, IvRefuse
<1>3. EnvType' BY DEF EnvType, envVars, IvRefuse
<1>4. ThreadType' BY GotoType DEF ThreadType, PcStates, Owners, IvRefuse
<1>5. FrameOK'
  BY DEF ThreadType, FrameOK, Frames, PcStates, Holders, Owners, Rotators, PollStates,
         BeforeCtrl, Claimed, Goto, IvRefuse
<1> QED BY <1>1, <1>2, <1>3, <1>4, <1>5

LEMMA TypeWriteCtrl ==
    ASSUME TypeInv, NEW t \in Threads, WriteCtrl(t), UNCHANGED started
    PROVE  TypeInv'
<1> USE DEF TypeInv, TypeOK
<1>1. RingType' 
  <2>1. call[t].channel \in Channels BY FrameParts
  <2>2. [type |-> "CONTROL", value |-> queued_value[call[t].channel] + 1] \in Entries
    BY <2>1 DEF PoolType, Entries, EntryTypes
  <2> QED BY <2>1, <2>2, AppendEntryType DEF RingType, WriteCtrl
<1>2. PoolType' BY DEF PoolType, semVars, poolVars, rotationVars, WriteCtrl
<1>3. EnvType' BY DEF EnvType, envVars, WriteCtrl
<1>4. ThreadType' 
  <2>1. call[t].entries - 1 \in 0 .. 2
    BY FrameParts
       DEF FrameOK, Claimed, Owners, WriteCtrl
  <2>2. pc' \in [Threads -> PcStates]
    BY GotoType, ReturnType
       DEF PcStates, WriteCtrl, Owners
  <2>3. cpu_put[call[t].channel] \in Slots BY FrameParts DEF RingType
  <2>4. call' \in [Threads -> Frames]
    <3>1. call' = [call EXCEPT ![t].entries = call[t].entries - 1,
                               ![t].old_cpu_put = cpu_put[call[t].channel]]
      BY DEF ThreadType, WriteCtrl
    <3> QED BY <2>1, <2>3, <3>1, SetEntries
  <2> QED BY <2>2, <2>4 DEF ThreadType
<1>5. FrameOK'
  BY DEF ThreadType, FrameOK, Frames, PcStates, Holders, Owners, Rotators, PollStates,
         BeforeCtrl, Claimed, Goto, WriteCtrl
<1> QED BY <1>1, <1>2, <1>3, <1>4, <1>5

LEMMA TypeSubmitCtrl ==
    ASSUME TypeInv, NEW t \in Threads, SubmitCtrl(t), UNCHANGED started
    PROVE  TypeInv'
<1> USE DEF TypeInv, TypeOK
<1>1. RingType' BY NextSlotType DEF RingType, ThreadType, Frames, SubmitCtrl
<1>2. PoolType' BY DEF PoolType, semVars, poolVars, rotationVars, SubmitCtrl
<1>3. EnvType' BY DEF EnvType, envVars, SubmitCtrl
<1>4. ThreadType' BY GotoType DEF ThreadType, PcStates, Owners, Frames, SubmitCtrl
<1>5. FrameOK'
  BY DEF ThreadType, FrameOK, Frames, PcStates, Holders, Owners, Rotators, PollStates,
         BeforeCtrl, Claimed, Goto, SubmitCtrl
<1> QED BY <1>1, <1>2, <1>3, <1>4, <1>5

LEMMA TypeBeginPush ==
    ASSUME TypeInv, NEW t \in Threads, BeginPush(t), UNCHANGED started
    PROVE  TypeInv'
<1> USE DEF TypeInv, TypeOK
<1>1. RingType' BY DEF RingType, ThreadType, Frames, BeginPush
<1>2. PoolType' BY DEF PoolType, semVars, poolVars, rotationVars, BeginPush
<1>3. EnvType' BY DEF EnvType, envVars, BeginPush
<1>4. ThreadType' BY GotoType DEF ThreadType, PcStates, Owners, BeginPush
<1>5. FrameOK'
  BY DEF ThreadType, FrameOK, Frames, PcStates, Holders, Owners, Rotators, PollStates,
         BeforeCtrl, Claimed, Goto, BeginPush
<1> QED BY <1>1, <1>2, <1>3, <1>4, <1>5

LEMMA TypeEndPush ==
    ASSUME TypeInv, NEW t \in Threads, EndPush(t), UNCHANGED started
    PROVE  TypeInv'
<1> USE DEF TypeInv, TypeOK
<1>1. RingType' 
  <2>1. call[t].channel \in Channels BY FrameParts
  <2>2. [type |-> "NORMAL", value |-> queued_value[call[t].channel] + 1] \in Entries
    BY <2>1 DEF PoolType, Entries, EntryTypes
  <2>3. gpu_put' \in [Channels -> Slots] BY <2>1, NextSlotType DEF RingType, EndPush
  <2> QED BY <2>1, <2>2, <2>3, AppendEntryType DEF RingType, EndPush
<1>2. PoolType'
  BY DEF PoolType, ThreadType, Frames, rotationVars, UnlockForPush, EndPush
<1>3. EnvType' 
  <2>1. iv_left' \in [Channels -> Int] BY FrameParts DEF EnvType, EndPush
  <2> QED BY <2>1 DEF EnvType, EndPush
<1>4. ThreadType' 
  <2>2. pc' \in [Threads -> PcStates]
    BY GotoType, ReturnType
       DEF PcStates, EndPush, Owners
  <2>3. cpu_put[call[t].channel] \in Slots BY FrameParts DEF RingType
  <2>4. call' \in [Threads -> Frames]
    <3>1. \/ Return(t)
          \/ \E i \in Slots : call' = [call EXCEPT ![t].entries = 0, ![t].old_cpu_put = i]
      BY <2>3 DEF EndPush
    <3>2. ASSUME NEW i \in Slots, call' = [call EXCEPT ![t].entries = 0, ![t].old_cpu_put = i]
          PROVE  call' \in [Threads -> Frames]
      <4>1. 0 \in 0 .. 2 OBVIOUS
      <4> QED BY <3>2, <4>1, SetEntries
    <3> QED BY <3>1, <3>2, ReturnType
  <2> QED BY <2>2, <2>4 DEF ThreadType
<1>5. FrameOK'
  BY DEF ThreadType, FrameOK, Frames, PcStates, Holders, Owners, Rotators, PollStates,
         BeforeCtrl, Claimed, Goto, Return, NoCall, EndPush
<1> QED BY <1>1, <1>2, <1>3, <1>4, <1>5

LEMMA TypeSubmit ==
    ASSUME TypeInv, NEW t \in Threads, Submit(t), UNCHANGED started
    PROVE  TypeInv'
<1> USE DEF TypeInv, TypeOK
<1>1. RingType' BY NextSlotType DEF RingType, ThreadType, Frames, Submit
<1>2. PoolType' BY DEF PoolType, semVars, poolVars, rotationVars, Submit
<1>3. EnvType' BY DEF EnvType, envVars, Submit
<1>4. ThreadType' BY ReturnType DEF ThreadType, Submit
<1>5. FrameOK'
  BY DEF ThreadType, FrameOK, Frames, PcStates, Holders, Owners, Rotators, PollStates,
         BeforeCtrl, Claimed, Goto, Return, NoCall, Submit
<1> QED BY <1>1, <1>2, <1>3, <1>4, <1>5

LEMMA TypeRelease ==
    ASSUME TypeInv, NEW t \in Threads, Release(t), UNCHANGED started
    PROVE  TypeInv'
<1> USE DEF TypeInv, TypeOK
<1>1. RingType' 
  <2>1. call[t].entries \in Int BY FrameParts
  <2>2. current_gpfifo_count' \in [Channels -> Int]
    BY <2>1, FrameParts DEF RingType, Release
  <2> QED BY <2>2 DEF RingType, Release
<1>2. PoolType' BY DEF PoolType, rotationVars, semVars, UnlockForPush, Release
<1>3. EnvType' BY DEF EnvType, envVars, Release
<1>4. ThreadType' BY ReturnType DEF ThreadType, Release
<1>5. FrameOK'
  BY DEF ThreadType, FrameOK, Frames, PcStates, Holders, Owners, Rotators, PollStates,
         BeforeCtrl, Claimed, Goto, Return, NoCall, Release
<1> QED BY <1>1, <1>2, <1>3, <1>4, <1>5

LEMMA TypeGpuExecute ==
    ASSUME TypeInv, NEW c \in Channels, GpuExecute(c), UNCHANGED started
    PROVE  TypeInv'
<1> USE DEF TypeInv, TypeOK
<1>1. RingType' BY DEF RingType, ringVars, GpuExecute
<1>2. PoolType' BY DEF PoolType, semVars, poolVars, rotationVars, GpuExecute
<1>3. EnvType'
  <2>1. NextSlot(gpu[c].get) \in Slots BY NextSlotType DEF EnvType
  <2>2. gpfifo_entries[c][gpu[c].get].value \in Nat BY DEF RingType, EnvType, Entries
  <2> DEFINE G == [get : Slots, semaphore : Nat, key : Nat, error : BOOLEAN]
             e == gpfifo_entries[c][gpu[c].get]
  <2>3. CASE e.type = "NORMAL"
    <3>1. gpu' = [gpu EXCEPT ![c].get = NextSlot(gpu[c].get), ![c].semaphore = e.value,
                             ![c].key = key_version]
      BY <2>3 DEF EnvType, GpuExecute
    <3>2. gpu' \in [Channels -> G] BY <2>1, <2>2, <3>1 DEF EnvType, PoolType
    <3> QED BY <3>2 DEF EnvType, GpuExecute
  <2>4. CASE e.type # "NORMAL"
    <3>1. gpu' = [gpu EXCEPT ![c].get = NextSlot(gpu[c].get)]
      BY <2>4 DEF EnvType, GpuExecute
    <3>2. gpu' \in [Channels -> G] BY <2>1, <3>1 DEF EnvType
    <3> QED BY <3>2 DEF EnvType, GpuExecute
  <2> QED BY <2>3, <2>4
<1>4. ThreadType' BY DEF ThreadType, GpuExecute
<1>5. FrameOK' BY DEF FrameOK, BeforeCtrl, Claimed, GpuExecute
<1> QED BY <1>1, <1>2, <1>3, <1>4, <1>5

LEMMA TypeGpuFault ==
    ASSUME TypeInv, NEW c \in Channels, GpuFault(c), UNCHANGED started
    PROVE  TypeInv'
<1> USE DEF TypeInv, TypeOK
<1>1. RingType' BY DEF RingType, ringVars, GpuFault
<1>2. PoolType' BY DEF PoolType, semVars, poolVars, rotationVars, GpuFault
<1>3. EnvType' BY DEF EnvType, GpuFault
<1>4. ThreadType' BY DEF ThreadType, GpuFault
<1>5. FrameOK' BY DEF FrameOK, BeforeCtrl, Claimed, GpuFault
<1> QED BY <1>1, <1>2, <1>3, <1>4, <1>5

LEMMA TypeRequestRotation ==
    ASSUME TypeInv, RequestRotation, UNCHANGED started
    PROVE  TypeInv'
<1> USE DEF TypeInv, TypeOK
<1>1. RingType' BY DEF RingType, ringVars, RequestRotation
<1>2. PoolType' BY DEF PoolType, semVars, poolVars, RequestRotation
<1>3. EnvType' BY DEF EnvType, envVars, RequestRotation
<1>4. ThreadType' BY DEF ThreadType, RequestRotation
<1>5. FrameOK' BY DEF FrameOK, BeforeCtrl, Claimed, RequestRotation
<1> QED BY <1>1, <1>2, <1>3, <1>4, <1>5

\* A stuttering step preserves it.
LEMMA TypeStutter == ASSUME TypeInv, UNCHANGED vars PROVE TypeInv'
<1> USE DEF TypeInv, TypeOK, vars
<1>1. RingType' BY DEF RingType, ringVars
<1>2. PoolType' BY DEF PoolType, semVars, poolVars, rotationVars
<1>3. EnvType' BY DEF EnvType, envVars
<1>4. ThreadType' BY DEF ThreadType, envVars
<1>5. FrameOK' BY DEF FrameOK, BeforeCtrl, Claimed
<1> QED BY <1>1, <1>2, <1>3, <1>4, <1>5

\* Only a reservation counts against the bound on them.
LEMMA StartedKept ==
    ASSUME \/ \E t \in Threads : Step(t) \/ StartRotate(t)
           \/ \E t \in Threads, c \in Channels : StartPoll(t, c)
           \/ \E c \in Channels : GpuExecute(c) \/ GpuFault(c)
           \/ RequestRotation
    PROVE  UNCHANGED started
<1>1. ASSUME NEW t \in Threads, Poll(t) PROVE UNCHANGED started
  BY <1>1 DEF Poll, envVars
<1>2. ASSUME NEW t \in Threads, RotateLock(t) PROVE UNCHANGED started
  BY <1>2 DEF RotateLock, envVars
<1>3. ASSUME NEW t \in Threads, RotateDecide(t) PROVE UNCHANGED started
  BY <1>3 DEF RotateDecide, envVars
<1>4. ASSUME NEW t \in Threads, ReserveAll(t) PROVE UNCHANGED started
  BY <1>4 DEF ReserveAll, envVars
<1>5. ASSUME NEW t \in Threads, RotateUpdate(t) PROVE UNCHANGED started
  BY <1>5 DEF RotateUpdate, envVars
<1>6. ASSUME NEW t \in Threads, RotatePop(t) PROVE UNCHANGED started
  BY <1>6 DEF RotatePop, envVars
<1>7. ASSUME NEW t \in Threads, RotateCheck(t) PROVE UNCHANGED started
  BY <1>7 DEF RotateCheck, envVars
<1>8. ASSUME NEW t \in Threads, RotateKey(t) PROVE UNCHANGED started
  BY <1>8 DEF RotateKey, envVars
<1>9. ASSUME NEW t \in Threads, ReleaseAll(t) PROVE UNCHANGED started
  BY <1>9 DEF ReleaseAll, envVars
<1>10. ASSUME NEW t \in Threads, Down(t) PROVE UNCHANGED started
  BY <1>10 DEF Down, envVars
<1>11. ASSUME NEW t \in Threads, Claim(t) PROVE UNCHANGED started
  BY <1>11 DEF Claim, envVars
<1>12. ASSUME NEW t \in Threads, SpinUpdate(t) PROVE UNCHANGED started
  BY <1>12 DEF SpinUpdate, envVars
<1>13. ASSUME NEW t \in Threads, SpinPop(t) PROVE UNCHANGED started
  BY <1>13 DEF SpinPop, envVars
<1>14. ASSUME NEW t \in Threads, SpinClaim(t) PROVE UNCHANGED started
  BY <1>14 DEF SpinClaim, envVars
<1>15. ASSUME NEW t \in Threads, SpinCheck(t) PROVE UNCHANGED started
  BY <1>15 DEF SpinCheck, envVars
<1>16. ASSUME NEW t \in Threads, CheckIvs(t) PROVE UNCHANGED started
  BY <1>16 DEF CheckIvs, envVars
<1>17. ASSUME NEW t \in Threads, IvUpdate(t) PROVE UNCHANGED started
  BY <1>17 DEF IvUpdate, envVars
<1>18. ASSUME NEW t \in Threads, IvPop(t) PROVE UNCHANGED started
  BY <1>18 DEF IvPop, envVars
<1>19. ASSUME NEW t \in Threads, IvCheck(t) PROVE UNCHANGED started
  BY <1>19 DEF IvCheck, envVars
<1>20. ASSUME NEW t \in Threads, IvRotate(t) PROVE UNCHANGED started
  BY <1>20 DEF IvRotate, envVars
<1>21. ASSUME NEW t \in Threads, IvRefuse(t) PROVE UNCHANGED started
  BY <1>21 DEF IvRefuse, envVars
<1>22. ASSUME NEW t \in Threads, WriteCtrl(t) PROVE UNCHANGED started
  BY <1>22 DEF WriteCtrl, envVars
<1>23. ASSUME NEW t \in Threads, SubmitCtrl(t) PROVE UNCHANGED started
  BY <1>23 DEF SubmitCtrl, envVars
<1>24. ASSUME NEW t \in Threads, BeginPush(t) PROVE UNCHANGED started
  BY <1>24 DEF BeginPush, envVars
<1>25. ASSUME NEW t \in Threads, EndPush(t) PROVE UNCHANGED started
  BY <1>25 DEF EndPush, envVars
<1>26. ASSUME NEW t \in Threads, Submit(t) PROVE UNCHANGED started
  BY <1>26 DEF Submit, envVars
<1>27. ASSUME NEW t \in Threads, Release(t) PROVE UNCHANGED started
  BY <1>27 DEF Release, envVars
<1>28. ASSUME NEW t \in Threads, StartRotate(t) PROVE UNCHANGED started
  BY <1>28 DEF StartRotate, envVars
<1>29. ASSUME NEW t \in Threads, NEW c \in Channels, StartPoll(t, c)
      PROVE  UNCHANGED started
  BY <1>29 DEF StartPoll, envVars
<1>30. ASSUME NEW c \in Channels, GpuExecute(c) \/ GpuFault(c)
      PROVE  UNCHANGED started
  BY <1>30 DEF GpuExecute, GpuFault
<1>31. ASSUME RequestRotation PROVE UNCHANGED started
  BY <1>31 DEF RequestRotation, envVars
<1> QED BY <1>1, <1>2, <1>3, <1>4, <1>5, <1>6, <1>7, <1>8, <1>9, <1>10, <1>11,
           <1>12, <1>13, <1>14, <1>15, <1>16, <1>17, <1>18, <1>19, <1>20, <1>21,
           <1>22, <1>23, <1>24, <1>25, <1>26, <1>27, <1>28, <1>29, <1>30, <1>31 DEF
           Step

\* Every step preserves it.
LEMMA TypeNext == TypeInv /\ [Next]_vars => TypeInv'
<1> SUFFICES ASSUME TypeInv, [Next]_vars PROVE TypeInv' OBVIOUS
<1>1. ASSUME NEW t \in Threads, Reserve(t) PROVE TypeInv'
  <2>1. FirstChannel \in Channels BY ZeroTypes DEF FirstChannel
  <2> QED BY <1>1, <2>1, TypeStartReserve DEF Reserve
<1>2. ASSUME NEW t \in Threads, Step(t) PROVE TypeInv'
  BY <1>2, StartedKept, TypePoll, TypeRotateLock, TypeRotateDecide, TypeReserveAll,
     TypeRotateUpdate,
     TypeRotatePop, TypeRotateCheck, TypeRotateKey, TypeReleaseAll, TypeDown, TypeClaim,
     TypeSpinUpdate, TypeSpinPop, TypeSpinClaim, TypeSpinCheck, TypeCheckIvs, TypeIvUpdate,
     TypeIvPop, TypeIvCheck, TypeIvRotate, TypeIvRefuse, TypeWriteCtrl, TypeSubmitCtrl,
     TypeBeginPush, TypeEndPush, TypeSubmit, TypeRelease DEF Step
<1>3. ASSUME NEW t \in Threads, StartRotate(t) PROVE TypeInv'
  BY <1>3, StartedKept, TypeStartRotate
<1>4. ASSUME NEW t \in Threads, NEW c \in Channels, StartPoll(t, c) PROVE TypeInv'
  BY <1>4, StartedKept, TypeStartPoll
<1>5. ASSUME NEW c \in Channels, GpuExecute(c) \/ GpuFault(c) PROVE TypeInv'
  BY <1>5, StartedKept, TypeGpuExecute, TypeGpuFault
<1>6. ASSUME RequestRotation PROVE TypeInv'
  BY <1>6, StartedKept, TypeRequestRotation
<1>7. CASE UNCHANGED vars BY <1>7, TypeStutter
<1> QED BY <1>1, <1>2, <1>3, <1>4, <1>5, <1>6, <1>7 DEF Next

\* Type correctness, for every number of threads, channels and GPFIFO entries:
\* ring indexes stay in the ring (they wrap as uvm_channel.c wraps them) and the
\* counters of claimed entries stay in range through every path.
THEOREM TypeCorrect == Spec => []TypeOK
<1>1. Spec => []TypeInv BY TypeInit, TypeNext, PTL DEF Spec
<1>2. TypeInv => TypeOK BY DEF TypeInv
<1> QED BY <1>1, <1>2, PTL

-----------------------------------------------------------------------------
(* Distances in the ring.                                                  *)

\* A distance is less than the size of the ring.
LEMMA DistanceType == ASSUME NEW g \in Slots, NEW p \in Slots
                      PROVE  Distance(g, p) \in 0 .. NumGpfifoEntries - 1
BY RingAssumption DEF Distance, Slots

\* cpu_put advances: one more entry, as long as the sentinel is not reached.
LEMMA DistanceNext ==
    ASSUME NEW g \in Slots, NEW p \in Slots, Distance(g, p) < NumGpfifoEntries - 1
    PROVE  Distance(g, NextSlot(p)) = Distance(g, p) + 1
<1>1. CASE p = NumGpfifoEntries - 1
  <2>1. NextSlot(p) = 0 BY <1>1, ModWrap, RingAssumption DEF NextSlot, Slots
  <2> QED BY <1>1, <2>1, RingAssumption DEF Distance, Slots
<1>2. CASE p < NumGpfifoEntries - 1
  <2>1. NextSlot(p) = p + 1 BY <1>2, ModSmall, RingAssumption DEF NextSlot, Slots
  <2> QED BY <1>2, <2>1, RingAssumption DEF Distance, Slots
<1> QED BY <1>1, <1>2, RingAssumption DEF Slots

\* gpu_get advances by k entries.
LEMMA DistanceAdvance ==
    ASSUME NEW g \in Slots, NEW p \in Slots, NEW k \in Nat, k <= Distance(g, p)
    PROVE  Distance((g + k) % NumGpfifoEntries, p) = Distance(g, p) - k
<1>0. k <= NumGpfifoEntries - 1 BY DistanceType, RingAssumption
<1>1. CASE g + k < NumGpfifoEntries
  <2>1. (g + k) % NumGpfifoEntries = g + k BY <1>1, ModSmall, RingAssumption DEF Slots
  <2> QED BY <1>1, <2>1, RingAssumption DEF Distance, Slots
<1>2. CASE g + k >= NumGpfifoEntries
  <2>1. (g + k) % NumGpfifoEntries = g + k - NumGpfifoEntries
    BY <1>0, <1>2, ModWrap, RingAssumption DEF Slots
  <2> QED BY <1>2, <2>1, RingAssumption DEF Distance, Slots
<1> QED BY <1>1, <1>2, RingAssumption DEF Slots

-----------------------------------------------------------------------------
(* Claims and the ring.                                                    *)

\* The inductive form of ClaimsAccounted.
UnlockedUnclaimed == \A c \in Channels \ push_locks : current_gpfifo_count[c] = 0
OwnerClaims ==
    \A t \in Threads : pc[t] \in Owners =>
        /\ call[t].channel \in push_locks
        /\ current_gpfifo_count[call[t].channel] = call[t].entries
OneOwner ==
    \A t, u \in Threads :
        pc[t] \in Owners /\ pc[u] \in Owners /\ call[t].channel = call[u].channel => t = u
LockedOwned == \A c \in push_locks : \E t \in Threads : Owns(t, c)

ClaimsInv == UnlockedUnclaimed /\ OwnerClaims /\ OneOwner /\ LockedOwned

\* A step that moves no thread in or out of Owners and changes no claim.
SameOwners ==
    /\ UNCHANGED <<push_locks, current_gpfifo_count>>
    /\ \A u \in Threads :
          /\ pc'[u] \in Owners <=> pc[u] \in Owners
          /\ pc[u] \in Owners => /\ call'[u].channel = call[u].channel
                                 /\ call'[u].entries = call[u].entries

\* Such a step preserves the claims.
LEMMA SameOwnersClaims == ASSUME ClaimsInv, SameOwners PROVE ClaimsInv'
<1> USE DEF SameOwners
<1>1. UnlockedUnclaimed' BY DEF ClaimsInv, UnlockedUnclaimed
<1>2. OwnerClaims' BY DEF ClaimsInv, OwnerClaims
<1>3. OneOwner' BY DEF ClaimsInv, OneOwner
<1>4. LockedOwned' BY DEF ClaimsInv, LockedOwned, Owns
<1> QED BY <1>1, <1>2, <1>3, <1>4 DEF ClaimsInv

\* The inductive form implies the property.
LEMMA ClaimsEquivalent == ASSUME TypeInv, ClaimsInv PROVE ClaimsAccounted
<1> SUFFICES ASSUME NEW c \in Channels
             PROVE  \/ /\ c \notin push_locks /\ current_gpfifo_count[c] = 0
                       /\ \A t \in Threads : ~Owns(t, c)
                    \/ /\ c \in push_locks
                       /\ \E t \in Threads :
                             /\ Owns(t, c) /\ current_gpfifo_count[c] = call[t].entries
                             /\ \A u \in Threads \ {t} : ~Owns(u, c)
  BY DEF ClaimsAccounted, TypeInv
<1>1. CASE c \notin push_locks
  BY <1>1 DEF ClaimsInv, UnlockedUnclaimed, OwnerClaims, Owns
<1>2. CASE c \in push_locks
  <2>1. PICK t \in Threads : Owns(t, c) BY <1>2 DEF ClaimsInv, LockedOwned
  <2>2. current_gpfifo_count[c] = call[t].entries
    BY <2>1 DEF ClaimsInv, OwnerClaims, Owns
  <2>3. \A u \in Threads \ {t} : ~Owns(u, c) BY <2>1 DEF ClaimsInv, OneOwner, Owns
  <2> QED BY <1>2, <2>1, <2>2, <2>3
<1> QED BY <1>1, <1>2

\* No channel is claimed and the ring is empty initially.
LEMMA ClaimsInit == Init => ClaimsInv /\ RingSafe
<1> SUFFICES ASSUME Init PROVE ClaimsInv /\ RingSafe OBVIOUS
<1>1. ClaimsInv
  BY DEF Init, ClaimsInv, UnlockedUnclaimed, OwnerClaims, OneOwner, LockedOwned, Owners
<1>2. RingSafe BY RingAssumption DEF Init, RingSafe, Pending, Distance
<1> QED BY <1>1, <1>2

\* t claims entries of an unlocked channel and locks it.
LEMMA ClaimAndLockClaims ==
    ASSUME TypeInv, ClaimsInv, NEW t \in Threads, pc[t] \notin Owners,
           NEW c \in Channels \ push_locks, ClaimAndLock(t, c, call[t].entries)
    PROVE  ClaimsInv'
<1> USE DEF TypeInv, TypeOK, ThreadType, Goto
<1>0. /\ pc'[t] = "claimed" /\ call'[t].channel = c /\ call'[t].entries = call[t].entries
      /\ \A u \in Threads \ {t} : pc'[u] = pc[u] /\ call'[u] = call[u]
      /\ push_locks' = push_locks \cup {c}
      /\ current_gpfifo_count' = [current_gpfifo_count EXCEPT ![c] = @ + call[t].entries]
  BY DEF ClaimAndLock, Frames
<1>1. UnlockedUnclaimed' BY <1>0 DEF ClaimsInv, UnlockedUnclaimed, RingType
<1>2. current_gpfifo_count'[c] = call[t].entries
  BY <1>0, FrameParts DEF ClaimsInv, UnlockedUnclaimed, RingType
<1>3. OwnerClaims'
  BY <1>0, <1>2 DEF ClaimsInv, OwnerClaims, RingType, PoolType, Frames
<1>4. OneOwner' BY <1>0 DEF ClaimsInv, OneOwner, OwnerClaims
<1>5. LockedOwned' BY <1>0 DEF ClaimsInv, LockedOwned, Owns, Owners
<1> QED BY <1>1, <1>3, <1>4, <1>5 DEF ClaimsInv

\* A claim leaves the sentinel free.
LEMMA ClaimAndLockRing ==
    ASSUME TypeInv, RingSafe, NEW t \in Threads, NEW c \in Channels,
           TryClaim(c, call[t].entries), ClaimAndLock(t, c, call[t].entries),
           UNCHANGED <<cpu_put, gpu_get>>
    PROVE  RingSafe'
<1> USE DEF TypeInv, TypeOK
<1> SUFFICES ASSUME NEW d \in Channels
             PROVE  /\ current_gpfifo_count'[d] >= 0
                    /\ Pending(d)' + current_gpfifo_count'[d] <= NumGpfifoEntries - 1
  BY DEF RingSafe
<1>1. Pending(d)' = Pending(d) /\ Pending(d) \in Int
  BY DistanceType, RingAssumption DEF Pending, Distance, RingType
<1>2. call[t].entries \in Nat BY FrameParts
<1>3. current_gpfifo_count'[d] = IF d = c THEN current_gpfifo_count[d] + call[t].entries
                                         ELSE current_gpfifo_count[d]
  BY DEF ClaimAndLock, RingType
<1>4. current_gpfifo_count[d] \in Int BY DEF RingType
<1>5. CASE d = c
  BY <1>1, <1>2, <1>3, <1>4, <1>5, RingAssumption
     DEF RingSafe, TryClaim, AvailableGpfifoEntries
<1>6. CASE d # c BY <1>1, <1>3, <1>6 DEF RingSafe
<1> QED BY <1>5, <1>6

\* An entry is appended by the owner of the channel.
LEMMA AppendEntryRing ==
    ASSUME TypeInv, RingSafe, NEW c \in Channels, NEW entry, AppendEntry(c, entry),
           current_gpfifo_count[c] > 0, UNCHANGED gpu_get
    PROVE  RingSafe'
<1> USE DEF TypeInv, TypeOK
<1> SUFFICES ASSUME NEW d \in Channels
             PROVE  /\ current_gpfifo_count'[d] >= 0
                    /\ Pending(d)' + current_gpfifo_count'[d] <= NumGpfifoEntries - 1
  BY DEF RingSafe
<1>1. current_gpfifo_count[d] \in Int /\ Pending(d) \in Int
  BY DistanceType, RingAssumption DEF RingType, Pending
<1>2. CASE d = c
  <2>1. Pending(c) < NumGpfifoEntries - 1
    BY <1>1, <1>2, RingAssumption DEF RingSafe
  <2>2. Pending(c)' = Pending(c) + 1
    BY <2>1, DistanceNext DEF Pending, AppendEntry, RingType
  <2>3. current_gpfifo_count'[c] = current_gpfifo_count[c] - 1
    BY DEF AppendEntry, RingType
  <2> QED BY <1>1, <1>2, <2>2, <2>3, RingAssumption DEF RingSafe
<1>3. CASE d # c
  <2>1. Pending(d)' = Pending(d) BY <1>3 DEF Pending, AppendEntry, RingType
  <2>2. current_gpfifo_count'[d] = current_gpfifo_count[d]
    BY <1>3 DEF AppendEntry, RingType
  <2> QED BY <2>1, <2>2 DEF RingSafe
<1> QED BY <1>2, <1>3

\* Entries are retired.
LEMMA UpdateProgressRing ==
    ASSUME TypeInv, RingSafe, NEW c \in Channels, NEW k \in Slots, NEW completed, NEW max,
           UpdateProgress(c, k, completed, max), UNCHANGED <<cpu_put, current_gpfifo_count>>
    PROVE  RingSafe'
<1> USE DEF TypeInv, TypeOK
<1> SUFFICES ASSUME NEW d \in Channels
             PROVE  /\ current_gpfifo_count'[d] >= 0
                    /\ Pending(d)' + current_gpfifo_count'[d] <= NumGpfifoEntries - 1
  BY DEF RingSafe
<1>1. current_gpfifo_count[d] \in Int /\ Pending(d) \in Int
  BY DistanceType, RingAssumption DEF RingType, Pending
<1>2. Pending(d)' \in Int /\ Pending(d)' <= Pending(d)
  <2>1. CASE d = c
    <3>1. k \in Nat /\ k <= Distance(gpu_get[c], cpu_put[c])
      BY RingAssumption DEF UpdateProgress, Retires, Pending, Slots
    <3>2. Distance((gpu_get[c] + k) % NumGpfifoEntries, cpu_put[c])
            = Distance(gpu_get[c], cpu_put[c]) - k
      BY <3>1, DistanceAdvance DEF RingType
    <3>3. Pending(c)' = Pending(c) - k
      BY <3>2 DEF Pending, UpdateProgress, RingType
    <3> QED BY <1>1, <2>1, <3>1, <3>3
  <2>2. CASE d # c BY <1>1, <2>2 DEF Pending, UpdateProgress, RingType
  <2> QED BY <2>1, <2>2
<1> QED BY <1>1, <1>2, RingAssumption DEF RingSafe

\* A step that changes no index and no claim.
LEMMA SameRing ==
    ASSUME RingSafe, UNCHANGED <<cpu_put, gpu_get, current_gpfifo_count>> PROVE RingSafe'
BY DEF RingSafe, Pending

-----------------------------------------------------------------------------
(* Each step preserves the claims and the ring.                            *)

\* The inductive invariant: an owner's claim is what current_gpfifo_count says,
\* so an appended entry was claimed and the sentinel stays free.
ClaimsRingInv == TypeInv /\ ClaimsInv /\ RingSafe

\* Steps of a thread that leave the claims and the ring alone.
LEMMA QuietSteps ==
    ASSUME ClaimsRingInv, NEW t \in Threads,
           \/ \E kind \in {"pool", "channel", "ctrl"}, c \in Channels : StartReserve(t, kind, c)
           \/ \E c \in Channels : StartPoll(t, c)
           \/ StartRotate(t)
           \/ RotateLock(t)
           \/ RotateDecide(t)
           \/ ReserveAll(t)
           \/ RotateUpdate(t)
           \/ RotateKey(t)
           \/ ReleaseAll(t)
           \/ Down(t)
           \/ SpinUpdate(t)
           \/ CheckIvs(t)
           \/ IvUpdate(t)
           \/ IvRotate(t)
           \/ IvRefuse(t)
           \/ SubmitCtrl(t)
           \/ BeginPush(t)
           \/ Submit(t)
    PROVE  ClaimsInv' /\ RingSafe'
<1> USE DEF ClaimsRingInv
<1>1. UNCHANGED <<cpu_put, gpu_get, current_gpfifo_count, push_locks>>
  BY DEF ringVars, poolVars, StartReserve, StartPoll, StartRotate, RotateLock,
         RotateDecide, ReserveAll, RotateUpdate, RotateKey, ReleaseAll, Down,
         SpinUpdate, CheckIvs, IvUpdate, IvRotate, IvRefuse, SubmitCtrl, BeginPush,
         Submit
<1>2. SameOwners
  <2> USE <1>1 DEF TypeInv, TypeOK, ThreadType, Frames, SameOwners, Owners, Goto
  <2>1. CASE \E kind \in {"pool", "channel", "ctrl"}, c \in Channels : StartReserve(t, kind, c)
    BY <2>1 DEF StartReserve, NewCall
  <2>2. CASE \E c \in Channels : StartPoll(t, c) BY <2>2 DEF StartPoll
  <2>3. CASE StartRotate(t) BY <2>3 DEF StartRotate, NewCall, NoCall
  <2>4. CASE RotateLock(t) BY <2>4 DEF RotateLock
  <2>5. CASE RotateDecide(t) BY <2>5 DEF RotateDecide
  <2>6. CASE ReserveAll(t) BY <2>6 DEF ReserveAll
  <2>7. CASE RotateUpdate(t) BY <2>7 DEF RotateUpdate, UpdateCompletedValue
  <2>8. CASE RotateKey(t) BY <2>8 DEF RotateKey
  <2>9. CASE ReleaseAll(t) BY <2>9 DEF ReleaseAll, Return, NoCall
  <2>10. CASE Down(t) BY <2>10 DEF Down
  <2>11. CASE SpinUpdate(t) BY <2>11 DEF SpinUpdate, UpdateCompletedValue
  <2>12. CASE CheckIvs(t) BY <2>12 DEF CheckIvs, AfterIvs
  <2>13. CASE IvUpdate(t) BY <2>13 DEF IvUpdate, UpdateCompletedValue
  <2>14. CASE IvRotate(t) BY <2>14 DEF IvRotate, AfterIvs
  <2>15. CASE IvRefuse(t) BY <2>15 DEF IvRefuse
  <2>16. CASE SubmitCtrl(t) BY <2>16 DEF SubmitCtrl
  <2>17. CASE BeginPush(t) BY <2>17 DEF BeginPush
  <2>18. CASE Submit(t) BY <2>18 DEF Submit, Return, NoCall
  <2> QED
    BY <2>1, <2>2, <2>3, <2>4, <2>5, <2>6, <2>7, <2>8, <2>9, <2>10, <2>11, <2>12,
       <2>13, <2>14, <2>15, <2>16, <2>17, <2>18
<1> QED BY <1>1, <1>2, SameOwnersClaims, SameRing

\* Steps of a thread that may retire entries.
LEMMA RetiringSteps ==
    ASSUME ClaimsRingInv, NEW t \in Threads,
           \/ Poll(t) \/ RotatePop(t) \/ RotateCheck(t) \/ SpinPop(t)
           \/ SpinCheck(t) \/ IvPop(t) \/ IvCheck(t)
    PROVE  ClaimsInv' /\ RingSafe'
<1> USE DEF ClaimsRingInv
<1>1. UNCHANGED <<cpu_put, current_gpfifo_count, push_locks>>
  BY DEF poolVars, Poll, RotatePop, RotateCheck, SpinPop, SpinCheck, IvPop, IvCheck
<1>2. \/ UNCHANGED gpu_get
      \/ \E c \in Channels, k \in Slots, completed \in Nat, max \in Nat :
            UpdateProgress(c, k, completed, max)
  <2>1. call[t].completed \in Nat /\ \A c \in Channels : gpu[c].semaphore \in Nat
    BY DEF TypeInv, TypeOK, ThreadType, EnvType, Frames
  <2> QED BY <2>1, FrameParts, ProgressAssumption, RingAssumption
          DEF TypeInv, TypeOK, ReportChannelError, Poll, RotatePop, RotateCheck,
              SpinPop, SpinCheck, IvPop, IvCheck
<1>3. RingSafe' BY <1>1, <1>2, UpdateProgressRing, SameRing
<1>4. SameOwners
  <2> USE <1>1 DEF TypeInv, TypeOK, ThreadType, Frames, SameOwners, Owners, Goto
  <2>1. CASE Poll(t) BY <2>1 DEF Poll, Return, NoCall
  <2>2. CASE RotatePop(t) BY <2>2, WaitKeepsFrame DEF Rotators, SameFrame
  <2>3. CASE RotateCheck(t) BY <2>3 DEF RotateCheck
  <2>4. CASE SpinPop(t) BY <2>4 DEF SpinPop
  <2>5. CASE SpinCheck(t) BY <2>5 DEF SpinCheck, Return, NoCall
  <2>6. CASE IvPop(t) BY <2>6, WaitKeepsFrame DEF SameFrame
  <2>7. CASE IvCheck(t) BY <2>7 DEF IvCheck
  <2> QED BY <2>1, <2>2, <2>3, <2>4, <2>5, <2>6, <2>7
<1> QED BY <1>3, <1>4, SameOwnersClaims

\* A thread claims entries and locks a channel, or goes on spinning.
LEMMA ClaimingSteps ==
    ASSUME ClaimsRingInv, NEW t \in Threads, Claim(t) \/ SpinClaim(t)
    PROVE  ClaimsInv' /\ RingSafe'
<1> USE DEF ClaimsRingInv
<1>1. pc[t] \notin Owners BY DEF Claim, SpinClaim, Owners
<1>2. UNCHANGED <<cpu_put, gpu_get>> BY DEF Claim, SpinClaim
<1>3. CASE \E c \in Channels \ push_locks :
              TryClaim(c, call[t].entries) /\ ClaimAndLock(t, c, call[t].entries)
  BY <1>1, <1>2, <1>3, ClaimAndLockClaims, ClaimAndLockRing
<1>4. CASE /\ UNCHANGED <<current_gpfifo_count, push_locks>>
           /\ Goto(t, "spin_update") \/ Goto(t, "spin_check")
           /\ UNCHANGED call \/ \E i : call' = [call EXCEPT ![t].index = i]
  <2>1. SameOwners
    BY <1>1, <1>4 DEF TypeInv, TypeOK, ThreadType, Frames, SameOwners, Owners, Goto
  <2> QED BY <1>2, <1>4, <2>1, SameOwnersClaims, SameRing
<1> QED BY <1>3, <1>4, FrameParts DEF TypeInv, TypeOK, Claim, SpinClaim, Claimable

\* The owner of a channel appends an entry and gives the channel up, or keeps it.
LEMMA AppendingSteps ==
    ASSUME ClaimsRingInv, NEW t \in Threads, WriteCtrl(t) \/ EndPush(t)
    PROVE  ClaimsInv' /\ RingSafe'
<1> USE DEF ClaimsRingInv
<1> DEFINE c == call[t].channel
<1>1. pc[t] \in Owners BY DEF WriteCtrl, EndPush, Owners
<1>2. c \in Channels /\ call[t].entries \in Int BY FrameParts DEF TypeInv, TypeOK
<1>3. current_gpfifo_count[c] = call[t].entries /\ c \in push_locks
  BY <1>1 DEF ClaimsInv, OwnerClaims
<1>4. call[t].entries > 0 BY <1>1 DEF TypeInv, FrameOK, Claimed
<1>5. UNCHANGED gpu_get /\ \E entry : AppendEntry(c, entry) BY DEF WriteCtrl, EndPush
<1>6. RingSafe' BY <1>2, <1>3, <1>4, <1>5, AppendEntryRing
<1>7. current_gpfifo_count' = [current_gpfifo_count EXCEPT ![c] = @ - 1]
  BY <1>5 DEF AppendEntry
<1>8. \A u \in Threads \ {t} : pc'[u] = pc[u] /\ call'[u] = call[u]
  BY DEF TypeInv, TypeOK, ThreadType, WriteCtrl, EndPush, Goto, Return
<1>9. \A u \in Threads \ {t} : pc[u] \in Owners => call[u].channel # c
  BY <1>1 DEF ClaimsInv, OneOwner
<1>10. CASE WriteCtrl(t)
  <2>1. /\ push_locks' = push_locks /\ pc'[t] = "submit_ctrl"
        /\ call'[t].channel = c /\ call'[t].entries = call[t].entries - 1
    BY <1>10 DEF TypeInv, TypeOK, ThreadType, Frames, WriteCtrl, Goto, poolVars
  <2>2. UnlockedUnclaimed'
    BY <1>3, <1>7, <2>1 DEF ClaimsInv, UnlockedUnclaimed, TypeInv, TypeOK, RingType
  <2>3. OwnerClaims'
    <3>1. current_gpfifo_count'[c] = call'[t].entries
      BY <1>2, <1>3, <1>7, <2>1 DEF TypeInv, TypeOK, RingType
    <3> QED
      BY <1>3, <1>7, <1>8, <1>9, <2>1, <3>1
         DEF ClaimsInv, OwnerClaims, TypeInv, TypeOK, RingType
  <2>4. OneOwner' BY <1>1, <1>8, <2>1 DEF ClaimsInv, OneOwner
  <2>5. LockedOwned' BY <1>1, <1>8, <2>1 DEF ClaimsInv, LockedOwned, Owns, Owners
  <2> QED BY <1>6, <2>2, <2>3, <2>4, <2>5 DEF ClaimsInv
<1>11. CASE EndPush(t)
  <2>1. push_locks' = push_locks \ {c} /\ pc'[t] \notin Owners
    BY <1>11
       DEF TypeInv, TypeOK, ThreadType, EndPush, Goto, Return, UnlockForPush, Owners
  <2>2. call[t].entries = 1
    BY <1>1, <1>11 DEF TypeInv, FrameOK, Claimed, EndPush
  <2>3. current_gpfifo_count'[c] = 0
    BY <1>2, <1>3, <1>7, <2>2 DEF TypeInv, TypeOK, RingType
  <2>4. UnlockedUnclaimed'
    BY <1>7, <2>1, <2>3 DEF ClaimsInv, UnlockedUnclaimed, TypeInv, TypeOK, RingType
  <2>5. OwnerClaims'
    BY <1>7, <1>8, <1>9, <2>1 DEF ClaimsInv, OwnerClaims, TypeInv, TypeOK, RingType
  <2>6. OneOwner' BY <1>8, <2>1 DEF ClaimsInv, OneOwner
  <2>7. LockedOwned' BY <1>8, <2>1 DEF ClaimsInv, LockedOwned, Owns
  <2> QED BY <1>6, <2>4, <2>5, <2>6, <2>7 DEF ClaimsInv
<1> QED BY <1>10, <1>11

\* A failed begin gives back what is still claimed.
LEMMA ReleaseStep ==
    ASSUME ClaimsRingInv, NEW t \in Threads, Release(t)
    PROVE  ClaimsInv' /\ RingSafe'
<1> USE DEF ClaimsRingInv
<1> DEFINE c == call[t].channel
<1>1. pc[t] \in Owners BY DEF Release, Owners
<1>2. c \in Channels /\ call[t].entries \in Int BY FrameParts DEF TypeInv, TypeOK
<1>3. current_gpfifo_count[c] = call[t].entries /\ c \in push_locks
  BY <1>1 DEF ClaimsInv, OwnerClaims
<1>4. current_gpfifo_count' = [current_gpfifo_count EXCEPT ![c] = @ - call[t].entries]
  BY DEF Release
<1>5. current_gpfifo_count'[c] = 0
  BY <1>2, <1>3, <1>4 DEF TypeInv, TypeOK, RingType
<1>6. push_locks' = push_locks \ {c} /\ pc'[t] \notin Owners
  BY DEF TypeInv, TypeOK, ThreadType, Release, Goto, Return, UnlockForPush, Owners
<1>7. \A u \in Threads \ {t} : pc'[u] = pc[u] /\ call'[u] = call[u]
  BY DEF TypeInv, TypeOK, ThreadType, Release, Goto, Return
<1>8. \A u \in Threads \ {t} : pc[u] \in Owners => call[u].channel # c
  BY <1>1 DEF ClaimsInv, OneOwner
<1>9. UnlockedUnclaimed'
  BY <1>4, <1>5, <1>6 DEF ClaimsInv, UnlockedUnclaimed, TypeInv, TypeOK, RingType
<1>10. OwnerClaims'
  BY <1>4, <1>6, <1>7, <1>8 DEF ClaimsInv, OwnerClaims, TypeInv, TypeOK, RingType
<1>11. OneOwner' BY <1>6, <1>7 DEF ClaimsInv, OneOwner
<1>12. LockedOwned' BY <1>6, <1>7 DEF ClaimsInv, LockedOwned, Owns
<1>13. RingSafe'
  <2> SUFFICES ASSUME NEW d \in Channels
               PROVE  /\ current_gpfifo_count'[d] >= 0
                      /\ Pending(d)' + current_gpfifo_count'[d] <= NumGpfifoEntries - 1
    BY DEF RingSafe
  <2>1. Pending(d)' = Pending(d) BY DEF Pending, Release
  <2>2. Pending(d) \in 0 .. NumGpfifoEntries - 1
    BY DistanceType DEF TypeInv, TypeOK, RingType, Pending
  <2>3. CASE d = c BY <1>5, <2>1, <2>2, <2>3, RingAssumption
  <2>4. CASE d # c
    <3>1. current_gpfifo_count'[d] = current_gpfifo_count[d]
      BY <1>4, <2>4 DEF TypeInv, TypeOK, RingType
    <3> QED BY <2>1, <3>1 DEF RingSafe
  <2> QED BY <2>3, <2>4
<1> QED BY <1>9, <1>10, <1>11, <1>12, <1>13 DEF ClaimsInv

\* Every step preserves the invariant.
LEMMA ClaimsRingNext == ClaimsRingInv /\ [Next]_vars => ClaimsRingInv'
<1> SUFFICES ASSUME ClaimsRingInv, [Next]_vars PROVE ClaimsRingInv' OBVIOUS
<1>1. TypeInv' BY TypeNext DEF ClaimsRingInv
<1>2. ASSUME NEW t \in Threads, Reserve(t) PROVE ClaimsInv' /\ RingSafe'
  <2>1. FirstChannel \in Channels BY ZeroTypes DEF FirstChannel
  <2> QED BY <1>2, <2>1, QuietSteps DEF Reserve
<1>3. ASSUME NEW t \in Threads, Step(t) PROVE ClaimsInv' /\ RingSafe'
  BY <1>3, QuietSteps, RetiringSteps, ClaimingSteps, AppendingSteps, ReleaseStep
     DEF Step
<1>4. ASSUME NEW t \in Threads, NEW c \in Channels, StartRotate(t) \/ StartPoll(t, c)
      PROVE  ClaimsInv' /\ RingSafe'
  BY <1>4, QuietSteps
<1>5. ASSUME \/ \E c \in Channels : GpuExecute(c) \/ GpuFault(c)
             \/ RequestRotation
             \/ UNCHANGED vars
      PROVE  ClaimsInv' /\ RingSafe'
  <2>1. UNCHANGED <<ringVars, poolVars, pc, call>>
    BY <1>5 DEF GpuExecute, GpuFault, RequestRotation, vars
  <2>2. SameOwners BY <2>1 DEF SameOwners, ringVars, poolVars
  <2> QED BY <2>1, <2>2, SameOwnersClaims, SameRing DEF ringVars, ClaimsRingInv
<1>6. ClaimsInv' /\ RingSafe'
  <2>1. 0 \in Channels BY ZeroTypes
  <2> QED BY <1>2, <1>3, <1>4, <1>5, <2>1 DEF Next
<1> QED BY <1>1, <1>6 DEF ClaimsRingInv

\* No claim of GPFIFO entries is lost or leaked, and a channel is locked for push
\* exactly while one thread owns it (uvm_channel_reserve() to uvm_channel_end_push()
\* or uvm_channel_release()), for any number of threads, channels and entries.
THEOREM ClaimsCorrect == Spec => []ClaimsAccounted
<1>1. Init => ClaimsRingInv BY TypeInit, ClaimsInit DEF ClaimsRingInv
<1>2. ClaimsRingInv => ClaimsAccounted BY ClaimsEquivalent DEF ClaimsRingInv
<1> QED BY <1>1, <1>2, ClaimsRingNext, PTL DEF Spec

\* Pending and claimed entries leave the sentinel free, so that no pending GPFIFO
\* entry is overwritten (channel_get_available_gpfifo_entries()), for any ring.
THEOREM RingCorrect == Spec => []RingSafe
<1>1. Init => ClaimsRingInv BY TypeInit, ClaimsInit DEF ClaimsRingInv
<1>2. ClaimsRingInv => RingSafe BY DEF ClaimsRingInv
<1> QED BY <1>1, <1>2, ClaimsRingNext, PTL DEF Spec
=============================================================================

--------------------- MODULE UvmTrackingSemaphoreProofs ---------------------
(***************************************************************************)
(* Proofs about the tracking semaphore of UvmTrackingSemaphore, for every  *)
(* number of threads, every ring size and every range of the payload and   *)
(* the notifier: the completed value is exact, an encrypted copy that      *)
(* passes the notifier check decrypts, the tries never run out, and the    *)
(* semaphore implements CompletionCounter.                                 *)
(***************************************************************************)
EXTENDS UvmTrackingSemaphore, TLAPS

-----------------------------------------------------------------------------
(* The inductive invariant.  The 32-bit words are related to the 64-bit    *)
(* counts they stand for.                                                  *)

\* Pushes whose encrypted copy the GPU has begun to publish.
Begun == IF phase = "encrypt" THEN executed + 1 ELSE executed

\* The encrypted copy of the payload of the n-th push.
Copy(n) == [payload |-> n % Modulus, iv |-> n]

\* What the GPU has yet to do for each push, and what it has released.
PushesInv ==
    /\ executed + Len(pushes) = queued_value
    /\ \A k \in 1 .. Len(pushes) : pushes[k].payload = (executed + k) % Modulus
    /\ payload = (IF phase = "release" THEN executed ELSE executed + 1) % Modulus
    /\ phase # "release" => pushes # <<>>
    /\ written # {} => phase = "encrypt"
    /\ ~secure => phase = "release"

\* What it has published: the notifier counts twice per push, a part of the copy
\* is that of the last push executed or of the one being published.
PublishedInv ==
    secure =>
      /\ \A k \in 1 .. Len(pushes) :
            /\ pushes[k].entry = (2 * (executed + k) - 1) % Modulus
            /\ pushes[k].exit = (2 * (executed + k)) % Modulus
      /\ notifier = (executed + Begun) % Modulus
      /\ auth_tag = Copy(IF "auth_tag" \in written THEN executed + 1 ELSE executed)
      /\ encrypted_payload = Copy(IF "payload" \in written THEN executed + 1 ELSE executed)

\* The IVs of the pushes that may still be observed are in their slots.
IvsInv ==
    secure =>
      /\ last_pushed_notifier = (2 * queued_value) % Modulus
      /\ \A v \in Nat : queued_value - NumGpfifoEntries < v /\ v <= queued_value =>
            ivs[v % NumGpfifoEntries] = v

\* How far the pushes, the GPU, the completed value and the ring are apart.
WindowInv ==
    /\ retired <= completed_value
    /\ completed_value <= executed /\ executed <= queued_value
    /\ queued_value - retired < NumGpfifoEntries

SecureStates == {"notifier", "auth_tag", "payload", "notifier_again", "decrypt"}
Locked == SecureStates \cup {"value"}

\* The threads inside the critical section of the semaphore's lock.
LockInv ==
    \A t \in Threads : /\ m_lock = t <=> pc[t] \in Locked
                       /\ pc[t] \in SecureStates => secure

\* The CPU has last observed the copy of the n-th push.
Observed(n) == /\ last_observed_notifier = (2 * n) % Modulus
               /\ cached_payload = n % Modulus

\* It is the one the completed value stands for, unless a thread is about to
\* update that value.
ObservedInv ==
    secure =>
      /\ (\A t \in Threads : pc[t] # "value") => Observed(completed_value)
      /\ \A t \in Threads : pc[t] = "value" =>
            \E n \in completed_value .. executed : n >= frame[t].floor /\ Observed(n)

\* Thread t has read the notifier of the n-th push.  A part of the copy it has read
\* since then may be that of a later push.  Every try that failed has seen the GPU
\* make progress.
ReadAt(t, n) ==
    /\ frame[t].gpu_notifier = (2 * n) % Modulus
    /\ n > completed_value
    /\ pc[t] # "decrypt" =>
          /\ frame[t].tries_left >= 1
          /\ n >= completed_value + NumGpfifoEntries + 1 - frame[t].tries_left
    /\ pc[t] \in {"payload", "notifier_again"} =>
          /\ frame[t].local_auth_tag.iv \in n .. Begun
          /\ frame[t].local_auth_tag = Copy(frame[t].local_auth_tag.iv)
    /\ pc[t] = "notifier_again" =>
          /\ frame[t].local_payload.iv \in n .. Begun
          /\ frame[t].local_payload = Copy(frame[t].local_payload.iv)
    /\ pc[t] = "decrypt" => /\ frame[t].local_auth_tag = Copy(n)
                            /\ frame[t].local_payload = Copy(n)

ThreadInv(t) ==
    /\ pc[t] \in Locked => frame[t].floor <= executed
    /\ pc[t] = "notifier" =>
          /\ frame[t].tries_left >= 1
          /\ \/ frame[t].tries_left = NumGpfifoEntries
             \/ Begun >= completed_value + NumGpfifoEntries + 1 - frame[t].tries_left
    /\ pc[t] \in SecureStates \ {"notifier"} =>
          \E n \in frame[t].floor .. executed : ReadAt(t, n)
    /\ pc[t] = "retire" => /\ frame[t].floor <= frame[t].completed
                           /\ frame[t].completed <= completed_value

ThreadsInv == \A t \in Threads : ThreadInv(t)

GpuInv == PushesInv /\ PublishedInv /\ IvsInv
CpuInv == WindowInv /\ LockInv /\ ObservedInv /\ ThreadsInv /\ ~fatal_error
Inv == TypeOK /\ GpuInv /\ CpuInv

-----------------------------------------------------------------------------
(* Words and slots: arithmetic modulo d, the range of a word or the size   *)
(* of the ring.                                                            *)

LEMMA DivMod ==
    ASSUME NEW d \in Nat \ {0}, NEW a \in Nat
    PROVE  a \div d \in Nat /\ a % d \in 0 .. d - 1 /\ a = (a \div d) * d + (a % d)
OBVIOUS

LEMMA NextMultiple ==
    ASSUME NEW d \in Nat \ {0}, NEW a \in Int, NEW b \in Int, a < b
    PROVE  a * d + d <= b * d
OBVIOUS

\* Quotient and remainder are unique.
LEMMA DivModUnique ==
    ASSUME NEW d \in Nat \ {0}, NEW k \in Nat, NEW j \in Nat,
           NEW r \in 0 .. d - 1, NEW s \in 0 .. d - 1, k * d + r = j * d + s
    PROVE  k = j /\ r = s
<1>1. k * d \in Int /\ j * d \in Int OBVIOUS
<1>2. ~(k < j) BY NextMultiple, <1>1
<1>3. ~(j < k) BY NextMultiple, <1>1
<1> QED BY <1>1, <1>2, <1>3

LEMMA ModOfForm ==
    ASSUME NEW d \in Nat \ {0}, NEW k \in Nat, NEW r \in 0 .. d - 1
    PROVE  (k * d + r) % d = r
<1> DEFINE a == k * d + r
<1>1. a \in Nat OBVIOUS
<1> HIDE DEF a
<1>2. a \div d \in Nat /\ a % d \in 0 .. d - 1 /\ a = (a \div d) * d + (a % d)
  BY <1>1, DivMod
<1>3. k * d + r = (a \div d) * d + (a % d) BY <1>2 DEF a
<1>4. r = a % d BY <1>2, <1>3, DivModUnique
<1> QED BY <1>4 DEF a

\* Two counts less than d apart that are equal modulo d are equal.
LEMMA SameMod ==
    ASSUME NEW d \in Nat \ {0}, NEW a \in Nat, NEW b \in Nat,
           a <= b, b < a + d, a % d = b % d
    PROVE  a = b
<1> DEFINE k == a \div d
           j == b \div d
<1>1. k \in Nat /\ j \in Nat /\ a = k * d + (a % d) /\ b = j * d + (b % d) BY DivMod
<1>2. k * d \in Int /\ j * d \in Int BY <1>1
<1>3. a % d \in Int BY DivMod
<1> HIDE DEF k, j
<1>4. ~(k < j)
  <2> SUFFICES ASSUME k < j PROVE FALSE OBVIOUS
  <2>1. k * d + d <= j * d BY <1>1, NextMultiple
  <2> QED BY <2>1, <1>1, <1>2, <1>3
<1>5. ~(j < k)
  <2> SUFFICES ASSUME j < k PROVE FALSE OBVIOUS
  <2>1. j * d + d <= k * d BY <1>1, NextMultiple
  <2> QED BY <2>1, <1>1, <1>2, <1>3
<1>6. k = j BY <1>4, <1>5, <1>1
<1> QED BY <1>6, <1>1

LEMMA ModSucc ==
    ASSUME NEW d \in Nat \ {0}, NEW a \in Nat
    PROVE  ((a % d) + 1) % d = (a + 1) % d
<1> DEFINE k == a \div d
           r == a % d
<1>1. k \in Nat /\ a = k * d + r /\ r \in 0 .. d - 1 BY DivMod
<1>2. k * d \in Int BY <1>1
<1> HIDE DEF k, r
<1>3. CASE r + 1 < d
  <2>1. (k * d + (r + 1)) % d = r + 1 BY ModOfForm, <1>1, <1>3
  <2>2. (0 * d + (r + 1)) % d = r + 1 BY ModOfForm, <1>1, <1>3
  <2> QED BY <2>1, <2>2, <1>1, <1>2 DEF r
<1>4. CASE r + 1 = d
  <2>1. ((k + 1) * d + 0) % d = 0 BY ModOfForm, <1>1
  <2>2. (1 * d + 0) % d = 0 BY ModOfForm
  <2>3. (k + 1) * d = k * d + d BY <1>1
  <2> QED BY <2>1, <2>2, <2>3, <1>1, <1>2, <1>4 DEF r
<1> QED BY <1>1, <1>3, <1>4

\* Extend() finds the 64-bit value of a payload that has wrapped at most once.
LEMMA ExtendIsExact ==
    ASSUME NEW a \in Nat, NEW b \in Nat, a <= b, b < a + Modulus
    PROVE  Extend(a, b % Modulus) = b
<1> DEFINE k == a \div Modulus
           j == b \div Modulus
<1>0. Modulus \in Nat \ {0} BY SizeAssumption
<1>1. /\ k \in Nat /\ j \in Nat
      /\ a = k * Modulus + (a % Modulus) /\ b = j * Modulus + (b % Modulus)
  BY <1>0, DivMod
<1>2. k * Modulus \in Int /\ j * Modulus \in Int BY <1>0, <1>1
<1>3. a % Modulus \in 0 .. Modulus - 1 /\ b % Modulus \in 0 .. Modulus - 1 BY <1>0, DivMod
<1> HIDE DEF k, j
<1>4. ~(j < k)
  <2> SUFFICES ASSUME j < k PROVE FALSE OBVIOUS
  <2>1. j * Modulus + Modulus <= k * Modulus BY <1>0, <1>1, NextMultiple
  <2> QED BY <2>1, <1>0, <1>1, <1>2, <1>3
<1>5. ~(k + 1 < j)
  <2> SUFFICES ASSUME k + 1 < j PROVE FALSE OBVIOUS
  <2>1. (k + 1) * Modulus + Modulus <= j * Modulus BY <1>0, <1>1, NextMultiple
  <2>2. (k + 1) * Modulus = k * Modulus + Modulus BY <1>0, <1>1
  <2> QED BY <2>1, <2>2, <1>0, <1>1, <1>2, <1>3
<1>6. j = k \/ j = k + 1 BY <1>1, <1>4, <1>5
<1>7. CASE j = k BY <1>7, <1>0, <1>1, <1>2, <1>3 DEF Extend, k
<1>8. CASE j = k + 1
  <2>1. (k + 1) * Modulus = k * Modulus + Modulus BY <1>0, <1>1
  <2> QED BY <1>8, <1>0, <1>1, <1>2, <1>3, <2>1 DEF Extend, k
<1> QED BY <1>6, <1>7, <1>8

LEMMA ModulusFactor == \E m \in Nat \ {0} : Modulus = m * (2 * NumGpfifoEntries)
<1> DEFINE d == 2 * NumGpfifoEntries
           m == Modulus \div d
<1>1. d \in Nat \ {0} BY SizeAssumption
<1>2. Modulus = m * d + (Modulus % d) /\ m \in Nat BY SizeAssumption, <1>1, DivMod
<1>3. Modulus % d = 0 /\ Modulus # 0 BY SizeAssumption
<1> HIDE DEF m, d
<1>4. m # 0 BY <1>1, <1>2, <1>3
<1>5. Modulus = m * d BY <1>1, <1>2, <1>3
<1> QED BY <1>2, <1>4, <1>5 DEF d

\* A word is large enough for the window of pushes that may be observed.
LEMMA WindowFits == Modulus >= 2 * NumGpfifoEntries
<1>1. PICK m \in Nat \ {0} : Modulus = m * (2 * NumGpfifoEntries) BY ModulusFactor
<1> DEFINE d == 2 * NumGpfifoEntries
<1>2. d \in Nat BY SizeAssumption
<1> HIDE DEF d
<1>3. m * d >= d BY <1>2
<1> QED BY <1>1, <1>3 DEF d

\* The low bit survives the wrap.
LEMMA ModParity == ASSUME NEW a \in Nat PROVE (a % Modulus) % 2 = a % 2
<1>1. PICK m \in Nat \ {0} : Modulus = m * (2 * NumGpfifoEntries) BY ModulusFactor
<1> DEFINE n == m * NumGpfifoEntries
           k == a \div Modulus
           r == a % Modulus
           q == k * n
<1>2. Modulus = 2 * n /\ n \in Nat BY <1>1, SizeAssumption
<1>3. k \in Nat /\ a = k * Modulus + r /\ r \in 0 .. Modulus - 1
  BY DivMod, SizeAssumption
<1> HIDE DEF n, k, r
<1>4. k * (2 * n) = 2 * q /\ q \in Nat BY <1>2, <1>3
<1> HIDE DEF q
<1>5. a = 2 * q + r BY <1>2, <1>3, <1>4
<1>6. r % 2 = a % 2 BY <1>5, <1>3, <1>4, SizeAssumption
<1> QED BY <1>6 DEF r

\* Half the exit notifier of the a-th push selects the a-th slot.
LEMMA IvIndexOfPush ==
    ASSUME NEW a \in Nat
    PROVE  IvIndex((2 * a) % Modulus) = a % NumGpfifoEntries
<1>1. PICK m \in Nat \ {0} : Modulus = m * (2 * NumGpfifoEntries) BY ModulusFactor
<1> DEFINE n == m * NumGpfifoEntries
           k == (2 * a) \div Modulus
           r == (2 * a) % Modulus
           q == k * n
<1>2. Modulus = 2 * n /\ n \in Nat BY <1>1, SizeAssumption
<1>3. k \in Nat /\ 2 * a = k * Modulus + r /\ r \in 0 .. Modulus - 1
  <2>1. 2 * a \in Nat OBVIOUS
  <2> QED BY <2>1, DivMod, SizeAssumption
<1>4. NumGpfifoEntries \in Nat \ {0} BY SizeAssumption
<1>5. q = (k * m) * NumGpfifoEntries /\ k * m \in Nat BY <1>1, <1>3, <1>4
<1> HIDE DEF n, k, r
<1>6. k * (2 * n) = 2 * q /\ q \in Nat BY <1>2, <1>3
<1> HIDE DEF q
<1>7. 2 * a = 2 * q + r BY <1>2, <1>3, <1>6
<1>8. r \div 2 = a - q /\ a - q \in Nat BY <1>7, <1>3, <1>6
<1> DEFINE l == (a - q) \div NumGpfifoEntries
           s == (a - q) % NumGpfifoEntries
<1>9. l \in Nat /\ s \in 0 .. NumGpfifoEntries - 1 /\ a - q = l * NumGpfifoEntries + s
  BY <1>4, <1>8, DivMod
<1> HIDE DEF l, s
<1>10. /\ k * m + l \in Nat
       /\ (k * m + l) * NumGpfifoEntries = (k * m) * NumGpfifoEntries + l * NumGpfifoEntries
  BY <1>4, <1>5, <1>9
<1>11. a = (k * m + l) * NumGpfifoEntries + s
  <2>1. (k * m) * NumGpfifoEntries \in Nat /\ l * NumGpfifoEntries \in Nat
    BY <1>4, <1>5, <1>9
  <2> QED BY <2>1, <1>5, <1>6, <1>9, <1>10
<1>12. a % NumGpfifoEntries = s BY <1>4, <1>9, <1>10, <1>11, ModOfForm
<1> QED BY <1>8, <1>12 DEF r, s, IvIndex

-----------------------------------------------------------------------------
(* Facts that the steps share.                                             *)

LEMMA Sizes == /\ NumGpfifoEntries \in Nat \ {0} /\ NumGpfifoEntries >= 3
               /\ Modulus \in Nat \ {0} /\ Modulus >= 2 * NumGpfifoEntries
BY SizeAssumption, WindowFits

LEMMA WordMod == ASSUME NEW a \in Nat PROVE a % Modulus \in Word
BY Sizes, DivMod DEF Word

LEMMA SlotMod == ASSUME NEW a \in Nat PROVE a % NumGpfifoEntries \in Slots
BY Sizes, DivMod DEF Slots

LEMMA NoCopyIsFirst == NoCopy = Copy(0)
BY Sizes, ModOfForm DEF NoCopy, Copy

LEMMA CopyType == ASSUME NEW n \in Nat PROVE Copy(n) \in Encrypted
BY WordMod DEF Copy, Encrypted

LEMMA NoFrameType == NoFrame \in Frames
BY Sizes, NoCopyIsFirst, CopyType DEF NoFrame, Frames, Word

\* The notifier after another half of a publication.
LEMMA NextNotifierOf ==
    ASSUME NEW a \in Nat
    PROVE  NextNotifier(a % Modulus) = (a + 1) % Modulus
BY Sizes, ModSucc DEF NextNotifier

LEMMA BegunType == ASSUME TypeOK PROVE Begun \in Nat /\ executed <= Begun /\ Begun <= executed + 1
BY DEF TypeOK, Begun

LEMMA InitInv == Init => Inv
<1> SUFFICES ASSUME Init PROVE Inv OBVIOUS
<1> USE Sizes DEF Init
<1>0. 0 % Modulus = 0 /\ 0 % NumGpfifoEntries = 0 BY DivMod
<1>1. TypeOK
  <2>1. secure \in BOOLEAN BY FlagAssumption
  <2>2. encrypted_payload \in Encrypted /\ auth_tag \in Encrypted
    BY NoCopyIsFirst, CopyType
  <2>3. 0 \in Word BY DEF Word
  <2>4. pc \in [Threads -> PcStates] /\ frame \in [Threads -> Frames]
    BY NoFrameType DEF PcStates
  <2>5. ivs \in [Slots -> Nat] /\ pushes \in Seq(Push) OBVIOUS
  <2> QED BY <2>1, <2>2, <2>3, <2>4, <2>5 DEF TypeOK
<1>2. PushesInv BY <1>0 DEF PushesInv
<1>3. PublishedInv BY <1>0, NoCopyIsFirst DEF PublishedInv, Begun
<1>4. IvsInv BY <1>0 DEF IvsInv, Slots
<1>5. WindowInv BY DEF WindowInv
<1>6. LockInv BY ThreadAssumption DEF LockInv, Locked, SecureStates
<1>7. ObservedInv BY <1>0 DEF ObservedInv, Observed
<1>8. ThreadsInv BY DEF ThreadsInv, ThreadInv, Locked, SecureStates
<1> QED BY <1>1, <1>2, <1>3, <1>4, <1>5, <1>6, <1>7, <1>8 DEF Inv, GpuInv, CpuInv

\* A thread keeps its part of the invariant through the steps of others.
LEMMA ThreadStable ==
    ASSUME TypeOK, TypeOK', NEW t \in Threads, ThreadInv(t),
           pc'[t] = pc[t], frame'[t] = frame[t],
           executed' >= executed, Begun' >= Begun, completed_value' >= completed_value,
           pc[t] \in Locked => completed_value' = completed_value
    PROVE  ThreadInv(t)'
<1>1. frame[t] \in Frames /\ pc[t] \in PcStates BY DEF TypeOK
<1>2. frame[t].floor \in Nat /\ frame[t].completed \in Nat /\ frame[t].tries_left \in Nat
  BY <1>1 DEF Frames
<1>0. /\ executed \in Nat /\ executed' \in Nat /\ Begun \in Nat /\ Begun' \in Nat
      /\ completed_value \in Nat /\ completed_value' \in Nat
  <2>1. executed \in Nat /\ executed' \in Nat BY DEF TypeOK
  <2>2. Begun \in Nat /\ Begun' \in Nat BY <2>1 DEF Begun
  <2>3. completed_value \in Nat /\ completed_value' \in Nat BY DEF TypeOK
  <2> QED BY <2>1, <2>2, <2>3
<1> USE <1>0
<1>3. CASE pc[t] \in SecureStates \ {"notifier"}
  <2>1. PICK n \in frame[t].floor .. executed : ReadAt(t, n) BY <1>3 DEF ThreadInv
  <2>2. completed_value' = completed_value BY <1>3 DEF Locked
  <2>3. ReadAt(t, n)'
    <3>1. ASSUME NEW k \in n .. Begun PROVE k \in n .. Begun' OBVIOUS
    <3> QED BY <2>1, <2>2, <3>1 DEF ReadAt, Copy
  <2>4. n \in frame'[t].floor .. executed' BY <1>2, <2>1
  <2> QED BY <1>1, <1>2, <1>3, <2>3, <2>4 DEF ThreadInv, Locked, SecureStates
<1>4. CASE pc[t] = "notifier"
  BY <1>2, <1>4, Sizes DEF ThreadInv, Locked, SecureStates
<1>5. CASE pc[t] \in {"value", "retire"}
  BY <1>2, <1>5 DEF ThreadInv, Locked, SecureStates
<1>6. CASE pc[t] \in {"idle", "lock"} BY <1>6 DEF ThreadInv, Locked, SecureStates
<1> QED BY <1>1, <1>3, <1>4, <1>5, <1>6 DEF PcStates, SecureStates

\* A step of the GPU, or the end of a push, disturbs the CPU's part of the
\* invariant only by how far it has come.
LEMMA CpuStable ==
    ASSUME TypeOK, TypeOK', CpuInv, WindowInv',
           UNCHANGED <<secure, cpuVars, pc, frame>>,
           executed' >= executed, Begun' >= Begun
    PROVE  CpuInv'
<1> USE DEF cpuVars
<1>1. LockInv' BY DEF CpuInv, LockInv
<1>2. ObservedInv'
  <2> SUFFICES ASSUME secure' PROVE ObservedInv' BY DEF ObservedInv
  <2>1. (\A t \in Threads : pc[t] # "value") => Observed(completed_value)
    BY DEF CpuInv, ObservedInv
  <2>2. ASSUME NEW t \in Threads, pc[t] = "value"
        PROVE  \E n \in completed_value .. executed' : n >= frame[t].floor /\ Observed(n)
    BY <2>2 DEF CpuInv, ObservedInv, TypeOK
  <2> QED BY <2>1, <2>2 DEF ObservedInv, Observed
<1>3. ThreadsInv'
  <2> SUFFICES ASSUME NEW t \in Threads PROVE ThreadInv(t)' BY DEF ThreadsInv
  <2>1. ThreadInv(t) BY DEF CpuInv, ThreadsInv
  <2>2. completed_value \in Nat BY DEF TypeOK
  <2> QED BY <2>1, <2>2, ThreadStable
<1> QED BY <1>1, <1>2, <1>3 DEF CpuInv

-----------------------------------------------------------------------------
(* The end of a push and the steps of the GPU.                             *)

\* The first of the pushes, and the others.
LEMMA HeadTail ==
    ASSUME TypeOK, pushes # <<>>
    PROVE  /\ Head(pushes) = pushes[1] /\ Head(pushes) \in Push
           /\ Tail(pushes) \in Seq(Push) /\ Len(Tail(pushes)) = Len(pushes) - 1
           /\ \A k \in 1 .. Len(Tail(pushes)) : Tail(pushes)[k] = pushes[k + 1]
           /\ Len(pushes) \in Nat /\ Len(pushes) >= 1
<1>1. pushes \in Seq(Push) BY DEF TypeOK
<1> QED BY <1>1

LEMMA EndPushInv == ASSUME Inv, EndPush PROVE Inv'
<1> DEFINE value == queued_value + 1
           entry == NextNotifier(last_pushed_notifier)
           exit == NextNotifier(entry)
           new == [payload |-> value % Modulus, entry |-> entry, exit |-> exit]
<1>1. TypeOK /\ PushesInv /\ PublishedInv /\ IvsInv /\ WindowInv /\ CpuInv
  BY DEF Inv, GpuInv, CpuInv
<1>2. /\ queued_value' = value /\ pushes' = Append(pushes, new)
      /\ UNCHANGED <<secure, phase, written, gpu_error, executed, payload, notifier,
                     encrypted_payload, auth_tag, cpuVars, pc, frame>>
      /\ EntryFree
  BY DEF EndPush
<1>3. /\ queued_value \in Nat /\ value \in Nat /\ last_pushed_notifier \in Word
      /\ pushes \in Seq(Push) /\ executed \in Nat /\ ivs \in [Slots -> Nat]
      /\ retired \in Nat /\ secure \in BOOLEAN
  BY <1>1 DEF TypeOK
<1>4. entry \in Word /\ exit \in Word
  <2>1. ASSUME NEW n \in Word PROVE NextNotifier(n) \in Word
    BY WordMod DEF NextNotifier, Word
  <2> QED BY <2>1, <1>3
<1>5. new \in Push BY <1>3, <1>4, WordMod DEF Push
<1>6. /\ pushes' \in Seq(Push) /\ Len(pushes') = Len(pushes) + 1 /\ Len(pushes) \in Nat
      /\ \A k \in 1 .. Len(pushes) : pushes'[k] = pushes[k]
      /\ pushes'[Len(pushes) + 1] = new
  BY <1>2, <1>3, <1>5
<1>7. executed + Len(pushes) = queued_value BY <1>1 DEF PushesInv
<1>8. secure => /\ last_pushed_notifier = (2 * queued_value) % Modulus
                /\ entry = (2 * value - 1) % Modulus
                /\ exit = (2 * value) % Modulus
  <2> SUFFICES ASSUME secure PROVE /\ last_pushed_notifier = (2 * queued_value) % Modulus
                                   /\ entry = (2 * value - 1) % Modulus
                                   /\ exit = (2 * value) % Modulus
    OBVIOUS
  <2>1. last_pushed_notifier = (2 * queued_value) % Modulus BY <1>1 DEF IvsInv
  <2>2. 2 * queued_value \in Nat /\ 2 * queued_value + 1 \in Nat BY <1>3
  <2>3. entry = (2 * queued_value + 1) % Modulus BY <2>1, <2>2, NextNotifierOf
  <2>4. exit = (2 * queued_value + 1 + 1) % Modulus BY <2>2, <2>3, NextNotifierOf
  <2>5. 2 * queued_value + 1 = 2 * value - 1 /\ 2 * queued_value + 1 + 1 = 2 * value
    BY <1>3
  <2> QED BY <2>1, <2>3, <2>4, <2>5
<1> HIDE DEF entry, exit
<1>9. TypeOK'
  <2>1. last_pushed_notifier' \in Word BY <1>3, <1>4 DEF EndPush, entry, exit
  <2>2. ivs' \in [Slots -> Nat] BY <1>3 DEF EndPush
  <2> QED BY <1>1, <1>2, <1>3, <1>6, <2>1, <2>2 DEF TypeOK, cpuVars
<1>10. PushesInv'
  <2>1. \A k \in 1 .. Len(pushes') : pushes'[k].payload = (executed' + k) % Modulus
    <3> SUFFICES ASSUME NEW k \in 1 .. Len(pushes')
                 PROVE  pushes'[k].payload = (executed + k) % Modulus
      BY <1>2
    <3>1. CASE k \in 1 .. Len(pushes) BY <3>1, <1>1, <1>6 DEF PushesInv
    <3>2. CASE k = Len(pushes) + 1 BY <3>2, <1>3, <1>6, <1>7
    <3> QED BY <3>1, <3>2, <1>6
  <2>2. pushes' # <<>> BY <1>6
  <2>3. executed' + Len(pushes') = queued_value' BY <1>2, <1>3, <1>6, <1>7
  <2> QED BY <1>1, <1>2, <2>1, <2>2, <2>3 DEF PushesInv
<1>11. PublishedInv'
  <2> SUFFICES ASSUME secure, secure' PROVE PublishedInv' BY <1>2 DEF PublishedInv
  <2>1. ASSUME NEW k \in 1 .. Len(pushes')
        PROVE  /\ pushes'[k].entry = (2 * (executed + k) - 1) % Modulus
               /\ pushes'[k].exit = (2 * (executed + k)) % Modulus
    <3>1. CASE k \in 1 .. Len(pushes) BY <3>1, <1>1, <1>6 DEF PublishedInv
    <3>2. CASE k = Len(pushes) + 1
      <4>1. executed + k = value BY <3>2, <1>3, <1>6, <1>7
      <4> QED BY <4>1, <3>2, <1>6, <1>8
    <3> QED BY <3>1, <3>2, <1>6
  <2> QED BY <1>1, <1>2, <2>1 DEF PublishedInv, Begun, Copy
<1>12. IvsInv'
  <2> SUFFICES ASSUME secure, secure' PROVE IvsInv' BY <1>2 DEF IvsInv
  <2>1. ivs' = [ivs EXCEPT ![IvIndex(exit)] = value] /\ last_pushed_notifier' = exit
    BY DEF EndPush, entry, exit
  <2>2. IvIndex(exit) = value % NumGpfifoEntries BY <1>3, <1>8, IvIndexOfPush
  <2>3. value % NumGpfifoEntries \in Slots BY <1>3, SlotMod
  <2>4. ASSUME NEW v \in Nat, value - NumGpfifoEntries < v, v <= value
        PROVE  ivs'[v % NumGpfifoEntries] = v
    <3>1. CASE v = value BY <3>1, <2>1, <2>2, <2>3, <1>3
    <3>2. CASE v < value
      <4>1. v <= value /\ value < v + NumGpfifoEntries /\ v # value
        BY <3>2, <2>4, <1>3, Sizes
      <4>2. queued_value - NumGpfifoEntries < v /\ v <= queued_value
        BY <3>2, <2>4, <1>3, Sizes
      <4> HIDE DEF value
      <4>3. v % NumGpfifoEntries # value % NumGpfifoEntries
        BY <4>1, <1>3, Sizes, SameMod
      <4>4. ivs[v % NumGpfifoEntries] = v BY <4>2, <1>1 DEF IvsInv
      <4> QED BY <4>3, <4>4, <2>1, <2>2, <1>3, SlotMod
    <3> QED BY <3>1, <3>2, <2>4, <1>3
  <2> QED BY <2>1, <2>4, <1>2, <1>8 DEF IvsInv
<1>13. WindowInv' BY <1>1, <1>2, <1>3, Sizes DEF WindowInv, EntryFree, cpuVars
<1>14. CpuInv'
  <2>1. executed' >= executed /\ Begun' >= Begun BY <1>1, <1>2, <1>3, BegunType DEF Begun
  <2> QED BY <1>1, <1>2, <1>9, <1>13, <2>1, CpuStable
<1> QED BY <1>9, <1>10, <1>11, <1>12, <1>14 DEF Inv, GpuInv

\* The GPU's part of a step: nothing is queued, and the window stays.
LEMMA GpuWindow ==
    ASSUME TypeOK, TypeOK', WindowInv, UNCHANGED <<pushVars, cpuVars, pc, frame>>,
           executed' >= executed, executed' <= queued_value
    PROVE  WindowInv'
BY DEF TypeOK, WindowInv, pushVars, cpuVars

\* The oldest push leaves the queue.
LEMMA FinishPush ==
    ASSUME TypeOK, PushesInv, pushes # <<>>, pushes' = Tail(pushes), executed' = executed + 1,
           queued_value' = queued_value
    PROVE  /\ executed' + Len(pushes') = queued_value' /\ executed' <= queued_value
           /\ \A k \in 1 .. Len(pushes') :
                 /\ pushes'[k] = pushes[k + 1] /\ k + 1 \in 1 .. Len(pushes)
                 /\ executed' + k = executed + (k + 1)
           /\ pushes' \in Seq(Push) /\ executed' \in Nat
<1>1. executed \in Nat /\ queued_value \in Nat BY DEF TypeOK
<1>2. executed + Len(pushes) = queued_value BY DEF PushesInv
<1> QED BY <1>1, <1>2, HeadTail

LEMMA GpuReleaseInv == ASSUME Inv, GpuRelease PROVE Inv'
<1>1. TypeOK /\ PushesInv /\ PublishedInv /\ IvsInv /\ WindowInv /\ CpuInv
  BY DEF Inv, GpuInv, CpuInv
<1>2. /\ pushes # <<>> /\ phase = "release" /\ payload' = Head(pushes).payload
      /\ UNCHANGED <<written, gpu_error, notifier, encrypted_payload, auth_tag, pushVars,
                     cpuVars, pc, frame>>
  BY DEF GpuRelease, GpuReady
<1>3. payload' = (executed + 1) % Modulus /\ payload' \in Word
  BY <1>1, <1>2, HeadTail DEF PushesInv, Push
<1>4. executed \in Nat /\ secure \in BOOLEAN BY <1>1 DEF TypeOK
<1>5. CASE secure
  <2>1. phase' = "entry" /\ UNCHANGED <<pushes, executed>> BY <1>5 DEF GpuRelease
  <2>2. TypeOK' BY <1>1, <1>2, <1>3, <2>1 DEF TypeOK, pushVars, cpuVars
  <2>3. PushesInv' BY <1>1, <1>2, <1>3, <1>5, <2>1 DEF PushesInv, pushVars
  <2>4. PublishedInv' /\ IvsInv'
    BY <1>1, <1>2, <2>1 DEF PublishedInv, IvsInv, Begun, Copy, pushVars
  <2>5. Begun' >= Begun /\ executed' >= executed BY <1>2, <1>4, <2>1 DEF Begun
  <2>6. WindowInv' BY <1>1, <1>2, <2>1, <2>2, <2>5, GpuWindow DEF WindowInv
  <2>7. CpuInv' BY <1>1, <1>2, <2>2, <2>5, <2>6, CpuStable DEF pushVars
  <2> QED BY <2>2, <2>3, <2>4, <2>7 DEF Inv, GpuInv
<1>6. CASE ~secure
  <2>1. pushes' = Tail(pushes) /\ executed' = executed + 1 /\ UNCHANGED phase
    BY <1>6 DEF GpuRelease
  <2>2. /\ executed' + Len(pushes') = queued_value' /\ executed' <= queued_value
        /\ \A k \in 1 .. Len(pushes') :
              /\ pushes'[k] = pushes[k + 1] /\ k + 1 \in 1 .. Len(pushes)
              /\ executed' + k = executed + (k + 1)
        /\ pushes' \in Seq(Push) /\ executed' \in Nat
    BY <1>1, <1>2, <2>1, FinishPush DEF pushVars
  <2>3. TypeOK' BY <1>1, <1>2, <1>3, <2>1, <2>2 DEF TypeOK, pushVars, cpuVars
  <2>4. PushesInv' BY <1>1, <1>2, <1>3, <2>1, <2>2 DEF PushesInv, pushVars
  <2>5. PublishedInv' /\ IvsInv' BY <1>2, <1>6 DEF PublishedInv, IvsInv, pushVars
  <2>6. Begun' >= Begun /\ executed' >= executed BY <1>2, <1>4, <2>1 DEF Begun
  <2>7. WindowInv' BY <1>1, <1>2, <2>2, <2>3, <2>6, GpuWindow
  <2>8. CpuInv' BY <1>1, <1>2, <2>3, <2>6, <2>7, CpuStable DEF pushVars
  <2> QED BY <2>3, <2>4, <2>5, <2>8 DEF Inv, GpuInv
<1> QED BY <1>4, <1>5, <1>6

LEMMA GpuEntryNotifierInv == ASSUME Inv, GpuEntryNotifier PROVE Inv'
<1>1. TypeOK /\ PushesInv /\ PublishedInv /\ IvsInv /\ WindowInv /\ CpuInv
  BY DEF Inv, GpuInv, CpuInv
<1>2. /\ pushes # <<>> /\ phase = "entry" /\ notifier' = Head(pushes).entry
      /\ phase' = "encrypt"
      /\ UNCHANGED <<pushes, written, gpu_error, executed, payload, encrypted_payload,
                     auth_tag, pushVars, cpuVars, pc, frame>>
  BY DEF GpuEntryNotifier, GpuReady
<1>3. executed \in Nat /\ secure BY <1>1, <1>2 DEF TypeOK, PushesInv
<1>4. notifier' = (2 * (executed + 1) - 1) % Modulus /\ notifier' \in Word
  BY <1>1, <1>2, <1>3, HeadTail DEF PublishedInv, Push
<1>5. TypeOK' BY <1>1, <1>2, <1>4 DEF TypeOK, pushVars, cpuVars
<1>6. PushesInv' BY <1>1, <1>2 DEF PushesInv, pushVars
<1>7. PublishedInv'
  <2>1. 2 * (executed + 1) - 1 = executed' + Begun' BY <1>2, <1>3 DEF Begun
  <2>2. notifier' = (executed' + Begun') % Modulus BY <1>4, <2>1
  <2> QED BY <1>1, <1>2, <1>3, <2>2 DEF PublishedInv, Copy, pushVars
<1>8. IvsInv' BY <1>1, <1>2 DEF IvsInv, pushVars
<1>9. Begun' >= Begun /\ executed' >= executed BY <1>2, <1>3 DEF Begun
<1>10. WindowInv' BY <1>1, <1>2, <1>5, <1>9, GpuWindow DEF WindowInv
<1>11. CpuInv' BY <1>1, <1>2, <1>5, <1>9, <1>10, CpuStable DEF pushVars
<1> QED BY <1>5, <1>6, <1>7, <1>8, <1>11 DEF Inv, GpuInv

LEMMA GpuEncryptInv == ASSUME Inv, NEW part \in Parts, GpuEncrypt(part) PROVE Inv'
<1>1. TypeOK /\ PushesInv /\ PublishedInv /\ IvsInv /\ WindowInv /\ CpuInv
  BY DEF Inv, GpuInv, CpuInv
<1>2. /\ pushes # <<>> /\ phase = "encrypt" /\ written' = written \cup {part}
      /\ UNCHANGED <<pushes, phase, gpu_error, executed, payload, notifier, pushVars,
                     cpuVars, pc, frame>>
  BY DEF GpuEncrypt, GpuReady
<1>3. executed \in Nat /\ secure BY <1>1, <1>2 DEF TypeOK, PushesInv
<1>4. [payload |-> payload, iv |-> executed + 1] = Copy(executed + 1)
  BY <1>1, <1>2 DEF PushesInv, Copy
<1>5. \/ /\ part = "auth_tag" /\ auth_tag' = Copy(executed + 1)
         /\ encrypted_payload' = encrypted_payload
      \/ /\ part = "payload" /\ encrypted_payload' = Copy(executed + 1)
         /\ auth_tag' = auth_tag
  BY <1>4 DEF GpuEncrypt
<1>6. Copy(executed + 1) \in Encrypted BY <1>3, CopyType
<1>7. TypeOK' BY <1>1, <1>2, <1>5, <1>6 DEF TypeOK, pushVars, cpuVars
<1>8. PushesInv' BY <1>1, <1>2 DEF PushesInv, pushVars
<1>9. PublishedInv'
  <2>1. /\ auth_tag' = Copy(IF "auth_tag" \in written' THEN executed' + 1 ELSE executed')
        /\ encrypted_payload' = Copy(IF "payload" \in written' THEN executed' + 1
                                                               ELSE executed')
    BY <1>1, <1>2, <1>3, <1>5 DEF PublishedInv
  <2> QED BY <1>1, <1>2, <2>1 DEF PublishedInv, Begun, Copy, pushVars
<1>10. IvsInv' BY <1>1, <1>2 DEF IvsInv, pushVars
<1>11. Begun' >= Begun /\ executed' >= executed BY <1>2, <1>3 DEF Begun
<1>12. WindowInv' BY <1>1, <1>2, <1>7, <1>11, GpuWindow DEF WindowInv
<1>13. CpuInv' BY <1>1, <1>2, <1>7, <1>11, <1>12, CpuStable DEF pushVars
<1> QED BY <1>7, <1>8, <1>9, <1>10, <1>13 DEF Inv, GpuInv

LEMMA GpuExitNotifierInv == ASSUME Inv, GpuExitNotifier PROVE Inv'
<1>1. TypeOK /\ PushesInv /\ PublishedInv /\ IvsInv /\ WindowInv /\ CpuInv
  BY DEF Inv, GpuInv, CpuInv
<1>2. /\ pushes # <<>> /\ phase = "encrypt" /\ written = Parts
      /\ notifier' = Head(pushes).exit /\ executed' = executed + 1
      /\ pushes' = Tail(pushes) /\ phase' = "release" /\ written' = {}
      /\ UNCHANGED <<gpu_error, payload, encrypted_payload, auth_tag, pushVars, cpuVars,
                     pc, frame>>
  BY DEF GpuExitNotifier, GpuReady
<1>3. executed \in Nat /\ secure BY <1>1, <1>2 DEF TypeOK, PushesInv
<1>4. /\ executed' + Len(pushes') = queued_value' /\ executed' <= queued_value
      /\ \A k \in 1 .. Len(pushes') :
            /\ pushes'[k] = pushes[k + 1] /\ k + 1 \in 1 .. Len(pushes)
            /\ executed' + k = executed + (k + 1)
      /\ pushes' \in Seq(Push) /\ executed' \in Nat
  BY <1>1, <1>2, FinishPush DEF pushVars
<1>5. notifier' = (2 * (executed + 1)) % Modulus /\ notifier' \in Word
  BY <1>1, <1>2, <1>3, HeadTail DEF PublishedInv, Push
<1>6. TypeOK' BY <1>1, <1>2, <1>4, <1>5 DEF TypeOK, pushVars, cpuVars
<1>7. PushesInv' BY <1>1, <1>2, <1>4 DEF PushesInv, pushVars
<1>8. PublishedInv'
  <2>1. 2 * (executed + 1) = executed' + Begun' BY <1>2, <1>3 DEF Begun
  <2>2. notifier' = (executed' + Begun') % Modulus BY <1>5, <2>1
  <2>3. auth_tag' = Copy(executed') /\ encrypted_payload' = Copy(executed')
    BY <1>1, <1>2, <1>3 DEF PublishedInv, Parts
  <2>4. \A k \in 1 .. Len(pushes') :
            /\ pushes'[k].entry = (2 * (executed' + k) - 1) % Modulus
            /\ pushes'[k].exit = (2 * (executed' + k)) % Modulus
    BY <1>1, <1>3, <1>4 DEF PublishedInv
  <2> QED BY <1>2, <2>2, <2>3, <2>4 DEF PublishedInv, Copy
<1>9. IvsInv' BY <1>1, <1>2 DEF IvsInv, pushVars
<1>10. Begun' >= Begun /\ executed' >= executed BY <1>2, <1>3 DEF Begun
<1>11. WindowInv' BY <1>1, <1>2, <1>4, <1>6, <1>10, GpuWindow
<1>12. CpuInv' BY <1>1, <1>2, <1>6, <1>10, <1>11, CpuStable DEF pushVars
<1> QED BY <1>6, <1>7, <1>8, <1>9, <1>12 DEF Inv, GpuInv

LEMMA GpuFaultInv == ASSUME Inv, GpuFault PROVE Inv'
<1>1. TypeOK /\ PushesInv /\ PublishedInv /\ IvsInv /\ WindowInv /\ CpuInv
  BY DEF Inv, GpuInv, CpuInv
<1>2. /\ gpu_error' = TRUE
      /\ UNCHANGED <<pushes, phase, written, executed, payload, notifier,
                     encrypted_payload, auth_tag, pushVars, cpuVars, pc, frame>>
  BY DEF GpuFault
<1>3. TypeOK' BY <1>1, <1>2 DEF TypeOK, pushVars, cpuVars
<1>4. PushesInv' /\ PublishedInv' /\ IvsInv'
  BY <1>1, <1>2 DEF PushesInv, PublishedInv, IvsInv, Begun, Copy, pushVars
<1>5. executed \in Nat /\ Begun \in Nat BY <1>1, BegunType DEF TypeOK
<1>6. Begun' >= Begun /\ executed' >= executed BY <1>2, <1>5 DEF Begun
<1>7. WindowInv' BY <1>1, <1>2, <1>3, <1>6, GpuWindow DEF WindowInv
<1>8. CpuInv' BY <1>1, <1>2, <1>3, <1>6, <1>7, CpuStable DEF pushVars
<1> QED BY <1>3, <1>4, <1>8 DEF Inv, GpuInv

-----------------------------------------------------------------------------
(* The steps of a thread.                                                  *)

LEMMA GpuStable == ASSUME GpuInv, UNCHANGED <<pushVars, gpuVars>> PROVE GpuInv'
BY DEF GpuInv, PushesInv, PublishedInv, IvsInv, Begun, Copy, pushVars, gpuVars

\* The lock excludes the other threads.
LEMMA Holder ==
    ASSUME LockInv, NEW t \in Threads, pc[t] \in Locked
    PROVE  m_lock = t /\ \A u \in Threads \ {t} : pc[u] \notin Locked
BY DEF LockInv

\* The other threads keep their part of the invariant.
LEMMA OtherThreads ==
    ASSUME TypeOK, TypeOK', ThreadsInv, LockInv, UNCHANGED gpuVars, NEW t \in Threads,
           \A u \in Threads \ {t} : pc'[u] = pc[u] /\ frame'[u] = frame[u],
           completed_value' >= completed_value,
           completed_value' # completed_value => m_lock = t
    PROVE  \A u \in Threads \ {t} : ThreadInv(u)'
<1> SUFFICES ASSUME NEW u \in Threads \ {t} PROVE ThreadInv(u)' OBVIOUS
<1>1. executed \in Nat /\ executed' = executed /\ Begun' = Begun /\ Begun \in Nat
  BY BegunType DEF TypeOK, Begun, gpuVars
<1>2. pc[u] \in Locked => completed_value' = completed_value BY DEF LockInv
<1>3. ThreadInv(u) BY DEF ThreadsInv
<1> QED BY <1>1, <1>2, <1>3, ThreadStable

\* What the locals of a thread are.
LEMMA FrameParts ==
    ASSUME TypeOK, NEW t \in Threads
    PROVE  /\ frame[t] \in Frames /\ pc[t] \in PcStates
           /\ frame[t].tries_left \in Nat /\ frame[t].floor \in Nat
           /\ frame[t].completed \in Nat /\ frame[t].gpu_notifier \in Word
BY DEF TypeOK, Frames

\* The counts and what bounds them.
LEMMA Counts ==
    ASSUME TypeOK, WindowInv
    PROVE  /\ executed \in Nat /\ completed_value \in Nat /\ retired \in Nat
           /\ queued_value \in Nat /\ Begun \in Nat
           /\ completed_value <= executed /\ executed <= queued_value
           /\ executed < completed_value + NumGpfifoEntries
           /\ queued_value < completed_value + NumGpfifoEntries
           /\ executed <= Begun /\ Begun <= executed + 1
BY BegunType, Sizes DEF TypeOK, WindowInv

LEMMA StartInv == ASSUME Inv, NEW t \in Threads, Start(t) PROVE Inv'
<1>1. TypeOK /\ GpuInv /\ WindowInv /\ LockInv /\ ObservedInv /\ ThreadsInv /\ ~fatal_error
  BY DEF Inv, CpuInv
<1>2. /\ pc[t] = "idle" /\ pc' = [pc EXCEPT ![t] = "lock"]
      /\ UNCHANGED <<pushVars, gpuVars, cpuVars, frame>>
  BY DEF Start, Goto
<1>3. TypeOK' BY <1>1, <1>2 DEF TypeOK, PcStates, pushVars, gpuVars, cpuVars
<1>4. GpuInv' BY <1>1, <1>2, GpuStable
<1>5. pc'[t] = "lock" /\ \A u \in Threads \ {t} : pc'[u] = pc[u] BY <1>1, <1>2 DEF TypeOK
<1>6. WindowInv' BY <1>1, <1>2 DEF WindowInv, pushVars, gpuVars, cpuVars
<1>7. LockInv' BY <1>1, <1>2, <1>5 DEF LockInv, Locked, SecureStates, pushVars, cpuVars
<1>8. ObservedInv'
  BY <1>1, <1>2, <1>5 DEF ObservedInv, Observed, pushVars, gpuVars, cpuVars
<1>9. ThreadsInv'
  <2>1. \A u \in Threads \ {t} : ThreadInv(u)'
    BY <1>1, <1>2, <1>3, <1>5, Counts, OtherThreads DEF cpuVars
  <2>2. ThreadInv(t)' BY <1>5 DEF ThreadInv, Locked, SecureStates
  <2> QED BY <2>1, <2>2 DEF ThreadsInv
<1> QED BY <1>1, <1>2, <1>3, <1>4, <1>6, <1>7, <1>8, <1>9 DEF Inv, CpuInv, cpuVars

LEMMA LockStepInv == ASSUME Inv, NEW t \in Threads, Lock(t) PROVE Inv'
<1>1. TypeOK /\ GpuInv /\ WindowInv /\ LockInv /\ ObservedInv /\ ThreadsInv /\ ~fatal_error
  BY DEF Inv, CpuInv
<1> DEFINE state == IF secure THEN "notifier" ELSE "value"
           f == [NoFrame EXCEPT !.tries_left = NumGpfifoEntries, !.floor = executed]
<1>2. /\ pc[t] = "lock" /\ m_lock = None /\ m_lock' = t
      /\ pc' = [pc EXCEPT ![t] = state] /\ frame' = [frame EXCEPT ![t] = f]
      /\ UNCHANGED <<pushVars, gpuVars, cached_payload, last_observed_notifier,
                     completed_value, retired, fatal_error>>
  BY DEF Lock, Goto
<1>3. f \in Frames /\ f.tries_left = NumGpfifoEntries /\ f.floor = executed
  BY <1>1, Sizes, NoFrameType, Counts DEF NoFrame, Frames
<1>4. state \in {"notifier", "value"} /\ (state = "notifier" <=> secure)
  BY <1>1 DEF TypeOK
<1> HIDE DEF state, f
<1>5. TypeOK'
  BY <1>1, <1>2, <1>3, <1>4 DEF TypeOK, PcStates, pushVars, gpuVars
<1>6. GpuInv' BY <1>1, <1>2, GpuStable
<1>7. /\ pc'[t] = state /\ frame'[t] = f
      /\ \A u \in Threads \ {t} : pc'[u] = pc[u] /\ frame'[u] = frame[u]
  BY <1>1, <1>2 DEF TypeOK
<1>8. \A u \in Threads : pc[u] \notin Locked
  BY <1>1, <1>2, ThreadAssumption DEF LockInv
<1>9. WindowInv' BY <1>1, <1>2 DEF WindowInv, pushVars, gpuVars
<1>10. LockInv'
  BY <1>2, <1>4, <1>7, <1>8 DEF LockInv, Locked, SecureStates, pushVars
<1>11. ObservedInv'
  BY <1>1, <1>2, <1>4, <1>7, <1>8 DEF ObservedInv, Observed, Locked, pushVars, gpuVars
<1>12. ThreadsInv'
  <2>1. \A u \in Threads \ {t} : ThreadInv(u)'
    BY <1>1, <1>2, <1>5, <1>7, Counts, OtherThreads
  <2>2. executed' = executed /\ executed \in Nat BY <1>1, <1>2, Counts DEF gpuVars
  <2>3. ThreadInv(t)'
    BY <1>3, <1>4, <1>7, <2>2, Sizes DEF ThreadInv, Locked, SecureStates
  <2> QED BY <2>1, <2>3 DEF ThreadsInv
<1> QED BY <1>1, <1>2, <1>5, <1>6, <1>9, <1>10, <1>11, <1>12 DEF Inv, CpuInv

\* The notifier as a count: even when no copy is being published.
LEMMA NotifierParity ==
    ASSUME TypeOK, GpuInv, WindowInv, secure, notifier % 2 = 0
    PROVE  Begun = executed /\ notifier = (2 * executed) % Modulus
<1>1. notifier = (executed + Begun) % Modulus BY DEF GpuInv, PublishedInv
<1>2. executed \in Nat /\ Begun \in Nat BY Counts
<1>3. (executed + Begun) % 2 = 0 BY <1>1, <1>2, ModParity
<1>4. Begun = executed \/ Begun = executed + 1 BY DEF Begun
<1>5. Begun = executed BY <1>2, <1>3, <1>4
<1>6. executed + Begun = 2 * executed BY <1>2, <1>5
<1> QED BY <1>1, <1>5, <1>6

\* Notifiers of the window are equal only if they are of the same push.
LEMMA SameNotifier ==
    ASSUME NEW a \in Nat, NEW b \in Nat, NEW c \in Nat, 2 * a <= b,
           b <= 2 * c + 1, c < a + NumGpfifoEntries, (2 * a) % Modulus = b % Modulus
    PROVE  b = 2 * a
<1>1. 2 * a \in Nat /\ b < 2 * a + Modulus BY Sizes
<1> QED BY <1>1, Sizes, SameMod

LEMMA ReadNotifierInv == ASSUME Inv, NEW t \in Threads, ReadNotifier(t) PROVE Inv'
<1>1. TypeOK /\ GpuInv /\ WindowInv /\ LockInv /\ ObservedInv /\ ThreadsInv /\ ~fatal_error
  BY DEF Inv, CpuInv
<1> DEFINE state == IF notifier = last_observed_notifier THEN "value" ELSE "auth_tag"
<1>2. /\ pc[t] = "notifier" /\ notifier % 2 = 0
      /\ pc' = [pc EXCEPT ![t] = state]
      /\ frame' = [frame EXCEPT ![t].gpu_notifier = notifier]
      /\ UNCHANGED <<pushVars, gpuVars, cpuVars>>
  BY DEF ReadNotifier, Goto
<1>3. secure /\ pc[t] \in Locked
  BY <1>1, <1>2 DEF LockInv, SecureStates, Locked
<1>4. Begun = executed /\ notifier = (2 * executed) % Modulus
  BY <1>1, <1>2, <1>3, NotifierParity
<1>5. m_lock = t /\ \A u \in Threads \ {t} : pc[u] \notin Locked BY <1>1, <1>3, Holder
<1>6. Observed(completed_value)
  BY <1>1, <1>2, <1>3, <1>5 DEF ObservedInv, Locked
<1>7. /\ state \in {"value", "auth_tag"}
      /\ state = "value" => executed = completed_value
      /\ state = "auth_tag" => executed > completed_value
  <2>1. executed = completed_value => notifier = last_observed_notifier
    BY <1>4, <1>6 DEF Observed
  <2>2. notifier = last_observed_notifier => executed = completed_value
    <3> SUFFICES ASSUME notifier = last_observed_notifier PROVE executed = completed_value
      OBVIOUS
    <3>1. (2 * completed_value) % Modulus = (2 * executed) % Modulus
      BY <1>4, <1>6 DEF Observed
    <3>2. 2 * executed = 2 * completed_value
      BY <1>1, <3>1, Counts, Sizes, SameNotifier
    <3> QED BY <1>1, <3>2, Counts
  <2> QED BY <1>1, <2>1, <2>2, Counts
<1> HIDE DEF state
<1>8. TypeOK'
  <2>1. [frame[t] EXCEPT !.gpu_notifier = notifier] \in Frames
    BY <1>1, FrameParts DEF Frames, TypeOK
  <2> QED BY <1>1, <1>2, <1>7, <2>1 DEF TypeOK, PcStates, pushVars, gpuVars, cpuVars
<1>9. GpuInv' BY <1>1, <1>2, GpuStable
<1>10. /\ pc'[t] = state
       /\ frame'[t].gpu_notifier = notifier
       /\ frame'[t].floor = frame[t].floor /\ frame'[t].tries_left = frame[t].tries_left
       /\ \A u \in Threads \ {t} : pc'[u] = pc[u] /\ frame'[u] = frame[u]
  BY <1>1, <1>2 DEF TypeOK, Frames
<1>11. WindowInv' BY <1>1, <1>2 DEF WindowInv, pushVars, gpuVars, cpuVars
<1>12. LockInv'
  BY <1>1, <1>2, <1>3, <1>5, <1>7, <1>10 DEF LockInv, Locked, SecureStates, pushVars, cpuVars
<1>13. frame[t].floor <= executed BY <1>1, <1>3 DEF ThreadsInv, ThreadInv
<1>14. ObservedInv'
  <2>1. Observed(completed_value)' BY <1>2, <1>6 DEF Observed, cpuVars
  <2>2. \A u \in Threads \ {t} : pc'[u] # "value" BY <1>5, <1>10 DEF Locked
  <2>3. pc'[t] = "value" => completed_value' \in completed_value' .. executed'
                            /\ completed_value' >= frame'[t].floor
    BY <1>1, <1>2, <1>7, <1>10, <1>13, Counts, FrameParts DEF gpuVars, cpuVars
  <2> QED BY <2>1, <2>2, <2>3 DEF ObservedInv, Observed
<1>15. ThreadsInv'
  <2>1. \A u \in Threads \ {t} : ThreadInv(u)'
    BY <1>1, <1>2, <1>8, <1>10, Counts, OtherThreads DEF cpuVars
  <2> SUFFICES ThreadInv(t)' BY <2>1 DEF ThreadsInv
  <2>2. /\ executed' = executed /\ executed \in Nat /\ frame[t].floor \in Nat
        /\ frame[t].tries_left \in Nat
        /\ completed_value' = completed_value /\ completed_value \in Nat
    BY <1>1, <1>2, Counts, FrameParts DEF gpuVars, cpuVars
  <2>3. CASE state = "value"
    BY <1>10, <1>13, <2>2, <2>3 DEF ThreadInv, Locked, SecureStates
  <2>4. CASE state = "auth_tag"
    <3>1. /\ frame[t].tries_left >= 1
          /\ \/ frame[t].tries_left = NumGpfifoEntries
             \/ Begun >= completed_value + NumGpfifoEntries + 1 - frame[t].tries_left
      BY <1>1, <1>2 DEF ThreadsInv, ThreadInv
    <3>2. executed >= completed_value + NumGpfifoEntries + 1 - frame[t].tries_left
      BY <1>4, <1>7, <2>2, <2>4, <3>1, Sizes
    <3>3. ReadAt(t, executed)'
      BY <1>4, <1>7, <1>10, <2>2, <2>4, <3>1, <3>2 DEF ReadAt
    <3>4. executed' \in frame'[t].floor .. executed' BY <1>10, <1>13, <2>2
    <3> QED BY <1>10, <1>13, <2>2, <2>4, <3>3, <3>4 DEF ThreadInv, Locked, SecureStates
  <2> QED BY <1>7, <2>3, <2>4
<1> QED BY <1>1, <1>2, <1>8, <1>9, <1>11, <1>12, <1>14, <1>15 DEF Inv, CpuInv, cpuVars

\* A step of the thread that holds the lock which leaves its floor and what all of
\* them share: only its own locals and control state are to be looked at.
LEMMA HolderStep ==
    ASSUME Inv, TypeOK', NEW t \in Threads, pc[t] \in SecureStates,
           pc'[t] \in SecureStates, UNCHANGED <<pushVars, gpuVars, cpuVars>>,
           \A u \in Threads \ {t} : pc'[u] = pc[u] /\ frame'[u] = frame[u],
           ThreadInv(t)'
    PROVE  Inv'
<1>1. TypeOK /\ GpuInv /\ WindowInv /\ LockInv /\ ObservedInv /\ ThreadsInv /\ ~fatal_error
  BY DEF Inv, CpuInv
<1>2. GpuInv' BY <1>1, GpuStable
<1>3. m_lock = t /\ secure /\ \A u \in Threads \ {t} : pc[u] \notin Locked
  BY <1>1, Holder DEF Locked, LockInv
<1>4. WindowInv' BY <1>1 DEF WindowInv, pushVars, gpuVars, cpuVars
<1>5. LockInv' BY <1>1, <1>3 DEF LockInv, Locked, pushVars, cpuVars
<1>6. ObservedInv'
  <2>1. \A u \in Threads : pc[u] # "value" /\ pc'[u] # "value"
    BY <1>3 DEF Locked, SecureStates
  <2> QED BY <1>1, <2>1 DEF ObservedInv, Observed, pushVars, cpuVars
<1>7. ThreadsInv'
  <2>1. \A u \in Threads \ {t} : ThreadInv(u)' BY <1>1, Counts, OtherThreads DEF cpuVars
  <2> QED BY <2>1 DEF ThreadsInv
<1> QED BY <1>1, <1>2, <1>4, <1>5, <1>6, <1>7 DEF Inv, CpuInv, cpuVars

\* The part of the copy that a thread reads now is of the push whose notifier it has
\* read, or of a later one that has begun.
LEMMA PartOfCopy ==
    ASSUME TypeOK, GpuInv, WindowInv, secure, NEW n \in Nat, n <= executed,
           NEW copy, copy = auth_tag \/ copy = encrypted_payload
    PROVE  copy \in Encrypted /\ copy.iv \in n .. Begun /\ copy = Copy(copy.iv)
<1>1. executed \in Nat /\ Begun \in Nat /\ executed <= Begun BY Counts
<1>2. written # {} => Begun = executed + 1 BY DEF GpuInv, PushesInv, Begun
<1>3. PICK k \in {executed, executed + 1} : copy = Copy(k) /\ (k = executed + 1 => written # {})
  <2>1. auth_tag = Copy(IF "auth_tag" \in written THEN executed + 1 ELSE executed)
    BY DEF GpuInv, PublishedInv
  <2>2. encrypted_payload = Copy(IF "payload" \in written THEN executed + 1 ELSE executed)
    BY DEF GpuInv, PublishedInv
  <2>3. executed # executed + 1 BY <1>1
  <2>4. CASE copy = auth_tag
    <3>1. CASE "auth_tag" \in written BY <2>1, <2>4, <3>1
    <3>2. CASE "auth_tag" \notin written BY <2>1, <2>3, <2>4, <3>2
    <3> QED BY <3>1, <3>2
  <2>5. CASE copy = encrypted_payload
    <3>1. CASE "payload" \in written BY <2>2, <2>5, <3>1
    <3>2. CASE "payload" \notin written BY <2>2, <2>3, <2>5, <3>2
    <3> QED BY <3>1, <3>2
  <2> QED BY <2>4, <2>5
<1>4. Copy(k).iv = k /\ k \in n .. Begun BY <1>1, <1>2, <1>3 DEF Copy
<1> QED BY <1>1, <1>3, <1>4, CopyType

LEMMA ReadAuthTagInv == ASSUME Inv, NEW t \in Threads, ReadAuthTag(t) PROVE Inv'
<1>1. TypeOK /\ GpuInv /\ WindowInv /\ LockInv /\ ThreadsInv BY DEF Inv, CpuInv
<1>2. /\ pc[t] = "auth_tag" /\ pc' = [pc EXCEPT ![t] = "payload"]
      /\ frame' = [frame EXCEPT ![t].local_auth_tag = auth_tag]
      /\ UNCHANGED <<pushVars, gpuVars, cpuVars>>
  BY DEF ReadAuthTag, Goto
<1>3. secure BY <1>1, <1>2 DEF LockInv, SecureStates
<1>4. PICK n \in frame[t].floor .. executed : ReadAt(t, n)
  BY <1>1, <1>2 DEF ThreadsInv, ThreadInv, SecureStates
<1>5. n \in Nat /\ n <= executed BY <1>1, <1>4, FrameParts, Counts
<1>6. auth_tag \in Encrypted /\ auth_tag.iv \in n .. Begun /\ auth_tag = Copy(auth_tag.iv)
  BY <1>1, <1>3, <1>5, PartOfCopy
<1>7. TypeOK'
  <2>1. [frame[t] EXCEPT !.local_auth_tag = auth_tag] \in Frames
    BY <1>1, <1>6, FrameParts DEF Frames
  <2> QED BY <1>1, <1>2, <2>1 DEF TypeOK, PcStates, pushVars, gpuVars, cpuVars
<1>8. /\ pc'[t] = "payload" /\ frame'[t].local_auth_tag = auth_tag
      /\ frame'[t].floor = frame[t].floor /\ frame'[t].tries_left = frame[t].tries_left
      /\ frame'[t].gpu_notifier = frame[t].gpu_notifier
      /\ \A u \in Threads \ {t} : pc'[u] = pc[u] /\ frame'[u] = frame[u]
  BY <1>1, <1>2 DEF TypeOK, Frames
<1>9. /\ executed' = executed /\ Begun' = Begun /\ completed_value' = completed_value
  BY <1>2 DEF Begun, gpuVars, cpuVars
<1>10. ReadAt(t, n)' BY <1>2, <1>4, <1>6, <1>8, <1>9 DEF ReadAt, Copy
<1>11. ThreadInv(t)'
  <2>1. frame[t].floor <= executed BY <1>1, <1>2 DEF ThreadsInv, ThreadInv, Locked, SecureStates
  <2> QED BY <1>4, <1>8, <1>9, <1>10, <2>1 DEF ThreadInv, Locked, SecureStates
<1> QED BY <1>2, <1>7, <1>8, <1>11, HolderStep DEF SecureStates

LEMMA ReadPayloadInv == ASSUME Inv, NEW t \in Threads, ReadPayload(t) PROVE Inv'
<1>1. TypeOK /\ GpuInv /\ WindowInv /\ LockInv /\ ThreadsInv BY DEF Inv, CpuInv
<1>2. /\ pc[t] = "payload" /\ pc' = [pc EXCEPT ![t] = "notifier_again"]
      /\ frame' = [frame EXCEPT ![t].local_payload = encrypted_payload]
      /\ UNCHANGED <<pushVars, gpuVars, cpuVars>>
  BY DEF ReadPayload, Goto
<1>3. secure BY <1>1, <1>2 DEF LockInv, SecureStates
<1>4. PICK n \in frame[t].floor .. executed : ReadAt(t, n)
  BY <1>1, <1>2 DEF ThreadsInv, ThreadInv, SecureStates
<1>5. n \in Nat /\ n <= executed BY <1>1, <1>4, FrameParts, Counts
<1>6. /\ encrypted_payload \in Encrypted /\ encrypted_payload.iv \in n .. Begun
      /\ encrypted_payload = Copy(encrypted_payload.iv)
  BY <1>1, <1>3, <1>5, PartOfCopy
<1>7. TypeOK'
  <2>1. [frame[t] EXCEPT !.local_payload = encrypted_payload] \in Frames
    BY <1>1, <1>6, FrameParts DEF Frames
  <2> QED BY <1>1, <1>2, <2>1 DEF TypeOK, PcStates, pushVars, gpuVars, cpuVars
<1>8. /\ pc'[t] = "notifier_again" /\ frame'[t].local_payload = encrypted_payload
      /\ frame'[t].local_auth_tag = frame[t].local_auth_tag
      /\ frame'[t].floor = frame[t].floor /\ frame'[t].tries_left = frame[t].tries_left
      /\ frame'[t].gpu_notifier = frame[t].gpu_notifier
      /\ \A u \in Threads \ {t} : pc'[u] = pc[u] /\ frame'[u] = frame[u]
  BY <1>1, <1>2 DEF TypeOK, Frames
<1>9. /\ executed' = executed /\ Begun' = Begun /\ completed_value' = completed_value
  BY <1>2 DEF Begun, gpuVars, cpuVars
<1>10. ReadAt(t, n)' BY <1>2, <1>4, <1>6, <1>8, <1>9 DEF ReadAt, Copy
<1>11. ThreadInv(t)'
  <2>1. frame[t].floor <= executed BY <1>1, <1>2 DEF ThreadsInv, ThreadInv, Locked, SecureStates
  <2> QED BY <1>4, <1>8, <1>9, <1>10, <2>1 DEF ThreadInv, Locked, SecureStates
<1> QED BY <1>2, <1>7, <1>8, <1>11, HolderStep DEF SecureStates

\* An unchanged notifier means that nothing was published in between; a changed one
\* that the GPU has moved on; and the tries outlast the window.
LEMMA RereadNotifierInv == ASSUME Inv, NEW t \in Threads, RereadNotifier(t) PROVE Inv'
<1>1. TypeOK /\ GpuInv /\ WindowInv /\ LockInv /\ ThreadsInv BY DEF Inv, CpuInv
<1> DEFINE left == frame[t].tries_left - 1
           same == notifier = frame[t].gpu_notifier
<1>2. pc[t] = "notifier_again" /\ frame' = [frame EXCEPT ![t].tries_left = left]
  BY DEF RereadNotifier
<1>3. secure BY <1>1, <1>2 DEF LockInv, SecureStates
<1>4. PICK n \in frame[t].floor .. executed : ReadAt(t, n)
  BY <1>1, <1>2 DEF ThreadsInv, ThreadInv, SecureStates
<1>5. /\ n \in Nat /\ n <= executed /\ frame[t].floor \in Nat
      /\ frame[t].tries_left \in Nat /\ left \in Int
      /\ executed \in Nat /\ Begun \in Nat /\ completed_value \in Nat
      /\ n > completed_value /\ executed < completed_value + NumGpfifoEntries
      /\ executed <= Begun /\ Begun <= executed + 1
  BY <1>1, <1>4, FrameParts, Counts DEF ReadAt
<1>6. /\ frame[t].tries_left >= 1
      /\ n >= completed_value + NumGpfifoEntries + 1 - frame[t].tries_left
      /\ frame[t].local_auth_tag.iv \in n .. Begun
      /\ frame[t].local_auth_tag = Copy(frame[t].local_auth_tag.iv)
      /\ frame[t].local_payload.iv \in n .. Begun
      /\ frame[t].local_payload = Copy(frame[t].local_payload.iv)
      /\ frame[t].gpu_notifier = (2 * n) % Modulus
  BY <1>2, <1>4 DEF ReadAt
<1>7. left > 0 /\ left \in Nat BY <1>5, <1>6, Sizes
<1>8. notifier = (executed + Begun) % Modulus BY <1>1, <1>3 DEF GpuInv, PublishedInv
<1>9. same => Begun = n
  <2> SUFFICES ASSUME same PROVE Begun = n OBVIOUS
  <2>1. executed + Begun = 2 * n
    <3>1. (2 * n) % Modulus = (executed + Begun) % Modulus BY <1>6, <1>8
    <3>2. /\ executed + Begun \in Nat /\ 2 * n <= executed + Begun
          /\ executed + Begun <= 2 * executed + 1 /\ executed < n + NumGpfifoEntries
      BY <1>5, Sizes
    <3> QED BY <1>5, <3>1, <3>2, SameNotifier
  <2> QED BY <1>5, <2>1
<1>10. ~same => Begun >= n + 1
  <2>1. Begun = n => executed + Begun = 2 * n BY <1>5
  <2>2. Begun = n => same BY <1>6, <1>8, <2>1
  <2> QED BY <1>5, <2>2
<1>11. /\ \/ ~same /\ pc' = [pc EXCEPT ![t] = "notifier"]
          \/ same /\ pc' = [pc EXCEPT ![t] = "decrypt"]
       /\ UNCHANGED fatal_error
  BY <1>7 DEF RereadNotifier, Goto
<1>12. UNCHANGED <<pushVars, gpuVars, cpuVars>>
  BY <1>11 DEF RereadNotifier, cpuVars
<1> HIDE DEF same, left
<1>13. TypeOK'
  <2>1. [frame[t] EXCEPT !.tries_left = left] \in Frames
    BY <1>1, <1>7, FrameParts DEF Frames
  <2> QED BY <1>1, <1>2, <1>11, <1>12, <2>1 DEF TypeOK, PcStates, pushVars, gpuVars, cpuVars
<1>14. /\ frame'[t].tries_left = left
       /\ frame'[t].local_payload = frame[t].local_payload
       /\ frame'[t].local_auth_tag = frame[t].local_auth_tag
       /\ frame'[t].floor = frame[t].floor
       /\ frame'[t].gpu_notifier = frame[t].gpu_notifier
       /\ \A u \in Threads \ {t} : pc'[u] = pc[u] /\ frame'[u] = frame[u]
  BY <1>1, <1>2, <1>11 DEF TypeOK, Frames
<1>15. /\ executed' = executed /\ Begun' = Begun /\ completed_value' = completed_value
  BY <1>12 DEF Begun, gpuVars, cpuVars
<1>16. frame[t].floor <= executed BY <1>1, <1>2 DEF ThreadsInv, ThreadInv, Locked, SecureStates
<1>17. CASE ~same
  <2>1. pc'[t] = "notifier" BY <1>1, <1>11, <1>17 DEF TypeOK
  <2>2. Begun >= completed_value + NumGpfifoEntries + 1 - left
    BY <1>5, <1>6, <1>10, <1>17, Sizes DEF left
  <2>3. ThreadInv(t)'
    BY <1>7, <1>14, <1>15, <1>16, <2>1, <2>2 DEF ThreadInv, Locked, SecureStates
  <2> QED BY <1>2, <1>12, <1>13, <1>14, <2>1, <2>3, HolderStep DEF SecureStates
<1>18. CASE same
  <2>1. pc'[t] = "decrypt" BY <1>1, <1>11, <1>18 DEF TypeOK
  <2>2. frame[t].local_auth_tag.iv = n /\ frame[t].local_payload.iv = n
    BY <1>5, <1>6, <1>9, <1>18
  <2>3. frame[t].local_auth_tag = Copy(n) /\ frame[t].local_payload = Copy(n)
    BY <1>6, <2>2
  <2>4. ReadAt(t, n)' BY <1>4, <1>5, <1>6, <1>14, <1>15, <2>1, <2>3 DEF ReadAt, Copy
  <2>5. ThreadInv(t)'
    BY <1>4, <1>14, <1>15, <1>16, <2>1, <2>4 DEF ThreadInv, Locked, SecureStates
  <2> QED BY <1>2, <1>12, <1>13, <1>14, <2>1, <2>5, HolderStep DEF SecureStates
<1> QED BY <1>17, <1>18

\* The IV of the copy is still in its slot: its push is in the window.
LEMMA DecryptInv == ASSUME Inv, NEW t \in Threads, Decrypt(t) PROVE Inv'
<1>1. TypeOK /\ GpuInv /\ WindowInv /\ LockInv /\ ThreadsInv /\ ~fatal_error
  BY DEF Inv, CpuInv
<1>2. /\ pc[t] = "decrypt" /\ pc' = [pc EXCEPT ![t] = "value"]
      /\ UNCHANGED <<pushVars, gpuVars, completed_value, retired, m_lock, frame>>
  BY DEF Decrypt, Goto
<1>3. secure BY <1>1, <1>2 DEF LockInv, SecureStates
<1>4. PICK n \in frame[t].floor .. executed : ReadAt(t, n)
  BY <1>1, <1>2 DEF ThreadsInv, ThreadInv, SecureStates
<1>5. /\ n \in Nat /\ n <= executed /\ n > completed_value
      /\ frame[t].gpu_notifier = (2 * n) % Modulus
      /\ frame[t].local_auth_tag = Copy(n) /\ frame[t].local_payload = Copy(n)
      /\ frame[t].floor \in Nat /\ n >= frame[t].floor
  BY <1>1, <1>2, <1>4, FrameParts, Counts DEF ReadAt
<1>6. Authentic(frame[t])
  <2>1. queued_value - NumGpfifoEntries < n /\ n <= queued_value
    BY <1>1, <1>5, Counts, Sizes
  <2>2. ivs[n % NumGpfifoEntries] = n BY <1>1, <1>3, <1>5, <2>1 DEF GpuInv, IvsInv
  <2>3. IvIndex(frame[t].gpu_notifier) = n % NumGpfifoEntries BY <1>5, IvIndexOfPush
  <2> QED BY <1>5, <2>2, <2>3 DEF Authentic, Copy
<1>7. /\ cached_payload' = n % Modulus /\ last_observed_notifier' = (2 * n) % Modulus
      /\ fatal_error' = fatal_error
  BY <1>5, <1>6 DEF Decrypt, Copy
<1>8. TypeOK'
  <2>1. cached_payload' \in Word /\ last_observed_notifier' \in Word
    <3>1. 2 * n \in Nat BY <1>5
    <3> QED BY <1>5, <1>7, <3>1, WordMod
  <2> QED BY <1>1, <1>2, <1>7, <2>1 DEF TypeOK, PcStates, pushVars, gpuVars
<1>9. pc'[t] = "value" /\ \A u \in Threads \ {t} : pc'[u] = pc[u] BY <1>1, <1>2 DEF TypeOK
<1>10. m_lock = t /\ \A u \in Threads \ {t} : pc[u] \notin Locked
  BY <1>1, <1>2, Holder DEF Locked, SecureStates
<1>11. GpuInv' BY <1>1, <1>2, GpuStable
<1>12. WindowInv' BY <1>1, <1>2 DEF WindowInv, pushVars, gpuVars
<1>13. LockInv' BY <1>1, <1>2, <1>9, <1>10 DEF LockInv, Locked, SecureStates, pushVars
<1>14. ObservedInv'
  <2>1. Observed(n)' BY <1>7 DEF Observed
  <2>2. n \in completed_value' .. executed' /\ n >= frame'[t].floor
    BY <1>1, <1>2, <1>5, Counts DEF gpuVars
  <2>3. \A u \in Threads : pc'[u] = "value" => u = t BY <1>9, <1>10 DEF Locked
  <2> QED BY <1>9, <2>1, <2>2, <2>3 DEF ObservedInv
<1>15. ThreadsInv'
  <2>1. \A u \in Threads \ {t} : ThreadInv(u)'
    BY <1>1, <1>2, <1>8, <1>9, Counts, OtherThreads
  <2>2. frame[t].floor <= executed BY <1>1, <1>5, Counts
  <2>3. ThreadInv(t)'
    BY <1>2, <1>9, <2>2 DEF ThreadInv, Locked, SecureStates, gpuVars
  <2> QED BY <2>1, <2>3 DEF ThreadsInv
<1> QED BY <1>1, <1>7, <1>8, <1>11, <1>12, <1>13, <1>14, <1>15 DEF Inv, CpuInv

\* What UpdateCompletedValue() computes: a count that the GPU has reached, not below
\* the floor of the call.
LEMMA UpdatedValue ==
    ASSUME Inv, NEW t \in Threads, pc[t] = "value"
    PROVE  \E n \in completed_value .. executed :
              /\ n >= frame[t].floor
              /\ Extend(completed_value, IF secure THEN cached_payload ELSE payload) = n
              /\ secure => Observed(n)
<1>1. TypeOK /\ GpuInv /\ WindowInv /\ ObservedInv /\ ThreadsInv BY DEF Inv, CpuInv
<1>2. /\ executed \in Nat /\ completed_value \in Nat /\ completed_value <= executed
      /\ executed < completed_value + Modulus
  BY <1>1, Counts, Sizes
<1>3. CASE secure
  <2>1. PICK n \in completed_value .. executed : n >= frame[t].floor /\ Observed(n)
    BY <1>1, <1>3 DEF ObservedInv
  <2>2. n \in Nat /\ completed_value <= n /\ n < completed_value + Modulus
    BY <1>2, <2>1, Sizes
  <2>3. Extend(completed_value, n % Modulus) = n BY <1>2, <2>2, ExtendIsExact
  <2> QED BY <1>3, <2>1, <2>3 DEF Observed
<1>4. CASE ~secure
  <2>1. payload = executed % Modulus BY <1>1, <1>4 DEF GpuInv, PushesInv
  <2>2. Extend(completed_value, payload) = executed BY <1>2, <2>1, ExtendIsExact
  <2>3. frame[t].floor <= executed BY <1>1 DEF ThreadsInv, ThreadInv, Locked
  <2>4. executed >= frame[t].floor BY <1>1, <1>2, <2>3, FrameParts
  <2> QED BY <1>2, <1>4, <2>2, <2>4
<1> QED BY <1>3, <1>4

LEMMA UpdateCompletedValueInv ==
    ASSUME Inv, NEW t \in Threads, UpdateCompletedValue(t)
    PROVE  Inv' /\ completed_value' \in completed_value .. executed
<1>1. TypeOK /\ GpuInv /\ WindowInv /\ LockInv /\ ObservedInv /\ ThreadsInv /\ ~fatal_error
  BY DEF Inv, CpuInv
<1>2. /\ pc[t] = "value" /\ m_lock' = None
      /\ pc' = [pc EXCEPT ![t] = "retire"]
      /\ UNCHANGED <<pushVars, gpuVars, cached_payload, last_observed_notifier, retired,
                     fatal_error>>
  BY DEF UpdateCompletedValue, Goto
<1>3. PICK n \in completed_value .. executed :
        /\ n >= frame[t].floor
        /\ Extend(completed_value, IF secure THEN cached_payload ELSE payload) = n
        /\ secure => Observed(n)
  BY <1>2, UpdatedValue
<1> DEFINE f == [NoFrame EXCEPT !.floor = frame[t].floor, !.completed = n]
<1>4. completed_value' = n /\ frame' = [frame EXCEPT ![t] = f]
  BY <1>3 DEF UpdateCompletedValue
<1>5. n \in Nat /\ frame[t].floor \in Nat /\ completed_value <= n /\ n <= executed
  BY <1>1, <1>3, Counts, FrameParts
<1>6. f \in Frames /\ f.floor = frame[t].floor /\ f.completed = n
  BY <1>5, NoFrameType DEF NoFrame, Frames
<1> HIDE DEF f
<1>7. TypeOK'
  BY <1>1, <1>2, <1>4, <1>5, <1>6 DEF TypeOK, PcStates, pushVars, gpuVars
<1>8. /\ pc'[t] = "retire" /\ frame'[t] = f
      /\ \A u \in Threads \ {t} : pc'[u] = pc[u] /\ frame'[u] = frame[u]
  BY <1>1, <1>2, <1>4 DEF TypeOK
<1>9. m_lock = t /\ \A u \in Threads \ {t} : pc[u] \notin Locked
  BY <1>1, <1>2, Holder DEF Locked
<1>10. GpuInv' BY <1>1, <1>2, GpuStable
<1>11. WindowInv'
  <2>1. retired <= n BY <1>1, <1>5, Counts DEF WindowInv
  <2> QED BY <1>1, <1>2, <1>4, <1>5, <2>1 DEF WindowInv, pushVars, gpuVars
<1>12. LockInv'
  BY <1>2, <1>8, <1>9, ThreadAssumption DEF LockInv, Locked, SecureStates, pushVars
<1>13. ObservedInv'
  <2>1. secure' => Observed(completed_value)'
    BY <1>2, <1>3, <1>4 DEF Observed, pushVars
  <2>2. \A u \in Threads : pc'[u] # "value" BY <1>8, <1>9 DEF Locked
  <2> QED BY <2>1, <2>2 DEF ObservedInv
<1>14. ThreadsInv'
  <2>1. \A u \in Threads \ {t} : ThreadInv(u)'
    BY <1>1, <1>2, <1>4, <1>5, <1>7, <1>8, <1>9, Counts, OtherThreads
  <2>2. ThreadInv(t)'
    BY <1>3, <1>4, <1>5, <1>6, <1>8 DEF ThreadInv, Locked, SecureStates
  <2> QED BY <2>1, <2>2 DEF ThreadsInv
<1> QED BY <1>1, <1>2, <1>3, <1>4, <1>7, <1>10, <1>11, <1>12, <1>13, <1>14 DEF Inv, CpuInv

\* A step outside the lock that at most gives back entries up to an observed value.
LEMMA LeaveInv ==
    ASSUME Inv, NEW t \in Threads, pc[t] = "retire", pc' = [pc EXCEPT ![t] = "idle"],
           frame' = [frame EXCEPT ![t] = NoFrame],
           retired' \in Nat, retired <= retired', retired' <= completed_value,
           UNCHANGED <<pushVars, gpuVars, cached_payload, last_observed_notifier,
                       completed_value, fatal_error, m_lock>>
    PROVE  Inv'
<1>1. TypeOK /\ GpuInv /\ WindowInv /\ LockInv /\ ObservedInv /\ ThreadsInv /\ ~fatal_error
  BY DEF Inv, CpuInv
<1>2. TypeOK' BY <1>1, NoFrameType DEF TypeOK, PcStates, pushVars, gpuVars
<1>3. GpuInv' BY <1>1, GpuStable
<1>4. pc'[t] = "idle" /\ \A u \in Threads \ {t} : pc'[u] = pc[u] /\ frame'[u] = frame[u]
  BY <1>1 DEF TypeOK
<1>5. WindowInv'
  <2>1. queued_value - retired' < NumGpfifoEntries
    BY <1>1, Counts, Sizes DEF WindowInv
  <2> QED BY <1>1, <2>1 DEF WindowInv, pushVars, gpuVars
<1>6. LockInv' BY <1>1, <1>4 DEF LockInv, Locked, SecureStates, pushVars
<1>7. ObservedInv' BY <1>1, <1>4 DEF ObservedInv, Observed, pushVars, gpuVars
<1>8. ThreadsInv'
  <2>1. \A u \in Threads \ {t} : ThreadInv(u)'
    BY <1>1, <1>2, <1>4, Counts, OtherThreads
  <2>2. ThreadInv(t)' BY <1>4 DEF ThreadInv, Locked, SecureStates
  <2> QED BY <2>1, <2>2 DEF ThreadsInv
<1> QED BY <1>1, <1>2, <1>3, <1>5, <1>6, <1>7, <1>8 DEF Inv, CpuInv

LEMMA RetireInv == ASSUME Inv, NEW t \in Threads, Retire(t) PROVE Inv'
<1>1. TypeOK /\ WindowInv /\ ThreadsInv BY DEF Inv, CpuInv
<1>2. /\ retired \in Nat /\ completed_value \in Nat /\ frame[t].completed \in Nat
      /\ retired <= completed_value /\ MaxToComplete \in Nat
  BY <1>1, Counts, FrameParts, ProgressAssumption DEF WindowInv
<1>3. pc[t] = "retire" BY DEF Retire
<1>4. frame[t].completed <= completed_value BY <1>1, <1>3 DEF ThreadsInv, ThreadInv
<1>5. retired' \in Nat /\ retired <= retired' /\ retired' <= completed_value
  BY <1>2, <1>4 DEF Retire
<1>6. /\ pc' = [pc EXCEPT ![t] = "idle"] /\ frame' = [frame EXCEPT ![t] = NoFrame]
      /\ UNCHANGED <<pushVars, gpuVars, cached_payload, last_observed_notifier,
                     completed_value, fatal_error, m_lock>>
  BY DEF Retire, Goto
<1> QED BY <1>3, <1>5, <1>6, LeaveInv

LEMMA CompareInv == ASSUME Inv, NEW t \in Threads, Compare(t) PROVE Inv'
<1>1. TypeOK /\ WindowInv BY DEF Inv, CpuInv
<1>2. retired \in Nat /\ retired <= completed_value BY <1>1, Counts DEF WindowInv
<1>3. /\ pc[t] = "retire" /\ pc' = [pc EXCEPT ![t] = "idle"]
      /\ frame' = [frame EXCEPT ![t] = NoFrame]
      /\ UNCHANGED <<pushVars, gpuVars, cpuVars>>
  BY DEF Compare, Goto
<1>4. /\ retired' = retired
      /\ UNCHANGED <<pushVars, gpuVars, cached_payload, last_observed_notifier,
                     completed_value, fatal_error, m_lock>>
  BY <1>3 DEF cpuVars
<1>5. retired' \in Nat /\ retired <= retired' /\ retired' <= completed_value
  BY <1>2, <1>4
<1> QED BY <1>3, <1>4, <1>5, LeaveInv

-----------------------------------------------------------------------------
(* The theorems.                                                           *)

LEMMA StutterInv == ASSUME Inv, UNCHANGED vars PROVE Inv'
<1>1. TypeOK /\ GpuInv /\ WindowInv /\ CpuInv BY DEF Inv, CpuInv
<1>2. UNCHANGED <<secure, cpuVars, pc, frame, pushVars, gpuVars>> BY DEF vars, pushVars
<1>3. TypeOK' BY <1>1, <1>2 DEF TypeOK, pushVars, gpuVars, cpuVars
<1>4. GpuInv' BY <1>1, <1>2, GpuStable
<1>5. WindowInv' BY <1>1, <1>2 DEF WindowInv, pushVars, gpuVars, cpuVars
<1>6. executed' >= executed /\ Begun' >= Begun
  BY <1>1, <1>2, Counts DEF Begun, gpuVars
<1>7. CpuInv' BY <1>1, <1>2, <1>3, <1>5, <1>6, CpuStable
<1> QED BY <1>3, <1>4, <1>7 DEF Inv

LEMMA NextInv == ASSUME Inv, [Next]_vars PROVE Inv'
<1>1. CASE EndPush BY <1>1, EndPushInv
<1>2. CASE Gpu
  BY <1>2, GpuReleaseInv, GpuEntryNotifierInv, GpuEncryptInv, GpuExitNotifierInv DEF Gpu
<1>3. CASE GpuFault BY <1>3, GpuFaultInv
<1>4. CASE \E t \in Threads : Start(t) \/ Step(t)
  BY <1>4, StartInv, LockStepInv, ReadNotifierInv, ReadAuthTagInv, ReadPayloadInv,
     RereadNotifierInv, DecryptInv, UpdateCompletedValueInv, RetireInv, CompareInv DEF Step
<1>5. CASE UNCHANGED vars BY <1>5, StutterInv
<1> QED BY <1>1, <1>2, <1>3, <1>4, <1>5 DEF Next

LEMMA InvAlways == Spec => []Inv
BY InitInv, NextInv, PTL DEF Spec

\* update_completed_value_locked(): for every ring size and every range of the
\* payload, the completed value is never ahead of the GPU, is behind it by less than
\* the ring is long, and no entry is given back for a push that has not executed.
THEOREM CompletedCorrect == Spec => []CompletedIsExecuted
<1>1. Inv => CompletedIsExecuted
  BY Counts, Sizes DEF Inv, CpuInv, WindowInv, CompletedIsExecuted
<1> QED BY <1>1, InvAlways, PTL

\* gpu_semaphore_encrypted_payload_update(): however pushes, the GPU and the readers
\* interleave, a copy that passes the notifier check decrypts with the IV in its
\* slot, and num_gpfifo_entries tries are enough: no fatal error is raised.
THEOREM TamperingCorrect == Spec => []NoFalseTampering
<1>1. Inv => NoFalseTampering BY DEF Inv, CpuInv, NoFalseTampering
<1> QED BY <1>1, InvAlways, PTL

\* A call of uvm_gpu_tracking_semaphore_update_completed_value() returns a value that
\* covers every push visible when it took the lock.
THEOREM FreshnessCorrect == Spec => []UpdateIsFresh
<1>1. Inv => UpdateIsFresh
  <2> SUFFICES ASSUME Inv, NEW t \in Threads, pc[t] = "retire"
               PROVE  frame[t].completed >= frame[t].floor
    BY DEF UpdateIsFresh
  <2>1. frame[t].floor <= frame[t].completed BY DEF Inv, CpuInv, ThreadsInv, ThreadInv
  <2> QED BY <2>1, FrameParts DEF Inv
<1> QED BY <1>1, InvAlways, PTL

\* Every step of the semaphore is a step of the abstract counter or changes nothing
\* of it.
LEMMA CounterStep == ASSUME Inv, [Next]_vars PROVE [Counter!Next]_(Counter!vars)
<1> USE DEF Counter!Next, Counter!vars
<1>1. TypeOK /\ PushesInv /\ WindowInv BY DEF Inv, GpuInv, CpuInv
<1>2. executed \in Nat /\ completed_value \in Nat /\ queued_value \in Nat BY <1>1, Counts
<1>3. CASE EndPush BY <1>3 DEF EndPush, Counter!Queue, cpuVars
<1>4. pushes # <<>> => executed < queued_value
  BY <1>1, <1>2, HeadTail DEF PushesInv
<1>5. CASE GpuRelease
  BY <1>4, <1>5 DEF GpuRelease, GpuReady, Counter!Execute, pushVars, cpuVars
<1>6. CASE GpuExitNotifier
  BY <1>4, <1>6 DEF GpuExitNotifier, GpuReady, Counter!Execute, pushVars, cpuVars
<1>7. CASE \E part \in Parts : GpuEncrypt(part)
  BY <1>7 DEF GpuEncrypt, pushVars, cpuVars
<1>8. CASE GpuEntryNotifier BY <1>8 DEF GpuEntryNotifier, pushVars, cpuVars
<1>9. CASE GpuFault BY <1>9 DEF GpuFault, pushVars, cpuVars
<1>10. ASSUME NEW t \in Threads, UpdateCompletedValue(t)
       PROVE  [Counter!Next]_(Counter!vars)
  <2>1. completed_value' \in completed_value .. executed
    BY <1>10, UpdateCompletedValueInv
  <2>2. UNCHANGED <<queued_value, executed>>
    BY <1>10 DEF UpdateCompletedValue, pushVars, gpuVars
  <2> QED BY <1>2, <2>1, <2>2 DEF Counter!Observe
<1>11. ASSUME NEW t \in Threads, Start(t) \/ Step(t), ~UpdateCompletedValue(t)
       PROVE  UNCHANGED <<queued_value, executed, completed_value>>
  BY <1>11 DEF Start, Step, Lock, ReadNotifier, ReadAuthTag, ReadPayload, RereadNotifier,
     Decrypt, Retire, Compare, pushVars, gpuVars, cpuVars
<1>12. CASE UNCHANGED vars BY <1>12 DEF vars, pushVars, gpuVars, cpuVars
<1> QED BY <1>3, <1>5, <1>6, <1>7, <1>8, <1>9, <1>10, <1>11, <1>12 DEF Next, Gpu

\* The semaphore, plain or encrypted, implements the counter of completed work that
\* the rest of the driver relies on.
THEOREM CounterRefined == Spec => CounterSpec
<1>1. Init => Counter!Init BY DEF Init, Counter!Init
<1> QED BY <1>1, CounterStep, InvAlways, PTL DEF Spec, CounterSpec, Counter!Spec
=============================================================================

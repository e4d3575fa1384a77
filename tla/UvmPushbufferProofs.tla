------------------------ MODULE UvmPushbufferProofs -------------------------
(***************************************************************************)
(* Proofs about the pushbuffer of UvmPushbuffer, for every number of       *)
(* threads, channels and chunks and every size: a push writes only to      *)
(* memory that nothing else uses, the bitmaps are exact, and chunks and    *)
(* semaphore units are owned by pushes on their way.                       *)
(***************************************************************************)
EXTENDS UvmPushbuffer, FiniteSetTheorems, WellFoundedInduction, TLAPS

-----------------------------------------------------------------------------
(* The inductive invariant.                                                *)

End(e) == e.off + e.size

\* Three offsets in the order of a ring.
Cyclic(x, y, z) == (x < y /\ y < z) \/ (y < z /\ z < x) \/ (z < x /\ x < y)

\* The pending entries of a chunk that starts at base: they lie in the chunk, apart from
\* each other, and the list is in the order of the ring, entries that have completed
\* out of order left out.
Placed(base, list) ==
    /\ \A i \in DOMAIN list :
         base <= list[i].off /\ list[i].size > 0 /\ End(list[i]) <= base + ChunkSize
    /\ \A i, j \in DOMAIN list :
         i < j => End(list[i]) <= list[j].off \/ End(list[j]) <= list[i].off
    /\ \A i, j, m \in DOMAIN list :
         i < j /\ j < m => Cyclic(list[i].off, list[j].off, list[m].off)

\* A push of maximal size at start of this chunk disturbs no pending entry, and the list
\* stays in the order of the ring.
FreeAt(base, list, start) ==
    /\ start \in 0 .. ChunkSize /\ start + MaxPushSize <= ChunkSize
    /\ \A i \in DOMAIN list :
         End(list[i]) <= base + start \/ base + start + MaxPushSize <= list[i].off
    /\ \A i, j \in DOMAIN list :
         i < j => Cyclic(list[i].off, list[j].off, base + start)

\* The start that a push will use stays free while its chunk is claimed: completions only
\* take entries away.
ChunkInv ==
    \A k \in Chunks :
        /\ k \in idle_chunks <=> current_push[k] = None /\ pending_gpfifos[k] = <<>>
        /\ k \in available_chunks => current_push[k] = None
        /\ Placed(ChunkOffset(k), pending_gpfifos[k])
        /\ k \in PickableChunks \/ current_push[k] # None =>
             FreeAt(ChunkOffset(k), pending_gpfifos[k], next_push_start[k])

Writing == {"begin", "write"}
InPushStates == {"spin", "begin", "write"}
LaunchStates == InPushStates \cup {"down", "release"}

\* What a thread holds.  A chunk claimed by a call that returned an error is nobody's.
OwnInv ==
    /\ \A t \in Threads :
         /\ pc[t] \in Writing =>
              push[t].chunk \in Chunks /\ current_push[push[t].chunk] = t
         /\ pc[t] = "write" =>
              push[t].begin = ChunkOffset(push[t].chunk) + next_push_start[push[t].chunk]
         /\ pc[t] \in LaunchStates \cup {"reserve_launch"} => push[t].channel \in Channels
         /\ pc[t] = "release" \/ ~push[t].ok => fatal_error
    /\ ~fatal_error =>
         \A k \in Chunks : current_push[k] # None =>
             pc[current_push[k]] \in Writing /\ push[current_push[k]].chunk = k

InPush == {t \in Threads : pc[t] \in InPushStates}
Launching == {t \in Threads : pc[t] \in LaunchStates}

\* The units of the two semaphores.  An error loses a launch channel.
CountInv ==
    /\ IsFiniteSet(InPush) /\ IsFiniteSet(Launching)
    /\ concurrent_pushes_sema + Cardinality(InPush) = ChunkCount
    /\ launch_sem + Cardinality(Launching) <= Launchers
    /\ ~fatal_error => launch_sem + Cardinality(Launching) = Launchers

FifoInv ==
    \A c \in Channels :
        /\ executed[c] <= Len(fifo[c])
        /\ \A i \in DOMAIN fifo[c] : OffsetToChunk(fifo[c][i].off) \in Chunks

Inv == TypeOK /\ ChunkInv /\ OwnInv /\ CountInv /\ FifoInv

-----------------------------------------------------------------------------
(* Sizes, chunks and lists.                                                *)

\* The least element of a set of naturals is one of its elements.
LEMMA MinIn == ASSUME NEW S \in SUBSET Nat, S # {} PROVE Min(S) \in S
<1> DEFINE R == OpToRel(<, Nat)
<1>1. IsWellFoundedOn(R, Nat) BY NatLessThanWellFounded
<1>2. PICK x \in S : \A y \in S : ~ (<<y, x>> \in R) BY <1>1, WFMin
<1>3. \A y \in S : x =< y
  <2> TAKE y \in S
  <2>1. <<y, x>> \in Nat \X Nat /\ y < x => <<y, x>> \in R BY DEF OpToRel
  <2>2. ~ (y < x) BY <1>2, <2>1
  <2> QED BY <2>2
<1>4. \E m \in S : \A y \in S : m =< y BY <1>3
<1> QED BY <1>4 DEF Min

LEMMA ChunkTypes ==
    /\ ChunkCount \in Nat /\ ChunkSize \in Nat /\ MaxPushSize \in Nat /\ MaxPushSize > 0
    /\ MaxPushSize <= ChunkSize
    /\ Chunks \subseteq Nat /\ IsFiniteSet(Chunks) /\ Cardinality(Chunks) = ChunkCount
    /\ Entries \in Nat /\ Launchers \in Nat /\ MaxPushes \in Nat /\ MaxFailures \in Nat
<1>1. ChunkCount \in Nat /\ ChunkCount > 0 BY SizeAssumption
<1>2. IsFiniteSet(0 .. ChunkCount - 1) /\ Cardinality(0 .. ChunkCount - 1) = ChunkCount
  BY <1>1, FS_Interval
<1> QED BY <1>1, <1>2, SizeAssumption, CountAssumption DEF Chunks

\* An offset inside a chunk tells the chunk (offset_to_chunk()).
LEMMA OffsetInChunk ==
    ASSUME NEW k \in Chunks, NEW start \in Nat, start < ChunkSize
    PROVE  OffsetToChunk(ChunkOffset(k) + start) = k
<1> DEFINE off == k * ChunkSize + start
           q == off \div ChunkSize
           r == off % ChunkSize
<1>1. k \in Nat /\ ChunkSize \in Nat /\ ChunkSize > 0 BY ChunkTypes
<1>2. off \in Nat BY <1>1
<1>3. q \in Nat /\ r \in 0 .. ChunkSize - 1 /\ off = ChunkSize * q + r BY <1>1, <1>2
<1>4. ~ (q > k)
  <2>1. ASSUME q > k PROVE FALSE
    <3>1. ChunkSize * q >= ChunkSize * (k + 1) BY <1>1, <1>3, <2>1
    <3> QED BY <1>1, <1>3, <3>1
  <2> QED BY <2>1
<1>5. ~ (q < k)
  <2>1. ASSUME q < k PROVE FALSE
    <3>1. ChunkSize * k >= ChunkSize * (q + 1) BY <1>1, <1>3, <2>1
    <3> QED BY <1>1, <1>3, <3>1
  <2> QED BY <2>1
<1>6. q = k BY <1>1, <1>3, <1>4, <1>5
<1> QED BY <1>6 DEF OffsetToChunk, ChunkOffset

LEMMA ChunkOffsetType == ASSUME NEW k \in Chunks PROVE ChunkOffset(k) \in Nat
BY ChunkTypes DEF ChunkOffset

\* Taking an entry out of a list.
LEMMA RemoveAtFacts ==
    ASSUME NEW list \in Seq(GpfifoEntries), NEW i \in DOMAIN list
    PROVE  /\ RemoveAt(list, i) \in Seq(GpfifoEntries)
           /\ Len(RemoveAt(list, i)) = Len(list) - 1
           /\ \A j \in 1 .. Len(list) - 1 :
                RemoveAt(list, i)[j] = IF j < i THEN list[j] ELSE list[j + 1]
<1>1. Len(list) \in Nat /\ i \in 1 .. Len(list) OBVIOUS
<1> DEFINE a == SubSeq(list, 1, i - 1)
           b == SubSeq(list, i + 1, Len(list))
<1>2. a \in Seq(GpfifoEntries) /\ Len(a) = i - 1 /\ \A j \in 1 .. i - 1 : a[j] = list[j]
  BY <1>1
<1>3. /\ b \in Seq(GpfifoEntries) /\ Len(b) = Len(list) - i
      /\ \A j \in 1 .. Len(list) - i : b[j] = list[i + j]
  BY <1>1
<1> HIDE DEF a, b
<1>4. /\ a \o b \in Seq(GpfifoEntries) /\ Len(a \o b) = Len(list) - 1
      /\ \A j \in 1 .. Len(list) - 1 :
           (a \o b)[j] = IF j < i THEN a[j] ELSE b[j - (i - 1)]
  <2>0. a \in Seq(GpfifoEntries) /\ b \in Seq(GpfifoEntries) BY <1>2, <1>3
  <2>1. a \o b \in Seq(GpfifoEntries) /\ Len(a \o b) = Len(a) + Len(b) BY <2>0
  <2>2. \A j \in 1 .. Len(a) + Len(b) :
          (a \o b)[j] = IF j <= Len(a) THEN a[j] ELSE b[j - Len(a)]
    BY <2>0
  <2>3. Len(a) = i - 1 /\ Len(a) + Len(b) = Len(list) - 1 BY <1>1, <1>2, <1>3
  <2>4. \A j \in 1 .. Len(list) - 1 :
          (a \o b)[j] = IF j <= i - 1 THEN a[j] ELSE b[j - (i - 1)]
    BY <2>2, <2>3
  <2>5. \A j \in 1 .. Len(list) - 1 : j <= i - 1 <=> j < i BY <1>1
  <2> QED BY <2>1, <2>3, <2>4, <2>5
<1>5. \A j \in 1 .. Len(list) - 1 : (a \o b)[j] = IF j < i THEN list[j] ELSE list[j + 1]
  <2> TAKE j \in 1 .. Len(list) - 1
  <2>1. CASE j < i BY <1>1, <1>2, <1>4, <2>1
  <2>2. CASE ~ (j < i)
    <3>1. j - (i - 1) \in 1 .. Len(list) - i /\ i + (j - (i - 1)) = j + 1 BY <1>1, <2>2
    <3>2. b[j - (i - 1)] = list[j + 1] BY <1>3, <3>1
    <3> QED BY <1>4, <2>2, <3>2
  <2> QED BY <2>1, <2>2
<1> QED BY <1>4, <1>5 DEF RemoveAt, a, b

\* So what is left is in place as before, and a free start stays free.
LEMMA RemoveKeeps ==
    ASSUME NEW list \in Seq(GpfifoEntries), NEW i \in DOMAIN list, NEW base \in Nat,
           NEW start \in Nat
    PROVE  /\ Placed(base, list) => Placed(base, RemoveAt(list, i))
           /\ FreeAt(base, list, start) => FreeAt(base, RemoveAt(list, i), start)
<1> DEFINE rest == RemoveAt(list, i)
           at(j) == IF j < i THEN j ELSE j + 1
<1>1. Len(list) \in Nat /\ DOMAIN list = 1 .. Len(list) /\ i \in 1 .. Len(list) OBVIOUS
<1>2. /\ rest \in Seq(GpfifoEntries) /\ Len(rest) = Len(list) - 1
      /\ \A j \in 1 .. Len(list) - 1 : rest[j] = IF j < i THEN list[j] ELSE list[j + 1]
  BY RemoveAtFacts
<1>3. DOMAIN rest = 1 .. Len(list) - 1 BY <1>1, <1>2
<1> HIDE DEF rest
<1>4. \A j \in DOMAIN rest : at(j) \in DOMAIN list /\ rest[j] = list[at(j)]
  BY <1>1, <1>2, <1>3
<1>5. \A j, m \in DOMAIN rest : j < m => at(j) < at(m) BY <1>1, <1>3
<1> HIDE DEF at
<1>6. Placed(base, list) => Placed(base, rest)
  <2> SUFFICES ASSUME Placed(base, list) PROVE Placed(base, rest) OBVIOUS
  <2>1. \A j \in DOMAIN rest :
          base <= rest[j].off /\ rest[j].size > 0 /\ End(rest[j]) <= base + ChunkSize
    BY <1>4 DEF Placed
  <2>2. \A j, m \in DOMAIN rest :
          j < m => End(rest[j]) <= rest[m].off \/ End(rest[m]) <= rest[j].off
    BY <1>4, <1>5 DEF Placed
  <2>3. \A j, m, n \in DOMAIN rest :
          j < m /\ m < n => Cyclic(rest[j].off, rest[m].off, rest[n].off)
    BY <1>4, <1>5 DEF Placed
  <2> QED BY <2>1, <2>2, <2>3 DEF Placed
<1>7. FreeAt(base, list, start) => FreeAt(base, rest, start)
  <2> SUFFICES ASSUME FreeAt(base, list, start) PROVE FreeAt(base, rest, start) OBVIOUS
  <2>1. \A j \in DOMAIN rest :
          End(rest[j]) <= base + start \/ base + start + MaxPushSize <= rest[j].off
    BY <1>4 DEF FreeAt
  <2>2. \A j, m \in DOMAIN rest :
          j < m => Cyclic(rest[j].off, rest[m].off, base + start)
    BY <1>4, <1>5 DEF FreeAt
  <2> QED BY <2>1, <2>2 DEF FreeAt
<1> QED BY <1>6, <1>7 DEF rest

\* A push that ends at its start, of at most the maximal size, is in place.
LEMMA AppendKeeps ==
    ASSUME NEW list \in Seq(GpfifoEntries), NEW base \in Nat, NEW start \in Nat,
           Placed(base, list), FreeAt(base, list, start),
           NEW e \in GpfifoEntries, e.off = base + start, e.size \in 1 .. MaxPushSize
    PROVE  Append(list, e) \in Seq(GpfifoEntries) /\ Placed(base, Append(list, e))
<1> DEFINE new == Append(list, e)
           n == Len(list)
<1>1. /\ n \in Nat /\ new \in Seq(GpfifoEntries) /\ DOMAIN list = 1 .. n
      /\ DOMAIN new = 1 .. n + 1 /\ new[n + 1] = e
      /\ \A i \in 1 .. n : new[i] = list[i] /\ list[i] \in GpfifoEntries
  OBVIOUS
<1>2. \A i \in 1 .. n : list[i].off \in Nat /\ list[i].size \in Nat
  BY <1>1 DEF GpfifoEntries
<1>3. e.off \in Nat /\ e.size \in Nat /\ e.size > 0 /\ e.size <= MaxPushSize
  BY ChunkTypes DEF GpfifoEntries
<1>4. MaxPushSize \in Nat /\ ChunkSize \in Nat /\ start + MaxPushSize <= ChunkSize
  BY ChunkTypes DEF FreeAt
<1> HIDE DEF new, n
<1>5. \A i \in DOMAIN new :
        base <= new[i].off /\ new[i].size > 0 /\ End(new[i]) <= base + ChunkSize
  <2> TAKE i \in DOMAIN new
  <2>1. CASE i = n + 1 BY <1>1, <1>3, <1>4, <2>1 DEF End
  <2>2. CASE i # n + 1
    <3>1. i \in 1 .. n BY <1>1, <2>2
    <3> QED BY <1>1, <3>1 DEF Placed
  <2> QED BY <2>1, <2>2
<1>6. \A i, j \in DOMAIN new :
        i < j => End(new[i]) <= new[j].off \/ End(new[j]) <= new[i].off
  <2> TAKE i, j \in DOMAIN new
  <2> HAVE i < j
  <2>0. i \in 1 .. n BY <1>1
  <2>1. CASE j = n + 1
    <3>1. End(list[i]) <= base + start \/ base + start + MaxPushSize <= list[i].off
      BY <1>1, <2>0 DEF FreeAt
    <3>2. new[i] = list[i] /\ new[j] = e BY <1>1, <2>0, <2>1
    <3>3. list[i].off \in Nat /\ list[i].size \in Nat BY <1>2, <2>0
    <3> QED BY <1>3, <1>4, <3>1, <3>2, <3>3 DEF End
  <2>2. CASE j # n + 1
    <3>1. j \in 1 .. n BY <1>1, <2>2
    <3> QED BY <1>1, <2>0, <3>1 DEF Placed
  <2> QED BY <2>1, <2>2
<1>7. \A i, j, m \in DOMAIN new :
        i < j /\ j < m => Cyclic(new[i].off, new[j].off, new[m].off)
  <2> TAKE i, j, m \in DOMAIN new
  <2> HAVE i < j /\ j < m
  <2>0. i \in 1 .. n /\ j \in 1 .. n BY <1>1
  <2>1. CASE m = n + 1 BY <1>1, <2>0, <2>1 DEF FreeAt
  <2>2. CASE m # n + 1
    <3>1. m \in 1 .. n BY <1>1, <2>2
    <3> QED BY <1>1, <2>0, <3>1 DEF Placed
  <2> QED BY <2>1, <2>2
<1> QED BY <1>1, <1>5, <1>6, <1>7 DEF Placed, new

\* Where a push may start in the order of the ring, of n entries at offsets o of size s:
\* behind the last entry, in front of the first when they have wrapped round.
LEMMA RingStart ==
    ASSUME NEW n \in Nat, n >= 1, NEW o \in [1 .. n -> Nat], NEW s \in [1 .. n -> Nat],
           \A i \in 1 .. n : s[i] > 0,
           \A i, j \in 1 .. n : i < j => o[i] + s[i] <= o[j] \/ o[j] + s[j] <= o[i],
           \A i, j, m \in 1 .. n : i < j /\ j < m => Cyclic(o[i], o[j], o[m]),
           NEW x \in Nat, NEW max \in Nat, max > 0,
           \/ o[1] > o[n] + s[n] /\ x = o[n] + s[n] /\ x + max <= o[1]
           \/ o[1] < o[n] + s[n] /\ x = o[n] + s[n]
           \/ o[1] < o[n] + s[n] /\ x + max <= o[1]
    PROVE  /\ \A i \in 1 .. n : o[i] + s[i] <= x \/ x + max <= o[i]
           /\ \A i, j \in 1 .. n : i < j => Cyclic(o[i], o[j], x)
<1>1. 1 \in 1 .. n /\ n \in 1 .. n OBVIOUS
<1>2. \A i \in 1 .. n : o[i] \in Nat /\ s[i] \in Nat /\ s[i] > 0 OBVIOUS
<1>3. CASE o[1] > o[n] + s[n]
  <2>1. x = o[n] + s[n] /\ x + max <= o[1] BY <1>1, <1>2, <1>3
  <2>2. \A i \in 1 .. n : (o[i] + s[i] <= x /\ o[i] <= o[n]) \/ o[1] <= o[i]
    <3> TAKE i \in 1 .. n
    <3>1. CASE i = 1 \/ i = n BY <1>1, <1>2, <2>1, <3>1
    <3>2. CASE i # 1 /\ i # n
      <4>1. 1 < i /\ i < n BY <3>2
      <4>2. Cyclic(o[1], o[i], o[n]) BY <1>1, <4>1
      <4>3. o[i] + s[i] <= o[n] \/ o[n] + s[n] <= o[i] BY <1>1, <4>1
      <4> QED BY <1>1, <1>2, <1>3, <2>1, <4>2, <4>3 DEF Cyclic
    <3> QED BY <3>1, <3>2
  <2>3. \A i \in 1 .. n : o[i] + s[i] <= x \/ x + max <= o[i] BY <1>1, <1>2, <2>1, <2>2
  <2>4. \A i, j \in 1 .. n : i < j => Cyclic(o[i], o[j], x)
    <3> TAKE i, j \in 1 .. n
    <3> HAVE i < j
    <3>1. o[n] < x /\ x < o[1] BY <1>1, <1>2, <2>1
    <3>2. o[i] + s[i] <= o[j] \/ o[j] + s[j] <= o[i] OBVIOUS
    <3>3. o[i] < o[j] \/ o[j] < o[i] BY <1>2, <3>2
    <3>4. (o[i] <= o[n] \/ o[1] <= o[i]) /\ (o[j] <= o[n] \/ o[1] <= o[j]) BY <2>2
    <3>5. i # 1 => Cyclic(o[1], o[i], o[j]) BY <1>1
    <3>6. j # n => Cyclic(o[i], o[j], o[n]) BY <1>1
    <3>7. o[i] \in Nat /\ o[j] \in Nat /\ o[1] \in Nat /\ o[n] \in Nat BY <1>1, <1>2
    <3>8. CASE i = 1
      <4>1. CASE j = n BY <3>1, <3>3, <3>7, <3>8, <4>1 DEF Cyclic
      <4>2. CASE j # n BY <3>1, <3>3, <3>4, <3>6, <3>7, <3>8, <4>2 DEF Cyclic
      <4> QED BY <4>1, <4>2
    <3>9. CASE i # 1 BY <3>1, <3>3, <3>4, <3>5, <3>7, <3>9 DEF Cyclic
    <3> QED BY <3>8, <3>9
  <2> QED BY <2>3, <2>4
<1>4. CASE o[1] < o[n] + s[n]
  <2>1. n # 1 => o[1] + s[1] <= o[n]
    <3>1. ASSUME n # 1 PROVE o[1] + s[1] <= o[n]
      <4>1. o[1] + s[1] <= o[n] \/ o[n] + s[n] <= o[1] BY <1>1, <3>1
      <4> QED BY <1>1, <1>2, <1>4, <4>1
    <3> QED BY <3>1
  <2>2. \A i \in 1 .. n : o[1] <= o[i] /\ o[i] + s[i] <= o[n] + s[n]
    <3> TAKE i \in 1 .. n
    <3>1. CASE i = 1 \/ i = n BY <1>1, <1>2, <2>1, <3>1
    <3>2. CASE i # 1 /\ i # n
      <4>1. 1 < i /\ i < n BY <3>2
      <4>2. Cyclic(o[1], o[i], o[n]) BY <1>1, <4>1
      <4>3. o[i] + s[i] <= o[n] \/ o[n] + s[n] <= o[i] BY <1>1, <4>1
      <4> QED BY <1>1, <1>2, <2>1, <4>1, <4>2, <4>3 DEF Cyclic
    <3> QED BY <3>1, <3>2
  <2>3. \A i, j \in 1 .. n : i < j => o[i] < o[j]
    <3> TAKE i, j \in 1 .. n
    <3> HAVE i < j
    <3>1. o[i] + s[i] <= o[j] \/ o[j] + s[j] <= o[i] OBVIOUS
    <3>2. i # 1 => Cyclic(o[1], o[i], o[j]) BY <1>1
    <3> QED BY <1>1, <1>2, <2>2, <3>1, <3>2 DEF Cyclic
  <2>4. CASE x = o[n] + s[n]
    <3>1. \A i \in 1 .. n : o[i] + s[i] <= x /\ o[i] < x BY <1>1, <1>2, <2>2, <2>4
    <3> QED BY <1>2, <2>3, <3>1 DEF Cyclic
  <2>5. CASE x + max <= o[1]
    <3>1. \A i \in 1 .. n : x + max <= o[i] /\ x < o[i] BY <1>1, <1>2, <2>2, <2>5
    <3> QED BY <1>2, <2>3, <3>1 DEF Cyclic
  <2> QED BY <1>1, <1>2, <1>4, <2>4, <2>5
<1> QED BY <1>1, <1>2, <1>3, <1>4

\* Where update_chunk() lets the next push start is free.
LEMMA NextStartFree ==
    ASSUME NEW k \in Chunks, NEW list \in Seq(GpfifoEntries), Placed(ChunkOffset(k), list),
           NextStart(k, list) # -1
    PROVE  NextStart(k, list) \in Nat /\ FreeAt(ChunkOffset(k), list, NextStart(k, list))
<1> DEFINE base == ChunkOffset(k)
           n == Len(list)
           start == NextStart(k, list)
           o == [i \in 1 .. n |-> list[i].off]
           s == [i \in 1 .. n |-> list[i].size]
<1>1. /\ MaxPushSize \in Nat /\ MaxPushSize > 0 /\ ChunkSize \in Nat /\ MaxPushSize <= ChunkSize
      /\ base \in Nat
  BY ChunkTypes, ChunkOffsetType
<1>2. CASE list = <<>>
  <2>1. start = 0 BY <1>2 DEF NextStart, GpuGet, CpuPut
  <2>2. DOMAIN list = {} BY <1>2
  <2> QED BY <1>1, <2>1, <2>2 DEF FreeAt
<1>3. CASE list # <<>>
  <2>1. n \in Nat /\ n >= 1 /\ DOMAIN list = 1 .. n BY <1>3
  <2>2. \A i \in 1 .. n : list[i] \in GpfifoEntries OBVIOUS
  <2>3. o \in [1 .. n -> Nat] /\ s \in [1 .. n -> Nat] BY <2>2 DEF GpfifoEntries
  <2>4. \A i \in 1 .. n : list[i].off = o[i] /\ End(list[i]) = o[i] + s[i] BY DEF End
  <2>5. \A i \in 1 .. n : base <= o[i] /\ s[i] > 0 /\ o[i] + s[i] <= base + ChunkSize
    BY <2>1, <2>4 DEF Placed
  <2>6. \A i, j \in 1 .. n : i < j => o[i] + s[i] <= o[j] \/ o[j] + s[j] <= o[i]
    BY <2>1, <2>4 DEF Placed
  <2>7. \A i, j, m \in 1 .. n : i < j /\ j < m => Cyclic(o[i], o[j], o[m])
    BY <2>1, <2>4 DEF Placed
  <2>8. GpuGet(k, list) = o[1] - base /\ CpuPut(k, list) = o[n] + (s[n] - base)
    BY <1>3, <2>1 DEF GpuGet, CpuPut
  <2>9. /\ o[1] \in Nat /\ s[1] \in Nat /\ o[n] \in Nat /\ s[n] \in Nat
        /\ base <= o[1] /\ s[1] > 0 /\ o[1] + s[1] <= base + ChunkSize
        /\ base <= o[n] /\ s[n] > 0 /\ o[n] + s[n] <= base + ChunkSize
    BY <2>1, <2>3, <2>5
  <2> HIDE DEF base, n, o, s
  <2>10. PICK x \in Nat, y \in Nat :
           /\ x = o[1] /\ y = o[n] + s[n] /\ base <= x /\ base <= y
           /\ x < base + ChunkSize /\ y <= base + ChunkSize
    <3>1. o[1] < base + ChunkSize BY <1>1, <2>9
    <3>2. base <= o[n] + s[n] /\ o[n] + s[n] \in Nat BY <1>1, <2>9
    <3> QED BY <2>9, <3>1, <3>2
  <2>11. PICK get \in Nat, put \in Nat :
           /\ x = base + get /\ y = base + put
           /\ get = GpuGet(k, list) /\ put = CpuPut(k, list)
    <3>1. /\ x - base \in Nat /\ y - base \in Nat
          /\ x = base + (x - base) /\ y = base + (y - base)
      BY <1>1, <2>10
    <3>2. o[n] + (s[n] - base) = (o[n] + s[n]) - base BY <1>1, <2>9
    <3>3. GpuGet(k, list) = x - base /\ CpuPut(k, list) = y - base BY <2>8, <2>10, <3>2
    <3> QED BY <3>1, <3>3
  <2>12. \/ get > put /\ get - put >= MaxPushSize /\ start = put
         \/ get < put /\ ChunkSize >= put + MaxPushSize /\ start = put
         \/ get < put /\ get >= MaxPushSize /\ start = 0
    BY <1>1, <1>3, <2>11 DEF NextStart
  <2> HIDE DEF start
  <2>13. get < ChunkSize /\ put <= ChunkSize /\ start \in Nat BY <1>1, <2>10, <2>11, <2>12
  <2>14. start \in 0 .. ChunkSize /\ start + MaxPushSize <= ChunkSize
    <3>1. start + MaxPushSize <= ChunkSize
      <4>1. CASE get > put BY <1>1, <2>12, <2>13, <4>1
      <4>2. CASE ~ (get > put) BY <1>1, <2>12, <2>13, <4>2
      <4> QED BY <4>1, <4>2
    <3> QED BY <1>1, <2>13, <3>1
  <2>15. /\ \A i \in 1 .. n : o[i] + s[i] <= base + start \/ base + start + MaxPushSize <= o[i]
         /\ \A i, j \in 1 .. n : i < j => Cyclic(o[i], o[j], base + start)
    <3>1. base + start \in Nat BY <1>1, <2>14
    <3>2. \/ x > y /\ base + start = y /\ (base + start) + MaxPushSize <= x
          \/ x < y /\ base + start = y
          \/ x < y /\ (base + start) + MaxPushSize <= x
      BY <1>1, <2>11, <2>12
    <3>3. \/ /\ o[1] > o[n] + s[n] /\ base + start = o[n] + s[n]
             /\ (base + start) + MaxPushSize <= o[1]
          \/ o[1] < o[n] + s[n] /\ base + start = o[n] + s[n]
          \/ o[1] < o[n] + s[n] /\ (base + start) + MaxPushSize <= o[1]
      BY <2>10, <3>2
    <3>4. \A i \in 1 .. n : s[i] > 0 BY <2>5
    <3> QED BY <1>1, <2>1, <2>3, <2>6, <2>7, <3>1, <3>3, <3>4, RingStart
  <2>16. FreeAt(base, list, start) BY <2>1, <2>4, <2>14, <2>15 DEF FreeAt
  <2> QED BY <1>1, <2>14, <2>16 DEF base, start
<1> QED BY <1>2, <1>3

-----------------------------------------------------------------------------
(* Steps of a thread.                                                      *)

One(b) == IF b THEN 1 ELSE 0

\* The types of the chunks, and of what the GPU and the channels keep.
ChunkOK ==
    /\ idle_chunks \subseteq Chunks /\ available_chunks \subseteq Chunks
    /\ next_push_start \in [Chunks -> 0 .. ChunkSize]
    /\ pending_gpfifos \in [Chunks -> Seq(GpfifoEntries)]
    /\ current_push \in [Chunks -> Threads \cup {None}]
FifoOK == fifo \in [Channels -> Seq(GpfifoEntries)] /\ executed \in [Channels -> Nat]

LEMMA Parts ==
    ASSUME Inv
    PROVE  /\ ChunkOK /\ FifoOK /\ ChunkInv /\ OwnInv /\ CountInv /\ FifoInv
           /\ concurrent_pushes_sema \in Nat /\ launch_sem \in Nat
           /\ push_lock \in [Channels -> Threads \cup {None}]
           /\ failed \subseteq Channels /\ fatal_error \in BOOLEAN
           /\ pushes \in 0 .. MaxPushes
           /\ pc \in [Threads -> PcStates] /\ push \in [Threads -> Pushes]
<1>1. concurrent_pushes_sema \in Nat /\ launch_sem \in Nat BY ChunkTypes DEF Inv, TypeOK
<1> QED BY <1>1 DEF Inv, TypeOK, ChunkOK, FifoOK

\* Thread t goes to state s with locals x.
StepOf(t, s, x) == pc' = [pc EXCEPT ![t] = s] /\ push' = [push EXCEPT ![t] = x]

LEMMA StepOfFacts ==
    ASSUME Inv, NEW t \in Threads, NEW s \in PcStates, NEW x \in Pushes, StepOf(t, s, x)
    PROVE  /\ pc' \in [Threads -> PcStates] /\ push' \in [Threads -> Pushes]
           /\ pc'[t] = s /\ push'[t] = x
           /\ \A u \in Threads \ {t} : pc'[u] = pc[u] /\ push'[u] = push[u]
BY Parts DEF StepOf

\* A set of the threads in some states, when t has moved.
LEMMA CountMoved ==
    ASSUME NEW t, NEW S, NEW T, IsFiniteSet(S), S \ {t} = T \ {t}
    PROVE  /\ IsFiniteSet(T) /\ Cardinality(S) \in Nat /\ Cardinality(T) \in Nat
           /\ Cardinality(T) + One(t \in S) = Cardinality(S) + One(t \in T)
<1>1. Cardinality(S) \in Nat BY FS_CardinalityType
<1>2. /\ IsFiniteSet(S \ {t})
      /\ Cardinality(S \ {t}) = IF t \in S THEN Cardinality(S) - 1 ELSE Cardinality(S)
  BY FS_RemoveElement
<1>3. Cardinality(S \ {t}) \in Nat BY <1>2, FS_CardinalityType
<1>4. CASE t \in T
  <2>1. T = (S \ {t}) \cup {t} /\ t \notin S \ {t} BY <1>4
  <2>2. IsFiniteSet(T) /\ Cardinality(T) = Cardinality(S \ {t}) + 1
    BY <1>2, <2>1, FS_AddElement
  <2> QED BY <1>1, <1>2, <1>3, <1>4, <2>2 DEF One
<1>5. CASE t \notin T
  <2>1. T = S \ {t} BY <1>5
  <2> QED BY <1>1, <1>2, <1>3, <1>5, <2>1 DEF One
<1> QED BY <1>4, <1>5

\* The units of the semaphores that a step takes and gives back.
LEMMA CountStep ==
    ASSUME Inv, NEW t \in Threads, NEW s \in PcStates, NEW x \in Pushes, StepOf(t, s, x),
           fatal_error => fatal_error',
           concurrent_pushes_sema' \in Nat, launch_sem' \in Nat,
           concurrent_pushes_sema' + One(s \in InPushStates)
             = concurrent_pushes_sema + One(pc[t] \in InPushStates),
           launch_sem' + One(s \in LaunchStates) <= launch_sem + One(pc[t] \in LaunchStates),
           ~fatal_error' =>
             launch_sem' + One(s \in LaunchStates) = launch_sem + One(pc[t] \in LaunchStates)
    PROVE  /\ CountInv' /\ concurrent_pushes_sema' \in 0 .. ChunkCount
           /\ launch_sem' \in 0 .. Launchers
<1>1. CountInv /\ concurrent_pushes_sema \in Nat /\ launch_sem \in Nat BY Parts
<1>2. pc'[t] = s /\ \A u \in Threads \ {t} : pc'[u] = pc[u] BY StepOfFacts
<1>3. /\ One(t \in InPush) = One(pc[t] \in InPushStates)
      /\ One(t \in InPush') = One(s \in InPushStates)
      /\ InPush \ {t} = InPush' \ {t}
  BY <1>2 DEF InPush, One
<1>4. /\ One(t \in Launching) = One(pc[t] \in LaunchStates)
      /\ One(t \in Launching') = One(s \in LaunchStates)
      /\ Launching \ {t} = Launching' \ {t}
  BY <1>2 DEF Launching, One
<1>5. /\ One(s \in InPushStates) \in {0, 1} /\ One(pc[t] \in InPushStates) \in {0, 1}
      /\ One(s \in LaunchStates) \in {0, 1} /\ One(pc[t] \in LaunchStates) \in {0, 1}
  BY DEF One
<1>6. /\ IsFiniteSet(InPush') /\ Cardinality(InPush) \in Nat /\ Cardinality(InPush') \in Nat
      /\ Cardinality(InPush') + One(pc[t] \in InPushStates)
           = Cardinality(InPush) + One(s \in InPushStates)
  <2>1. IsFiniteSet(InPush) BY <1>1 DEF CountInv
  <2>2. /\ IsFiniteSet(InPush') /\ Cardinality(InPush) \in Nat /\ Cardinality(InPush') \in Nat
        /\ Cardinality(InPush') + One(t \in InPush) = Cardinality(InPush) + One(t \in InPush')
    BY <1>3, <2>1, CountMoved
  <2> QED BY <1>3, <2>2
<1>7. /\ IsFiniteSet(Launching') /\ Cardinality(Launching) \in Nat
      /\ Cardinality(Launching') \in Nat
      /\ Cardinality(Launching') + One(pc[t] \in LaunchStates)
           = Cardinality(Launching) + One(s \in LaunchStates)
  <2>1. IsFiniteSet(Launching) BY <1>1 DEF CountInv
  <2>2. /\ IsFiniteSet(Launching') /\ Cardinality(Launching) \in Nat
        /\ Cardinality(Launching') \in Nat
        /\ Cardinality(Launching') + One(t \in Launching)
             = Cardinality(Launching) + One(t \in Launching')
    BY <1>4, <2>1, CountMoved
  <2> QED BY <1>4, <2>2
<1>8. concurrent_pushes_sema' + Cardinality(InPush') = ChunkCount
  <2>1. concurrent_pushes_sema + Cardinality(InPush) = ChunkCount BY <1>1 DEF CountInv
  <2>2. concurrent_pushes_sema \in Nat /\ ChunkCount \in Nat BY <1>1, ChunkTypes
  <2> QED BY <1>5, <1>6, <2>1, <2>2
<1>9. launch_sem' + Cardinality(Launching') <= Launchers
  BY <1>1, <1>5, <1>7, ChunkTypes DEF CountInv
<1>10. ~fatal_error' => launch_sem' + Cardinality(Launching') = Launchers
  BY <1>1, <1>5, <1>7, ChunkTypes DEF CountInv
<1>11. CountInv' BY <1>6, <1>7, <1>8, <1>9, <1>10 DEF CountInv
<1> QED BY <1>6, <1>7, <1>8, <1>9, <1>11, ChunkTypes

\* The invariant after a step, from its parts.
LEMMA StepInv ==
    ASSUME Inv, NEW t \in Threads, NEW s \in PcStates, NEW x \in Pushes, StepOf(t, s, x),
           fatal_error' \in BOOLEAN, failed' = failed, pushes' \in 0 .. MaxPushes,
           push_lock' \in [Channels -> Threads \cup {None}],
           FifoOK', ChunkOK', ChunkInv', OwnInv', CountInv', FifoInv',
           concurrent_pushes_sema' \in 0 .. ChunkCount, launch_sem' \in 0 .. Launchers
    PROVE  Inv'
<1>1. failed' \subseteq Channels BY Parts
<1>2. pc' \in [Threads -> PcStates] /\ push' \in [Threads -> Pushes] BY StepOfFacts
<1>3. TypeOK' BY <1>1, <1>2 DEF TypeOK, ChunkOK, FifoOK
<1> QED BY <1>3 DEF Inv

\* Nobody else's claims change.
LEMMA OwnStep ==
    ASSUME Inv, NEW t \in Threads, NEW s \in PcStates, NEW x \in Pushes, StepOf(t, s, x),
           UNCHANGED <<current_push, next_push_start>>, fatal_error => fatal_error',
           s \in Writing => pc[t] \in Writing /\ x.chunk = push[t].chunk,
           pc[t] \in Writing => s \in Writing,
           s = "write" => x.begin = ChunkOffset(x.chunk) + next_push_start[x.chunk],
           s \in LaunchStates \cup {"reserve_launch"} => x.channel \in Channels,
           s = "release" \/ ~x.ok => fatal_error'
    PROVE  OwnInv'
<1>1. /\ OwnInv /\ pc'[t] = s /\ push'[t] = x
      /\ \A u \in Threads \ {t} : pc'[u] = pc[u] /\ push'[u] = push[u]
  BY Parts, StepOfFacts
<1>2. ASSUME NEW u \in Threads
      PROVE  /\ pc'[u] \in Writing => push'[u].chunk \in Chunks /\ current_push'[push'[u].chunk] = u
             /\ pc'[u] = "write" =>
                  push'[u].begin = ChunkOffset(push'[u].chunk) + next_push_start'[push'[u].chunk]
             /\ pc'[u] \in LaunchStates \cup {"reserve_launch"} => push'[u].channel \in Channels
             /\ pc'[u] = "release" \/ ~push'[u].ok => fatal_error'
  BY <1>1 DEF OwnInv
<1>3. ASSUME ~fatal_error', NEW k \in Chunks, current_push'[k] # None
      PROVE  pc'[current_push'[k]] \in Writing /\ push'[current_push'[k]].chunk = k
  <2>1. /\ current_push[k] # None /\ ~fatal_error /\ current_push[k] \in Threads
        /\ pc[current_push[k]] \in Writing /\ push[current_push[k]].chunk = k
    BY <1>1, <1>3, Parts DEF OwnInv, ChunkOK
  <2> QED BY <1>1, <2>1
<1> QED BY <1>2, <1>3 DEF OwnInv

\* A step that leaves the chunks and the entries of the channels alone.
LEMMA QuietStep ==
    ASSUME Inv, NEW t \in Threads, NEW s \in PcStates, NEW x \in Pushes, StepOf(t, s, x),
           UNCHANGED <<chunkVars, fifo, executed, failed>>,
           fatal_error' \in BOOLEAN, fatal_error => fatal_error', pushes' \in 0 .. MaxPushes,
           push_lock' \in [Channels -> Threads \cup {None}],
           s \in Writing => pc[t] \in Writing /\ x.chunk = push[t].chunk,
           pc[t] \in Writing => s \in Writing,
           s = "write" => x.begin = ChunkOffset(x.chunk) + next_push_start[x.chunk],
           s \in LaunchStates \cup {"reserve_launch"} => x.channel \in Channels,
           s = "release" \/ ~x.ok => fatal_error',
           concurrent_pushes_sema' \in Nat, launch_sem' \in Nat,
           concurrent_pushes_sema' + One(s \in InPushStates)
             = concurrent_pushes_sema + One(pc[t] \in InPushStates),
           launch_sem' + One(s \in LaunchStates) <= launch_sem + One(pc[t] \in LaunchStates),
           ~fatal_error' =>
             launch_sem' + One(s \in LaunchStates) = launch_sem + One(pc[t] \in LaunchStates)
    PROVE  Inv'
<1> USE DEF chunkVars
<1>1. ChunkOK' /\ FifoOK' BY Parts DEF ChunkOK, FifoOK
<1>2. ChunkInv' BY Parts DEF ChunkInv, PickableChunks
<1>3. FifoInv' BY Parts DEF FifoInv
<1>4. OwnInv' BY OwnStep
<1>5. /\ CountInv' /\ concurrent_pushes_sema' \in 0 .. ChunkCount
      /\ launch_sem' \in 0 .. Launchers
  BY CountStep
<1> QED BY <1>1, <1>2, <1>3, <1>4, <1>5, StepInv

-----------------------------------------------------------------------------
(* Steps that leave the chunks alone.                                      *)

\* The locals of a thread.
LEMMA PushParts ==
    ASSUME Inv, NEW t \in Threads
    PROVE  /\ push[t] \in Pushes /\ pc[t] \in PcStates
           /\ push = [push EXCEPT ![t] = push[t]] /\ pc = [pc EXCEPT ![t] = pc[t]]
           /\ push[t].todo \subseteq Channels /\ push[t].ok \in BOOLEAN
           /\ NoPush \in Pushes /\ NoPush.ok = TRUE
<1>1. push \in [Threads -> Pushes] /\ pc \in [Threads -> PcStates] BY Parts
<1>2. NoPush \in Pushes /\ NoPush.ok = TRUE BY DEF NoPush, Pushes
<1> QED BY <1>1, <1>2 DEF Pushes

\* Updates of the locals.
LEMMA Locals ==
    ASSUME NEW x \in Pushes, NEW todo \in SUBSET Channels, NEW begin \in Nat,
           NEW chunk \in Chunks, NEW c \in Channels, NEW ok \in BOOLEAN
    PROVE  /\ [x EXCEPT !.todo = todo] \in Pushes
           /\ [x EXCEPT !.begin = begin] \in Pushes
           /\ [x EXCEPT !.chunk = chunk] \in Pushes
           /\ [x EXCEPT !.channel = c] \in Pushes
           /\ [x EXCEPT !.ok = ok, !.todo = todo] \in Pushes
BY DEF Pushes

\* The states that hold a chunk, a unit of the pushbuffer's semaphore, a launch channel.
LEMMA States ==
    ASSUME NEW s \in PcStates
    PROVE  /\ s \in Writing <=> s = "begin" \/ s = "write"
           /\ One(s \in InPushStates) = IF s \in {"spin", "begin", "write"} THEN 1 ELSE 0
           /\ One(s \in LaunchStates) =
                IF s \in {"down", "spin", "begin", "write", "release"} THEN 1 ELSE 0
           /\ s \in LaunchStates <=> s \in {"down", "spin", "begin", "write", "release"}
BY DEF Writing, InPushStates, LaunchStates, One

LEMMA OneChunk == 0 \in Chunks /\ 0 \in Nat /\ {} \in SUBSET Channels /\ TRUE \in BOOLEAN
BY SizeAssumption DEF Chunks

LEMMA BeginCallInv == ASSUME Inv, NEW t \in Threads, BeginCall(t) PROVE Inv'
<1>1. /\ pc[t] = "idle" /\ pushes < MaxPushes /\ pushes' = pushes + 1
      /\ pc' = [pc EXCEPT ![t] = "reserve"]
      /\ UNCHANGED <<chunkVars, fifo, executed, push_lock, failed, fatal_error, launch_sem,
                     concurrent_pushes_sema, push>>
  BY DEF BeginCall, Goto, channelVars, errorVars
<1>2. push[t] \in Pushes /\ StepOf(t, "reserve", push[t]) BY <1>1, PushParts DEF StepOf
<1>3. "reserve" \in PcStates /\ pushes' \in 0 .. MaxPushes BY <1>1, Parts, ChunkTypes DEF PcStates
<1>4. ~push[t].ok => fatal_error' BY <1>1, Parts DEF OwnInv
<1>5. fatal_error' \in BOOLEAN /\ push_lock' \in [Channels -> Threads \cup {None}]
  BY <1>1, Parts
<1>6. concurrent_pushes_sema \in Nat /\ launch_sem \in Nat BY Parts
<1>7. /\ "reserve" \notin Writing /\ pc[t] \notin Writing
      /\ "reserve" \notin LaunchStates \cup {"reserve_launch"}
      /\ One("reserve" \in InPushStates) = 0 /\ One(pc[t] \in InPushStates) = 0
      /\ One("reserve" \in LaunchStates) = 0 /\ One(pc[t] \in LaunchStates) = 0
  BY <1>1, <1>3, PushParts, States
<1> QED BY <1>1, <1>2, <1>3, <1>4, <1>5, <1>6, <1>7, QuietStep

LEMMA ReserveInv == ASSUME Inv, NEW t \in Threads, Reserve(t) PROVE Inv'
<1>1. PICK c \in Channels :
        /\ push_lock' = [push_lock EXCEPT ![c] = t]
        /\ push' = [push EXCEPT ![t] = [NoPush EXCEPT !.channel = c]]
  BY DEF Reserve
<1>2. PICK x \in Pushes : x = [NoPush EXCEPT !.channel = c]
  BY PushParts, Locals, OneChunk
<1>3. x.ok /\ x.channel = c BY <1>2 DEF NoPush
<1>4. /\ pc[t] = "reserve" /\ StepOf(t, "reserve_launch", x)
      /\ UNCHANGED <<chunkVars, fifo, executed, failed, fatal_error, launch_sem,
                     concurrent_pushes_sema, pushes>>
  BY <1>1, <1>2 DEF Reserve, Goto, errorVars, StepOf
<1>5. "reserve_launch" \in PcStates BY DEF PcStates
<1>6. push_lock' \in [Channels -> Threads \cup {None}] BY <1>1, Parts
<1>7. /\ fatal_error' \in BOOLEAN /\ pushes' \in 0 .. MaxPushes
      /\ concurrent_pushes_sema' \in Nat /\ launch_sem' \in Nat
  BY <1>4, Parts
<1>8. /\ One("reserve_launch" \in InPushStates) = 0 /\ One(pc[t] \in InPushStates) = 0
      /\ One("reserve_launch" \in LaunchStates) = 0 /\ One(pc[t] \in LaunchStates) = 0
      /\ "reserve_launch" \notin Writing /\ pc[t] \notin Writing
  BY <1>4, <1>5, PushParts, States
<1>9. x.channel \in Channels /\ ("reserve_launch" = "release" \/ ~x.ok => fatal_error')
  BY <1>1, <1>3
<1> QED BY <1>4, <1>5, <1>6, <1>7, <1>8, <1>9, QuietStep

LEMMA ReserveSpinInv == ASSUME Inv, NEW t \in Threads, ReserveSpin(t) PROVE Inv'
<1>0. [push[t] EXCEPT !.todo = Channels] \in Pushes BY PushParts DEF Pushes
<1>1. PICK x \in Pushes : x = [push[t] EXCEPT !.todo = Channels] BY <1>0
<1>2. x.ok = push[t].ok BY <1>1, PushParts DEF Pushes
<1>3. /\ pc[t] = "reserve" /\ StepOf(t, "reserve_update", x)
      /\ UNCHANGED <<chunkVars, fifo, executed, push_lock, failed, fatal_error, launch_sem,
                     concurrent_pushes_sema, pushes>>
  BY <1>1 DEF ReserveSpin, Goto, channelVars, errorVars, StepOf
<1>4. "reserve_update" \in PcStates BY DEF PcStates
<1>5. ~x.ok => fatal_error' BY <1>3, <1>2, Parts DEF OwnInv
<1>6. /\ fatal_error' \in BOOLEAN /\ pushes' \in 0 .. MaxPushes
      /\ push_lock' \in [Channels -> Threads \cup {None}]
      /\ concurrent_pushes_sema' \in Nat /\ launch_sem' \in Nat
  BY <1>3, Parts
<1>7. /\ One("reserve_update" \in InPushStates) = 0 /\ One(pc[t] \in InPushStates) = 0
      /\ One("reserve_update" \in LaunchStates) = 0 /\ One(pc[t] \in LaunchStates) = 0
      /\ "reserve_update" \notin Writing /\ pc[t] \notin Writing
      /\ "reserve_update" \notin LaunchStates \cup {"reserve_launch"}
  BY <1>3, <1>4, PushParts, States
<1> QED BY <1>3, <1>4, <1>5, <1>6, <1>7, QuietStep

LEMMA ReserveCheckInv == ASSUME Inv, NEW t \in Threads, ReserveCheck(t) PROVE Inv'
<1>1. PICK s \in {"idle", "reserve"} : pc' = [pc EXCEPT ![t] = s]
  BY DEF ReserveCheck, Goto
<1>2. /\ pc[t] = "reserve_update" /\ fatal_error' = (fatal_error \/ failed # {})
      /\ UNCHANGED <<chunkVars, fifo, executed, push_lock, failed, launch_sem,
                     concurrent_pushes_sema, pushes, push>>
  BY DEF ReserveCheck, channelVars
<1>3. push[t] \in Pushes /\ StepOf(t, s, push[t]) /\ s \in PcStates
  BY <1>1, <1>2, PushParts DEF StepOf, PcStates
<1>4. fatal_error' \in BOOLEAN /\ (fatal_error => fatal_error') BY <1>2, Parts
<1>5. ~push[t].ok => fatal_error' BY <1>4, Parts DEF OwnInv
<1>6. /\ pushes' \in 0 .. MaxPushes /\ push_lock' \in [Channels -> Threads \cup {None}]
      /\ concurrent_pushes_sema' \in Nat /\ launch_sem' \in Nat
  BY <1>2, Parts
<1>7. /\ One(s \in InPushStates) = 0 /\ One(pc[t] \in InPushStates) = 0
      /\ One(s \in LaunchStates) = 0 /\ One(pc[t] \in LaunchStates) = 0
      /\ s \notin Writing /\ pc[t] \notin Writing
      /\ s \notin LaunchStates \cup {"reserve_launch"} /\ s # "release" /\ s # "write"
  BY <1>1, <1>2, <1>3, PushParts, States
<1> QED BY <1>2, <1>3, <1>4, <1>5, <1>6, <1>7, QuietStep

LEMMA ReserveLaunchInv == ASSUME Inv, NEW t \in Threads, ReserveLaunch(t) PROVE Inv'
<1>1. /\ pc[t] = "reserve_launch" /\ launch_sem > 0 /\ launch_sem' = launch_sem - 1
      /\ pc' = [pc EXCEPT ![t] = "down"]
      /\ UNCHANGED <<chunkVars, fifo, executed, push_lock, failed, fatal_error,
                     concurrent_pushes_sema, pushes, push>>
  BY DEF ReserveLaunch, Goto, channelVars, errorVars
<1>2. push[t] \in Pushes /\ StepOf(t, "down", push[t]) /\ "down" \in PcStates
  BY <1>1, PushParts DEF StepOf, PcStates
<1>3. (~push[t].ok => fatal_error') /\ push[t].channel \in Channels BY <1>1, Parts DEF OwnInv
<1>4. /\ launch_sem' \in Nat
      /\ launch_sem' + One("down" \in LaunchStates) = launch_sem + One(pc[t] \in LaunchStates)
      /\ launch_sem' + One("down" \in LaunchStates) <= launch_sem + One(pc[t] \in LaunchStates)
  BY <1>1, Parts DEF LaunchStates, InPushStates, One
<1>5. One("down" \in InPushStates) = One(pc[t] \in InPushStates) BY <1>1 DEF InPushStates, One
<1> QED BY <1>1, <1>2, <1>3, <1>4, <1>5, Parts, QuietStep DEF Writing

LEMMA SetBeginInv == ASSUME Inv, NEW t \in Threads, SetBegin(t) PROVE Inv'
<1> DEFINE b == ChunkOffset(push[t].chunk) + next_push_start[push[t].chunk]
<1>1. pc[t] = "begin" /\ push[t].chunk \in Chunks /\ push[t].channel \in Channels
  BY Parts DEF SetBegin, OwnInv, Writing, LaunchStates, InPushStates
<1>2. b \in Nat
  <2>1. next_push_start \in [Chunks -> 0 .. ChunkSize] /\ ChunkSize \in Nat
    BY Parts, ChunkTypes DEF ChunkOK
  <2>2. next_push_start[push[t].chunk] \in Nat BY <1>1, <2>1
  <2> QED BY <1>1, <2>2, ChunkOffsetType
<1> HIDE DEF b
<1>3. PICK x \in Pushes : x = [push[t] EXCEPT !.begin = b]
  <2>1. [push[t] EXCEPT !.begin = b] \in Pushes BY <1>2, PushParts DEF Pushes
  <2> QED BY <2>1
<1>4. /\ x.ok = push[t].ok /\ x.chunk = push[t].chunk /\ x.begin = b
      /\ x.channel = push[t].channel
  BY <1>3, PushParts DEF Pushes
<1>5. /\ StepOf(t, "write", x)
      /\ UNCHANGED <<chunkVars, fifo, executed, push_lock, failed, fatal_error, launch_sem,
                     concurrent_pushes_sema, pushes>>
  BY <1>3 DEF SetBegin, Goto, channelVars, errorVars, StepOf, b
<1>6. "write" \in PcStates BY DEF PcStates
<1>7. ~x.ok => fatal_error' BY <1>5, <1>4, Parts DEF OwnInv
<1>8. x.begin = ChunkOffset(x.chunk) + next_push_start[x.chunk] BY <1>4 DEF b
<1>9. pc[t] \in Writing BY <1>1 DEF Writing
<1>10. /\ fatal_error' \in BOOLEAN /\ pushes' \in 0 .. MaxPushes
       /\ push_lock' \in [Channels -> Threads \cup {None}]
       /\ concurrent_pushes_sema' \in Nat /\ launch_sem' \in Nat
  BY <1>5, Parts
<1>11. /\ One("write" \in InPushStates) = 1 /\ One(pc[t] \in InPushStates) = 1
       /\ One("write" \in LaunchStates) = 1 /\ One(pc[t] \in LaunchStates) = 1
       /\ "write" \in Writing
  BY <1>1, <1>6, PushParts, States
<1>12. /\ x.channel \in Channels /\ ("write" = "release" \/ ~x.ok => fatal_error')
       /\ "write" \in Writing => pc[t] \in Writing /\ x.chunk = push[t].chunk
  BY <1>1, <1>7, <1>9, <1>4
<1> QED BY <1>5, <1>6, <1>8, <1>10, <1>11, <1>12, QuietStep

LEMMA ReleaseAfterErrorInv == ASSUME Inv, NEW t \in Threads, ReleaseAfterError(t) PROVE Inv'
<1>1. /\ pc[t] = "release" /\ push_lock' = [push_lock EXCEPT ![push[t].channel] = None]
      /\ StepOf(t, "idle", NoPush)
      /\ UNCHANGED <<chunkVars, fifo, executed, failed, fatal_error, launch_sem,
                     concurrent_pushes_sema, pushes>>
  BY DEF ReleaseAfterError, Goto, errorVars, StepOf
<1>2. "idle" \in PcStates BY DEF PcStates
<1>3. push_lock' \in [Channels -> Threads \cup {None}] BY <1>1, Parts
<1>4. fatal_error BY <1>1, Parts DEF OwnInv
<1>5. /\ fatal_error' \in BOOLEAN /\ pushes' \in 0 .. MaxPushes /\ NoPush \in Pushes
      /\ NoPush.ok /\ concurrent_pushes_sema' \in Nat /\ launch_sem' \in Nat
  BY <1>1, Parts, PushParts
<1>6. /\ One("idle" \in InPushStates) = 0 /\ One(pc[t] \in InPushStates) = 0
      /\ One("idle" \in LaunchStates) = 0 /\ One(pc[t] \in LaunchStates) = 1
      /\ "idle" \notin Writing /\ pc[t] \notin Writing
      /\ "idle" \notin LaunchStates \cup {"reserve_launch"}
  BY <1>1, <1>2, PushParts, States
<1> QED BY <1>1, <1>2, <1>3, <1>4, <1>5, <1>6, QuietStep

\* Steps of the GPU, and stuttering.
LEMMA GpuInv ==
    ASSUME Inv, UNCHANGED <<chunkVars, concurrent_pushes_sema, fifo, push_lock, launch_sem,
                            fatal_error, pushes, pc, push>>,
           failed' \subseteq Channels,
           \/ executed' = executed
           \/ \E c \in Channels : /\ executed[c] < Len(fifo[c])
                                  /\ executed' = [executed EXCEPT ![c] = @ + 1]
    PROVE  Inv'
<1> USE DEF chunkVars
<1>1. /\ executed' \in [Channels -> Nat] /\ FifoInv'
  <2>1. FifoOK /\ FifoInv BY Parts
  <2>2. CASE executed' = executed BY <2>1, <2>2 DEF FifoOK, FifoInv
  <2>3. ASSUME NEW c \in Channels, executed[c] < Len(fifo[c]),
               executed' = [executed EXCEPT ![c] = @ + 1]
        PROVE  executed' \in [Channels -> Nat] /\ FifoInv'
    <3>1. executed[c] \in Nat /\ Len(fifo[c]) \in Nat BY <2>1 DEF FifoOK
    <3> QED BY <2>1, <2>3, <3>1 DEF FifoOK, FifoInv
  <2> QED BY <2>2, <2>3
<1>2. TypeOK' BY <1>1 DEF Inv, TypeOK
<1>3. ChunkInv' BY Parts DEF ChunkInv, PickableChunks
<1>4. OwnInv' BY Parts DEF OwnInv
<1>5. CountInv'
  <2>1. InPush' = InPush /\ Launching' = Launching BY DEF InPush, Launching
  <2> QED BY <2>1, Parts DEF CountInv
<1> QED BY <1>1, <1>2, <1>3, <1>4, <1>5 DEF Inv

-----------------------------------------------------------------------------
(* Chunks are claimed.                                                     *)

LEMMA ClaimFacts ==
    ASSUME Inv, NEW t \in Threads, PickableChunks # {}, ClaimChunk(t, PickChunk)
    PROVE  /\ PickChunk \in Chunks /\ current_push[PickChunk] = None
           /\ current_push' = [current_push EXCEPT ![PickChunk] = t]
           /\ next_push_start' = next_push_start
           /\ ChunkOK' /\ ChunkInv'
<1>1. ChunkOK /\ ChunkInv /\ t # None /\ Chunks \subseteq Nat
  BY Parts, ThreadAssumption, ChunkTypes
<1>2. idle_chunks \in SUBSET Nat /\ available_chunks \in SUBSET Nat BY <1>1 DEF ChunkOK
<1>3. PickChunk \in PickableChunks
  <2>1. CASE idle_chunks # {} BY <1>2, <2>1, MinIn DEF PickChunk, PickableChunks
  <2>2. CASE idle_chunks = {} BY <1>2, <2>2, MinIn DEF PickChunk, PickableChunks
  <2> QED BY <2>1, <2>2
<1>4. PICK c \in Chunks : c = PickChunk BY <1>1, <1>3 DEF PickableChunks, ChunkOK
<1>5. current_push[c] = None BY <1>1, <1>3, <1>4 DEF PickableChunks, ChunkInv
<1>6. /\ current_push' = [current_push EXCEPT ![c] = t]
      /\ idle_chunks' = idle_chunks \ {c} /\ available_chunks' = available_chunks \ {c}
      /\ next_push_start' = next_push_start /\ pending_gpfifos' = pending_gpfifos
  BY <1>4 DEF ClaimChunk
<1>7. ChunkOK' BY <1>1, <1>6 DEF ChunkOK
<1>8. ChunkInv'
  <2> SUFFICES ASSUME NEW k \in Chunks
               PROVE  /\ k \in idle_chunks' <=>
                           current_push'[k] = None /\ pending_gpfifos'[k] = <<>>
                      /\ k \in available_chunks' => current_push'[k] = None
                      /\ Placed(ChunkOffset(k), pending_gpfifos'[k])
                      /\ k \in PickableChunks' \/ current_push'[k] # None =>
                           FreeAt(ChunkOffset(k), pending_gpfifos'[k], next_push_start'[k])
    BY DEF ChunkInv
  <2>1. CASE k = c
    <3>1. current_push'[k] = t BY <1>1, <1>6, <2>1 DEF ChunkOK
    <3>2. k \notin idle_chunks' /\ k \notin available_chunks' BY <1>6, <2>1
    <3>3. k \in PickableChunks BY <1>3, <1>4, <2>1
    <3> QED BY <1>1, <1>6, <3>1, <3>2, <3>3 DEF ChunkInv
  <2>2. CASE k # c
    <3>1. current_push'[k] = current_push[k] BY <1>1, <1>6, <2>2 DEF ChunkOK
    <3>2. /\ k \in idle_chunks' <=> k \in idle_chunks
          /\ k \in available_chunks' <=> k \in available_chunks
      BY <1>6, <2>2
    <3> QED BY <1>1, <1>6, <3>1, <3>2 DEF ChunkInv, PickableChunks
  <2> QED BY <2>1, <2>2
<1> QED BY <1>4, <1>5, <1>6, <1>7, <1>8

\* A thread that claims a chunk has none, and the chunk was nobody's.  After an error it
\* goes away without it.
LEMMA ClaimOwned ==
    ASSUME Inv, NEW t \in Threads, NEW s \in PcStates, NEW x \in Pushes, StepOf(t, s, x),
           NEW c \in Chunks, current_push[c] = None,
           current_push' = [current_push EXCEPT ![c] = t], next_push_start' = next_push_start,
           fatal_error => fatal_error', pc[t] \notin Writing,
           \/ s = "begin" /\ x.chunk = c
           \/ s = "release" /\ fatal_error',
           x.channel \in Channels, ~x.ok => fatal_error'
    PROVE  OwnInv'
<1>1. /\ OwnInv /\ ChunkOK /\ pc'[t] = s /\ push'[t] = x /\ t # None
      /\ \A u \in Threads \ {t} : pc'[u] = pc[u] /\ push'[u] = push[u]
  BY Parts, StepOfFacts, ThreadAssumption
<1>2. /\ current_push'[c] = t
      /\ \A k \in Chunks : k # c => current_push'[k] = current_push[k]
  BY <1>1 DEF ChunkOK
<1>3. ASSUME NEW u \in Threads
      PROVE  /\ pc'[u] \in Writing => push'[u].chunk \in Chunks /\ current_push'[push'[u].chunk] = u
             /\ pc'[u] = "write" =>
                  push'[u].begin = ChunkOffset(push'[u].chunk) + next_push_start'[push'[u].chunk]
             /\ pc'[u] \in LaunchStates \cup {"reserve_launch"} => push'[u].channel \in Channels
             /\ pc'[u] = "release" \/ ~push'[u].ok => fatal_error'
  <2>1. CASE u = t BY <1>1, <1>2, <2>1 DEF Writing
  <2>2. CASE u # t
    <3>1. pc'[u] = pc[u] /\ push'[u] = push[u] BY <1>1, <2>2
    <3>2. pc[u] \in Writing => push[u].chunk \in Chunks /\ current_push[push[u].chunk] = u
      BY <1>1 DEF OwnInv
    <3>3. u # None BY ThreadAssumption
    <3>4. pc[u] \in Writing => current_push'[push[u].chunk] = u
      BY <1>2, <3>2, <3>3
    <3> QED BY <1>1, <3>1, <3>2, <3>4 DEF OwnInv
  <2> QED BY <2>1, <2>2
<1>4. ASSUME ~fatal_error', NEW k \in Chunks, current_push'[k] # None
      PROVE  pc'[current_push'[k]] \in Writing /\ push'[current_push'[k]].chunk = k
  <2>1. CASE k = c BY <1>1, <1>2, <1>4, <2>1 DEF Writing
  <2>2. CASE k # c
    <3>1. /\ current_push'[k] = current_push[k] /\ ~fatal_error /\ current_push[k] \in Threads
      BY <1>1, <1>2, <1>4, <2>2 DEF ChunkOK
    <3>2. pc[current_push[k]] \in Writing /\ push[current_push[k]].chunk = k
      BY <1>1, <1>4, <3>1 DEF OwnInv
    <3> QED BY <1>1, <3>1, <3>2
  <2> QED BY <2>1, <2>2
<1> QED BY <1>3, <1>4 DEF OwnInv

LEMMA DownAndTryInv == ASSUME Inv, NEW t \in Threads, DownAndTry(t) PROVE Inv'
<1>1. /\ pc[t] = "down" /\ concurrent_pushes_sema > 0
      /\ concurrent_pushes_sema' = concurrent_pushes_sema - 1
      /\ UNCHANGED <<fifo, executed, push_lock, launch_sem, failed, fatal_error, pushes>>
  BY DEF DownAndTry, channelVars, errorVars
<1>2. /\ push[t].channel \in Channels /\ (~push[t].ok => fatal_error) /\ push[t] \in Pushes
      /\ push[t].ok \in BOOLEAN
  BY <1>1, Parts, PushParts DEF OwnInv, LaunchStates
<1>3. /\ fatal_error' \in BOOLEAN /\ pushes' \in 0 .. MaxPushes /\ FifoOK' /\ FifoInv'
      /\ push_lock' \in [Channels -> Threads \cup {None}]
      /\ concurrent_pushes_sema' \in Nat /\ launch_sem' \in Nat
  <2>1. concurrent_pushes_sema' \in Nat BY <1>1, Parts
  <2> QED BY <1>1, <2>1, Parts DEF FifoOK, FifoInv
<1>4. /\ One(pc[t] \in InPushStates) = 0 /\ One(pc[t] \in LaunchStates) = 1 /\ pc[t] \notin Writing
      /\ \A s \in {"begin", "spin"} : /\ s \in PcStates /\ One(s \in InPushStates) = 1
                                      /\ One(s \in LaunchStates) = 1
      /\ "spin" \notin Writing
  BY <1>1 DEF Writing, InPushStates, LaunchStates, One, PcStates
<1>5. CASE PickableChunks # {}
  <2>1. PICK c \in Chunks : /\ c = PickChunk /\ current_push[c] = None
                            /\ current_push' = [current_push EXCEPT ![c] = t]
    BY <1>5, ClaimFacts DEF DownAndTry
  <2>2. next_push_start' = next_push_start /\ ChunkOK' /\ ChunkInv'
    BY <1>5, ClaimFacts DEF DownAndTry
  <2>3. PICK x \in Pushes : x = [push[t] EXCEPT !.chunk = c]
    <3>1. [push[t] EXCEPT !.chunk = c] \in Pushes BY <1>2, <2>1 DEF Pushes
    <3> QED BY <3>1
  <2>4. x.chunk = c /\ x.channel = push[t].channel /\ x.ok = push[t].ok
    BY <1>2, <2>3 DEF Pushes
  <2>5. StepOf(t, "begin", x) BY <1>5, <2>1, <2>3 DEF DownAndTry, Goto, StepOf
  <2>6. OwnInv' BY <1>1, <1>2, <1>4, <2>1, <2>2, <2>4, <2>5, ClaimOwned
  <2>7. /\ CountInv' /\ concurrent_pushes_sema' \in 0 .. ChunkCount
        /\ launch_sem' \in 0 .. Launchers
    <3>1. /\ concurrent_pushes_sema' + One("begin" \in InPushStates)
               = concurrent_pushes_sema + One(pc[t] \in InPushStates)
          /\ launch_sem' + One("begin" \in LaunchStates)
               = launch_sem + One(pc[t] \in LaunchStates)
          /\ launch_sem' + One("begin" \in LaunchStates)
               <= launch_sem + One(pc[t] \in LaunchStates)
      BY <1>1, <1>4, Parts
    <3>2. "begin" \in PcStates BY <1>4
    <3> QED BY <1>1, <1>3, <2>5, <3>1, <3>2, CountStep
  <2> QED BY <1>1, <1>3, <1>4, <2>2, <2>5, <2>6, <2>7, StepInv
<1>6. CASE PickableChunks = {}
  <2>1. PICK x \in Pushes : x = [push[t] EXCEPT !.todo = Channels]
    <3>1. [push[t] EXCEPT !.todo = Channels] \in Pushes BY <1>2 DEF Pushes
    <3> QED BY <3>1
  <2>2. x.channel = push[t].channel /\ x.ok = push[t].ok BY <1>2, <2>1 DEF Pushes
  <2>3. StepOf(t, "spin", x) /\ UNCHANGED chunkVars
    BY <1>6, <2>1 DEF DownAndTry, Goto, StepOf
  <2>4. /\ concurrent_pushes_sema' + One("spin" \in InPushStates)
             = concurrent_pushes_sema + One(pc[t] \in InPushStates)
        /\ launch_sem' + One("spin" \in LaunchStates)
             = launch_sem + One(pc[t] \in LaunchStates)
        /\ launch_sem' + One("spin" \in LaunchStates)
             <= launch_sem + One(pc[t] \in LaunchStates)
    BY <1>1, <1>4, Parts
  <2>5. "spin" \in PcStates /\ x.channel \in Channels /\ (~x.ok => fatal_error')
    BY <1>1, <1>2, <1>4, <2>2
  <2> QED BY <1>1, <1>3, <1>4, <2>3, <2>4, <2>5, QuietStep
<1> QED BY <1>5, <1>6

LEMMA SpinTryInv == ASSUME Inv, NEW t \in Threads, SpinTry(t) PROVE Inv'
<1>1. /\ pc[t] = "spin" /\ UNCHANGED <<fifo, executed, push_lock, launch_sem, failed, pushes>>
      /\ IF PickableChunks # {} THEN ClaimChunk(t, PickChunk) ELSE UNCHANGED chunkVars
  BY DEF SpinTry, channelVars
<1>2. /\ push[t].channel \in Channels /\ (~push[t].ok => fatal_error) /\ push[t] \in Pushes
      /\ push[t].ok \in BOOLEAN
  BY <1>1, Parts, PushParts DEF OwnInv, LaunchStates, InPushStates
<1>3. /\ pushes' \in 0 .. MaxPushes /\ FifoOK' /\ FifoInv'
      /\ push_lock' \in [Channels -> Threads \cup {None}]
      /\ launch_sem' \in Nat /\ concurrent_pushes_sema \in Nat /\ fatal_error \in BOOLEAN
  BY <1>1, Parts DEF FifoOK, FifoInv
<1>4. /\ One(pc[t] \in InPushStates) = 1 /\ One(pc[t] \in LaunchStates) = 1 /\ pc[t] \notin Writing
      /\ \A s \in {"begin", "spin", "release"} : s \in PcStates /\ One(s \in LaunchStates) = 1
      /\ One("begin" \in InPushStates) = 1 /\ One("spin" \in InPushStates) = 1
      /\ One("release" \in InPushStates) = 0 /\ "spin" \notin Writing /\ "release" \notin Writing
  BY <1>1 DEF Writing, InPushStates, LaunchStates, One, PcStates
<1>5. ASSUME PickableChunks # {}
      PROVE  \E c \in Chunks : /\ c = PickChunk /\ current_push[c] = None
                               /\ current_push' = [current_push EXCEPT ![c] = t]
                               /\ next_push_start' = next_push_start /\ ChunkOK' /\ ChunkInv'
  BY <1>1, <1>5, ClaimFacts
<1>6. CASE /\ ~push[t].ok
           /\ concurrent_pushes_sema' = concurrent_pushes_sema + 1
           /\ pc' = [pc EXCEPT ![t] = "release"]
           /\ UNCHANGED <<push, fatal_error>>
  <2>1. StepOf(t, "release", push[t]) BY <1>6, PushParts DEF StepOf
  <2>2. /\ fatal_error' /\ fatal_error' \in BOOLEAN /\ concurrent_pushes_sema' \in Nat
    BY <1>2, <1>3, <1>6
  <2>3. /\ concurrent_pushes_sema' + One("release" \in InPushStates)
             = concurrent_pushes_sema + One(pc[t] \in InPushStates)
        /\ launch_sem' + One("release" \in LaunchStates)
             = launch_sem + One(pc[t] \in LaunchStates)
        /\ launch_sem' + One("release" \in LaunchStates)
             <= launch_sem + One(pc[t] \in LaunchStates)
        /\ "release" \in PcStates
    BY <1>1, <1>3, <1>4, <1>6
  <2>4. CASE PickableChunks # {}
    <3>1. PICK c \in Chunks : /\ current_push[c] = None
                              /\ current_push' = [current_push EXCEPT ![c] = t]
                              /\ next_push_start' = next_push_start /\ ChunkOK' /\ ChunkInv'
      BY <1>5, <2>4
    <3>2. OwnInv' BY <1>2, <1>4, <2>1, <2>2, <2>3, <3>1, ClaimOwned
    <3>3. /\ CountInv' /\ concurrent_pushes_sema' \in 0 .. ChunkCount
          /\ launch_sem' \in 0 .. Launchers
      BY <1>2, <1>3, <2>1, <2>2, <2>3, CountStep
    <3> QED BY <1>1, <1>2, <1>3, <2>1, <2>2, <2>3, <3>1, <3>2, <3>3, StepInv
  <2>5. CASE PickableChunks = {}
    <3>1. UNCHANGED chunkVars BY <1>1, <2>5
    <3> QED BY <1>1, <1>2, <1>3, <1>4, <2>1, <2>2, <2>3, <3>1, QuietStep
  <2> QED BY <2>4, <2>5
<1>7. CASE /\ push[t].ok /\ PickableChunks # {}
           /\ push' = [push EXCEPT ![t].chunk = PickChunk]
           /\ pc' = [pc EXCEPT ![t] = "begin"]
           /\ UNCHANGED <<concurrent_pushes_sema, fatal_error>>
  <2>1. PICK c \in Chunks : /\ c = PickChunk /\ current_push[c] = None
                            /\ current_push' = [current_push EXCEPT ![c] = t]
                            /\ next_push_start' = next_push_start /\ ChunkOK' /\ ChunkInv'
    BY <1>5, <1>7
  <2>2. PICK x \in Pushes : x = [push[t] EXCEPT !.chunk = c]
    <3>1. [push[t] EXCEPT !.chunk = c] \in Pushes BY <1>2, <2>1 DEF Pushes
    <3> QED BY <3>1
  <2>3. x.chunk = c /\ x.channel \in Channels /\ x.ok
    BY <1>2, <1>7, <2>2 DEF Pushes
  <2>4. StepOf(t, "begin", x) BY <1>7, <2>1, <2>2 DEF StepOf
  <2>5. /\ concurrent_pushes_sema' + One("begin" \in InPushStates)
             = concurrent_pushes_sema + One(pc[t] \in InPushStates)
        /\ launch_sem' + One("begin" \in LaunchStates)
             = launch_sem + One(pc[t] \in LaunchStates)
        /\ launch_sem' + One("begin" \in LaunchStates)
             <= launch_sem + One(pc[t] \in LaunchStates)
        /\ "begin" \in PcStates /\ concurrent_pushes_sema' \in Nat
    BY <1>1, <1>3, <1>4, <1>7
  <2>6. OwnInv' BY <1>4, <1>7, <2>1, <2>3, <2>4, <2>5, ClaimOwned
  <2>7. /\ CountInv' /\ concurrent_pushes_sema' \in 0 .. ChunkCount
        /\ launch_sem' \in 0 .. Launchers
    BY <1>3, <1>7, <2>4, <2>5, CountStep
  <2> QED BY <1>1, <1>3, <1>7, <2>1, <2>4, <2>5, <2>6, <2>7, StepInv
<1>8. CASE /\ push[t].ok /\ PickableChunks = {}
           /\ fatal_error' = (fatal_error \/ failed # {})
           /\ push' = [push EXCEPT ![t].ok = ~fatal_error', ![t].todo = Channels]
           /\ UNCHANGED <<concurrent_pushes_sema, pc>>
  <2>1. fatal_error' \in BOOLEAN /\ (fatal_error => fatal_error') BY <1>3, <1>8
  <2>2. PICK b \in BOOLEAN : b = ~fatal_error' BY <2>1
  <2>3. PICK x \in Pushes : x = [push[t] EXCEPT !.ok = b, !.todo = Channels]
    <3>1. [push[t] EXCEPT !.ok = b, !.todo = Channels] \in Pushes BY <1>2, <2>2 DEF Pushes
    <3> QED BY <3>1
  <2>4. x.channel \in Channels /\ x.ok = b BY <1>2, <2>3 DEF Pushes
  <2>5. StepOf(t, "spin", x) /\ UNCHANGED chunkVars
    BY <1>1, <1>8, <2>2, <2>3, PushParts DEF StepOf
  <2>6. /\ concurrent_pushes_sema' + One("spin" \in InPushStates)
             = concurrent_pushes_sema + One(pc[t] \in InPushStates)
        /\ launch_sem' + One("spin" \in LaunchStates)
             = launch_sem + One(pc[t] \in LaunchStates)
        /\ launch_sem' + One("spin" \in LaunchStates)
             <= launch_sem + One(pc[t] \in LaunchStates)
        /\ "spin" \in PcStates /\ concurrent_pushes_sema' \in Nat
    BY <1>1, <1>3, <1>4, <1>8
  <2>7. ~x.ok => fatal_error' BY <2>2, <2>4
  <2> QED BY <1>1, <1>3, <1>4, <2>1, <2>4, <2>5, <2>6, <2>7, QuietStep
<1> QED BY <1>6, <1>7, <1>8 DEF SpinTry, Goto

-----------------------------------------------------------------------------
(* Entries come and go.                                                    *)

\* update_chunk() of a chunk without a push, whose list has become list.
LEMMA UpdateChunkFacts ==
    ASSUME Inv, NEW k \in Chunks, NEW list \in Seq(GpfifoEntries),
           Placed(ChunkOffset(k), list),
           pending_gpfifos' = [pending_gpfifos EXCEPT ![k] = list], UpdateChunk(k, list),
           current_push' \in [Chunks -> Threads \cup {None}], current_push'[k] = None,
           \A j \in Chunks : j # k => current_push'[j] = current_push[j],
           k \in PickableChunks => FreeAt(ChunkOffset(k), list, next_push_start[k]),
           list # <<>> => k \notin idle_chunks
    PROVE  /\ ChunkOK' /\ ChunkInv'
           /\ \A j \in Chunks : j # k => next_push_start'[j] = next_push_start[j]
<1>1. ChunkOK /\ ChunkInv BY Parts
<1> DEFINE start == NextStart(k, list)
<1>2. start # -1 => start \in 0 .. ChunkSize /\ FreeAt(ChunkOffset(k), list, start)
  BY NextStartFree DEF FreeAt
<1>3. start = -1 => list # <<>>
  BY DEF NextStart, GpuGet, CpuPut
<1>4. /\ idle_chunks' = (IF list = <<>> THEN idle_chunks \cup {k} ELSE idle_chunks)
      /\ available_chunks' = (IF start = -1 THEN available_chunks
                              ELSE available_chunks \cup {k})
      /\ next_push_start' = IF start = -1 THEN next_push_start
                            ELSE [next_push_start EXCEPT ![k] = start]
  BY DEF UpdateChunk
<1> HIDE DEF start
<1>5. /\ next_push_start' \in [Chunks -> 0 .. ChunkSize]
      /\ \A j \in Chunks : j # k => next_push_start'[j] = next_push_start[j]
      /\ next_push_start'[k] = IF start = -1 THEN next_push_start[k] ELSE start
  BY <1>1, <1>2, <1>4 DEF ChunkOK
<1>6. /\ pending_gpfifos' \in [Chunks -> Seq(GpfifoEntries)] /\ pending_gpfifos'[k] = list
      /\ \A j \in Chunks : j # k => pending_gpfifos'[j] = pending_gpfifos[j]
  BY <1>1 DEF ChunkOK
<1>7. idle_chunks' \subseteq Chunks /\ available_chunks' \subseteq Chunks
  BY <1>1, <1>4 DEF ChunkOK
<1>8. ChunkInv'
  <2> SUFFICES ASSUME NEW j \in Chunks
               PROVE  /\ j \in idle_chunks' <=>
                           current_push'[j] = None /\ pending_gpfifos'[j] = <<>>
                      /\ j \in available_chunks' => current_push'[j] = None
                      /\ Placed(ChunkOffset(j), pending_gpfifos'[j])
                      /\ j \in PickableChunks' \/ current_push'[j] # None =>
                           FreeAt(ChunkOffset(j), pending_gpfifos'[j], next_push_start'[j])
    BY DEF ChunkInv
  <2>1. CASE j = k
    <3>1. j \in idle_chunks' <=> list = <<>> BY <1>4, <2>1
    <3>2. j \in PickableChunks' => j \in PickableChunks \/ start # -1
      BY <1>3, <1>4, <2>1 DEF PickableChunks
    <3>3. j \in PickableChunks' => FreeAt(ChunkOffset(k), list, next_push_start'[k])
      BY <1>2, <1>5, <2>1, <3>2
    <3> QED BY <1>6, <2>1, <3>1, <3>3
  <2>2. CASE j # k
    <3>1. /\ j \in idle_chunks' <=> j \in idle_chunks
          /\ j \in available_chunks' <=> j \in available_chunks
      BY <1>4, <2>2
    <3>2. /\ current_push'[j] = current_push[j] /\ pending_gpfifos'[j] = pending_gpfifos[j]
          /\ next_push_start'[j] = next_push_start[j]
      BY <1>5, <1>6, <2>2
    <3> QED BY <1>1, <3>1, <3>2 DEF ChunkInv, PickableChunks
  <2> QED BY <2>1, <2>2
<1> QED BY <1>5, <1>6, <1>7, <1>8 DEF ChunkOK

\* A chunk that nobody else has is left without a push.
LEMMA OwnLeft ==
    ASSUME Inv, NEW t \in Threads, NEW s \in PcStates, NEW x \in Pushes, StepOf(t, s, x),
           NEW k \in Chunks, current_push[k] \in {None, t}, current_push'[k] = None,
           \A j \in Chunks : j # k => /\ current_push'[j] = current_push[j]
                                      /\ next_push_start'[j] = next_push_start[j],
           fatal_error => fatal_error', s \notin Writing,
           pc[t] \in Writing => push[t].chunk = k,
           s \in LaunchStates \cup {"reserve_launch"} => x.channel \in Channels,
           s = "release" \/ ~x.ok => fatal_error'
    PROVE  OwnInv'
<1>1. /\ OwnInv /\ ChunkOK /\ pc'[t] = s /\ push'[t] = x
      /\ \A u \in Threads \ {t} : pc'[u] = pc[u] /\ push'[u] = push[u]
  BY Parts, StepOfFacts
<1>2. ASSUME NEW u \in Threads
      PROVE  /\ pc'[u] \in Writing => push'[u].chunk \in Chunks /\ current_push'[push'[u].chunk] = u
             /\ pc'[u] = "write" =>
                  push'[u].begin = ChunkOffset(push'[u].chunk) + next_push_start'[push'[u].chunk]
             /\ pc'[u] \in LaunchStates \cup {"reserve_launch"} => push'[u].channel \in Channels
             /\ pc'[u] = "release" \/ ~push'[u].ok => fatal_error'
  <2>1. CASE u = t BY <1>1, <2>1 DEF Writing
  <2>2. CASE u # t
    <3>1. pc'[u] = pc[u] /\ push'[u] = push[u] BY <1>1, <2>2
    <3>2. pc[u] \in Writing => push[u].chunk \in Chunks /\ current_push[push[u].chunk] = u
      BY <1>1 DEF OwnInv
    <3>3. pc[u] \in Writing => push[u].chunk # k BY <2>2, <3>2, ThreadAssumption
    <3>4. pc[u] \in Writing => /\ current_push'[push[u].chunk] = u
                               /\ next_push_start'[push[u].chunk] = next_push_start[push[u].chunk]
      BY <3>2, <3>3
    <3>5. pc[u] = "write" => pc[u] \in Writing BY DEF Writing
    <3> QED BY <1>1, <3>1, <3>2, <3>4, <3>5 DEF OwnInv
  <2> QED BY <2>1, <2>2
<1>3. ASSUME ~fatal_error', NEW j \in Chunks, current_push'[j] # None
      PROVE  pc'[current_push'[j]] \in Writing /\ push'[current_push'[j]].chunk = j
  <2>1. /\ j # k /\ current_push'[j] = current_push[j] /\ ~fatal_error
        /\ current_push[j] \in Threads
    BY <1>1, <1>3 DEF ChunkOK
  <2>2. pc[current_push[j]] \in Writing /\ push[current_push[j]].chunk = j
    BY <1>1, <1>3, <2>1 DEF OwnInv
  <2>3. current_push[j] # t BY <2>1, <2>2
  <2> QED BY <1>1, <2>1, <2>2, <2>3
<1> QED BY <1>2, <1>3 DEF OwnInv

LEMMA EndPushInv == ASSUME Inv, NEW t \in Threads, EndPush(t) PROVE Inv'
<1>1. /\ pc[t] = "write" /\ StepOf(t, "idle", NoPush)
      /\ launch_sem' = launch_sem + 1 /\ concurrent_pushes_sema' = concurrent_pushes_sema + 1
      /\ UNCHANGED <<executed, failed, fatal_error, pushes>>
  BY DEF EndPush, Goto, StepOf, errorVars
<1>2. PICK k \in Chunks : k = push[t].chunk /\ current_push[k] = t
  BY <1>1, Parts DEF OwnInv, Writing
<1>3. PICK c \in Channels : c = push[t].channel
  BY <1>1, Parts DEF OwnInv, LaunchStates, InPushStates
<1>4. PICK start \in Nat : start = next_push_start[k]
  BY <1>2, Parts, ChunkTypes DEF ChunkOK
<1>5. push[t].begin = ChunkOffset(k) + start BY <1>1, <1>2, <1>4, Parts DEF OwnInv
<1>6. t # None BY ThreadAssumption
<1>7. /\ FreeAt(ChunkOffset(k), pending_gpfifos[k], start)
      /\ Placed(ChunkOffset(k), pending_gpfifos[k])
      /\ k \notin idle_chunks /\ k \notin available_chunks
  BY <1>2, <1>4, <1>6, Parts DEF ChunkInv
<1>8. start < ChunkSize BY <1>7, ChunkTypes DEF FreeAt
<1>9. OffsetToChunk(ChunkOffset(k) + start) = k BY <1>8, OffsetInChunk
<1>10. PICK size \in PushSizes :
         LET e == [chan |-> push[t].channel, off |-> push[t].begin, size |-> size]
         IN  /\ fifo' = [fifo EXCEPT ![push[t].channel] = Append(@, e)]
             /\ EndPushInChunk(OffsetToChunk(e.off), e)
             /\ push_lock' = [push_lock EXCEPT ![push[t].channel] = None]
  BY DEF EndPush
<1>11. PICK e \in GpfifoEntries :
         /\ e = [chan |-> push[t].channel, off |-> push[t].begin, size |-> size]
         /\ e.off = ChunkOffset(k) + start /\ e.size \in 1 .. MaxPushSize
  <2>1. size \in 1 .. MaxPushSize /\ size \in Nat BY <1>10, SizeAssumption
  <2>2. push[t].begin \in Nat BY <1>4, <1>5, ChunkOffsetType
  <2>3. [chan |-> push[t].channel, off |-> push[t].begin, size |-> size] \in GpfifoEntries
    BY <1>3, <2>1, <2>2 DEF GpfifoEntries
  <2> QED BY <1>5, <2>1, <2>3
<1>12. /\ fifo' = [fifo EXCEPT ![c] = Append(fifo[c], e)] /\ EndPushInChunk(k, e)
       /\ push_lock' = [push_lock EXCEPT ![c] = None]
  BY <1>3, <1>9, <1>10, <1>11
<1>13. PICK list \in Seq(GpfifoEntries) :
         list = Append(pending_gpfifos[k], e) /\ Placed(ChunkOffset(k), list) /\ list # <<>>
  <2>1. pending_gpfifos[k] \in Seq(GpfifoEntries) /\ ChunkOffset(k) \in Nat
    BY Parts, ChunkOffsetType DEF ChunkOK
  <2>2. /\ Append(pending_gpfifos[k], e) \in Seq(GpfifoEntries)
        /\ Placed(ChunkOffset(k), Append(pending_gpfifos[k], e))
    BY <1>4, <1>7, <1>11, <2>1, AppendKeeps
  <2>3. Append(pending_gpfifos[k], e) # <<>> BY <1>11, <2>1
  <2> QED BY <2>2, <2>3
<1>14. /\ pending_gpfifos' = [pending_gpfifos EXCEPT ![k] = list] /\ UpdateChunk(k, list)
       /\ current_push' = [current_push EXCEPT ![k] = None]
  BY <1>12, <1>13 DEF EndPushInChunk
<1>15. /\ current_push' \in [Chunks -> Threads \cup {None}] /\ current_push'[k] = None
       /\ \A j \in Chunks : j # k => current_push'[j] = current_push[j]
  BY <1>14, Parts DEF ChunkOK
<1>16. /\ ChunkOK' /\ ChunkInv'
       /\ \A j \in Chunks : j # k => next_push_start'[j] = next_push_start[j]
  <2>1. /\ k \in PickableChunks => FreeAt(ChunkOffset(k), list, next_push_start[k])
        /\ list # <<>> => k \notin idle_chunks
    BY <1>7 DEF PickableChunks
  <2> QED BY <1>13, <1>14, <1>15, <2>1, UpdateChunkFacts
<1>17. FifoOK' /\ FifoInv'
  <2>1. FifoOK /\ FifoInv BY Parts
  <2>2. fifo[c] \in Seq(GpfifoEntries) /\ Len(fifo[c]) \in Nat BY <2>1 DEF FifoOK
  <2>3. PICK new \in Seq(GpfifoEntries) :
          /\ new = Append(fifo[c], e) /\ Len(new) = Len(fifo[c]) + 1
          /\ \A i \in DOMAIN new : new[i] = e \/ (i \in DOMAIN fifo[c] /\ new[i] = fifo[c][i])
    <3>1. /\ Append(fifo[c], e) \in Seq(GpfifoEntries)
          /\ Len(Append(fifo[c], e)) = Len(fifo[c]) + 1
      BY <1>11, <2>2
    <3>2. \A i \in 1 .. Len(fifo[c]) + 1 :
            Append(fifo[c], e)[i] = IF i <= Len(fifo[c]) THEN fifo[c][i] ELSE e
      BY <1>11, <2>2
    <3>3. \A i \in DOMAIN Append(fifo[c], e) :
            \/ Append(fifo[c], e)[i] = e
            \/ i \in DOMAIN fifo[c] /\ Append(fifo[c], e)[i] = fifo[c][i]
      BY <2>2, <3>1, <3>2
    <3> QED BY <3>1, <3>3
  <2>4. /\ fifo' \in [Channels -> Seq(GpfifoEntries)] /\ fifo'[c] = new
        /\ \A d \in Channels : d # c => fifo'[d] = fifo[d]
    BY <1>12, <2>1, <2>3 DEF FifoOK
  <2>5. FifoOK' BY <1>1, <2>1, <2>4 DEF FifoOK
  <2>6. ASSUME NEW d \in Channels
        PROVE  /\ executed'[d] <= Len(fifo'[d])
               /\ \A i \in DOMAIN fifo'[d] : OffsetToChunk(fifo'[d][i].off) \in Chunks
    <3>1. CASE d = c
      <4>1. executed[c] <= Len(fifo[c]) /\ executed[c] \in Nat BY <2>1 DEF FifoOK, FifoInv
      <4>2. executed'[d] <= Len(fifo'[d]) BY <1>1, <2>2, <2>3, <2>4, <3>1, <4>1
      <4>3. \A i \in DOMAIN new : OffsetToChunk(new[i].off) \in Chunks
        BY <1>9, <1>11, <2>1, <2>3 DEF FifoInv
      <4> QED BY <2>4, <3>1, <4>2, <4>3
    <3>2. CASE d # c BY <1>1, <2>1, <2>4, <3>2 DEF FifoInv
    <3> QED BY <3>1, <3>2
  <2> QED BY <2>5, <2>6 DEF FifoInv
<1>18. /\ "idle" \in PcStates /\ NoPush \in Pushes /\ NoPush.ok /\ "idle" \notin Writing
       /\ "idle" \notin LaunchStates \cup {"reserve_launch"}
       /\ One("idle" \in InPushStates) = 0 /\ One(pc[t] \in InPushStates) = 1
       /\ One("idle" \in LaunchStates) = 0 /\ One(pc[t] \in LaunchStates) = 1
  <2>1. "idle" \in PcStates BY DEF PcStates
  <2> QED BY <1>1, <2>1, PushParts, States
<1>19. OwnInv' BY <1>1, <1>2, <1>15, <1>16, <1>18, OwnLeft
<1>20. /\ concurrent_pushes_sema' \in Nat /\ launch_sem' \in Nat
       /\ fatal_error' \in BOOLEAN /\ pushes' \in 0 .. MaxPushes
       /\ push_lock' \in [Channels -> Threads \cup {None}]
  BY <1>1, <1>12, Parts
<1>21. /\ concurrent_pushes_sema' + One("idle" \in InPushStates)
            = concurrent_pushes_sema + One(pc[t] \in InPushStates)
       /\ launch_sem' + One("idle" \in LaunchStates) = launch_sem + One(pc[t] \in LaunchStates)
       /\ launch_sem' + One("idle" \in LaunchStates) <= launch_sem + One(pc[t] \in LaunchStates)
  BY <1>1, <1>18, <1>20, Parts
<1>22. /\ CountInv' /\ concurrent_pushes_sema' \in 0 .. ChunkCount
       /\ launch_sem' \in 0 .. Launchers
  BY <1>1, <1>18, <1>20, <1>21, CountStep
<1> QED BY <1>1, <1>16, <1>17, <1>18, <1>19, <1>20, <1>22, StepInv

\* uvm_pushbuffer_mark_completed(): a chunk with a push is left to the end of it.
LEMMA MarkCompletedFacts ==
    ASSUME Inv, NEW e \in GpfifoEntries, NEW k \in Chunks, k = OffsetToChunk(e.off),
           MarkCompleted(e)
    PROVE  /\ ChunkOK' /\ ChunkInv' /\ current_push' = current_push
           /\ \A j \in Chunks : j # k => next_push_start'[j] = next_push_start[j]
           /\ current_push[k] = None \/ next_push_start' = next_push_start
<1>1. /\ ChunkOK /\ ChunkInv /\ pending_gpfifos[k] \in Seq(GpfifoEntries)
      /\ ChunkOffset(k) \in Nat /\ next_push_start[k] \in Nat
  BY Parts, ChunkOffsetType, ChunkTypes DEF ChunkOK
<1>2. PICK i \in DOMAIN pending_gpfifos[k] :
        /\ pending_gpfifos' = [pending_gpfifos EXCEPT ![k] = RemoveAt(pending_gpfifos[k], i)]
        /\ IF MarkCompletedUpdates(k, i) THEN UpdateChunk(k, RemoveAt(pending_gpfifos[k], i))
           ELSE UNCHANGED <<idle_chunks, available_chunks, next_push_start>>
        /\ UNCHANGED current_push
  BY DEF MarkCompleted
<1>3. PICK rest \in Seq(GpfifoEntries) :
        rest = RemoveAt(pending_gpfifos[k], i) /\ Len(rest) = Len(pending_gpfifos[k]) - 1
  BY <1>1, <1>2, RemoveAtFacts
<1>4. /\ Placed(ChunkOffset(k), rest)
      /\ FreeAt(ChunkOffset(k), pending_gpfifos[k], next_push_start[k]) =>
           FreeAt(ChunkOffset(k), rest, next_push_start[k])
  <2>1. Placed(ChunkOffset(k), pending_gpfifos[k]) BY <1>1 DEF ChunkInv
  <2> QED BY <1>1, <1>2, <1>3, <2>1, RemoveKeeps
<1>5. k \in PickableChunks \/ current_push[k] # None =>
        FreeAt(ChunkOffset(k), rest, next_push_start[k])
  BY <1>1, <1>4 DEF ChunkInv
<1>6. k \notin idle_chunks
  <2>1. pending_gpfifos[k] # <<>> BY <1>2
  <2> QED BY <1>1, <2>1 DEF ChunkInv
<1>7. CASE MarkCompletedUpdates(k, i)
  <2>1. current_push[k] = None BY <1>7 DEF MarkCompletedUpdates
  <2>2. UpdateChunk(k, rest) BY <1>2, <1>3, <1>7
  <2>3. current_push' \in [Chunks -> Threads \cup {None}] BY <1>1, <1>2 DEF ChunkOK
  <2>4. /\ current_push' = current_push
        /\ pending_gpfifos' = [pending_gpfifos EXCEPT ![k] = rest]
    BY <1>2, <1>3
  <2>5. /\ ChunkOK' /\ ChunkInv'
        /\ \A j \in Chunks : j # k => next_push_start'[j] = next_push_start[j]
    BY <1>4, <1>5, <1>6, <2>1, <2>2, <2>3, <2>4, UpdateChunkFacts
  <2> QED BY <2>1, <2>4, <2>5
<1>8. CASE ~MarkCompletedUpdates(k, i)
  <2>1. /\ UNCHANGED <<idle_chunks, available_chunks, next_push_start, current_push>>
        /\ pending_gpfifos' = [pending_gpfifos EXCEPT ![k] = rest]
    BY <1>2, <1>3, <1>8
  <2>2. ChunkOK' BY <1>1, <2>1 DEF ChunkOK
  <2>3. /\ pending_gpfifos'[k] = rest
        /\ \A j \in Chunks : j # k => pending_gpfifos'[j] = pending_gpfifos[j]
    BY <1>1, <2>1 DEF ChunkOK
  <2>4. current_push[k] = None => rest # <<>>
    <3>1. ASSUME current_push[k] = None PROVE rest # <<>>
      <4>1. i # 1 /\ i # Len(pending_gpfifos[k]) /\ i \in 1 .. Len(pending_gpfifos[k])
        BY <1>1, <1>2, <1>8, <3>1 DEF MarkCompletedUpdates
      <4>2. Len(pending_gpfifos[k]) \in Nat BY <1>1
      <4>3. Len(rest) > 0 BY <1>3, <4>1, <4>2
      <4> QED BY <4>3
    <3> QED BY <3>1
  <2>5. ChunkInv'
    <3> SUFFICES ASSUME NEW j \in Chunks
                 PROVE  /\ j \in idle_chunks' <=>
                             current_push'[j] = None /\ pending_gpfifos'[j] = <<>>
                        /\ j \in available_chunks' => current_push'[j] = None
                        /\ Placed(ChunkOffset(j), pending_gpfifos'[j])
                        /\ j \in PickableChunks' \/ current_push'[j] # None =>
                             FreeAt(ChunkOffset(j), pending_gpfifos'[j], next_push_start'[j])
      BY DEF ChunkInv
    <3>0. PickableChunks' = PickableChunks BY <2>1 DEF PickableChunks
    <3>1. CASE j = k
      <4>1. j \in available_chunks => current_push[j] = None BY <1>1 DEF ChunkInv
      <4> QED BY <1>4, <1>5, <1>6, <2>1, <2>3, <2>4, <3>0, <3>1, <4>1
    <3>2. CASE j # k BY <1>1, <2>1, <2>3, <3>0, <3>2 DEF ChunkInv
    <3> QED BY <3>1, <3>2
  <2> QED BY <2>1, <2>2, <2>5
<1> QED BY <1>7, <1>8

LEMMA UpdateProgressInv == ASSUME Inv, NEW t \in Threads, UpdateProgress(t) PROVE Inv'
<1>1. /\ pc[t] \in {"reserve_update", "spin"} /\ push[t].todo # {}
      /\ UNCHANGED <<concurrent_pushes_sema, push_lock, launch_sem, failed, fatal_error,
                     pushes, pc>>
  BY DEF UpdateProgress, errorVars
<1>2. PICK c \in Channels : c = Min(push[t].todo)
  <2>1. push[t].todo \in SUBSET Nat /\ push[t].todo \subseteq Channels
    BY PushParts, ChannelAssumption
  <2> QED BY <1>1, <2>1, MinIn
<1>3. /\ fatal_error' \in BOOLEAN /\ pushes' \in 0 .. MaxPushes
      /\ push_lock' \in [Channels -> Threads \cup {None}]
      /\ concurrent_pushes_sema' \in Nat /\ launch_sem' \in Nat
  BY <1>1, Parts
<1>4. /\ pc[t] \in PcStates /\ push[t] \in Pushes /\ push[t].ok \in BOOLEAN
      /\ pc[t] \notin Writing
      /\ One(pc[t] \in InPushStates) \in Nat /\ One(pc[t] \in LaunchStates) \in Nat
      /\ pc[t] \in LaunchStates \cup {"reserve_launch"} => push[t].channel \in Channels
      /\ pc[t] = "release" \/ ~push[t].ok => fatal_error'
  <2>1. pc[t] \notin Writing BY <1>1 DEF Writing
  <2>2. One(pc[t] \in InPushStates) \in Nat /\ One(pc[t] \in LaunchStates) \in Nat BY DEF One
  <2> QED BY <1>1, <2>1, <2>2, Parts, PushParts DEF OwnInv
<1>5. CASE executed[c] > 0
  <2>1. /\ MarkCompleted(Head(fifo[c])) /\ fifo' = [fifo EXCEPT ![c] = Tail(fifo[c])]
        /\ executed' = [executed EXCEPT ![c] = executed[c] - 1] /\ push' = push
    BY <1>2, <1>5 DEF UpdateProgress
  <2>2. /\ FifoOK /\ FifoInv /\ fifo[c] \in Seq(GpfifoEntries) /\ executed[c] \in Nat
        /\ executed[c] <= Len(fifo[c]) /\ Len(fifo[c]) \in Nat
    BY Parts DEF FifoOK, FifoInv
  <2>3. fifo[c] # <<>> BY <1>5, <2>2
  <2>4. PICK e \in GpfifoEntries : e = Head(fifo[c]) /\ OffsetToChunk(e.off) \in Chunks
    <3>1. 1 \in DOMAIN fifo[c] /\ Head(fifo[c]) = fifo[c][1] /\ fifo[c][1] \in GpfifoEntries
      BY <2>2, <2>3
    <3> QED BY <2>2, <3>1 DEF FifoInv
  <2>5. PICK k \in Chunks : k = OffsetToChunk(e.off) BY <2>4
  <2>6. /\ ChunkOK' /\ ChunkInv' /\ current_push' = current_push
        /\ \A j \in Chunks : j # k => next_push_start'[j] = next_push_start[j]
        /\ current_push[k] = None \/ next_push_start' = next_push_start
    BY <2>1, <2>4, <2>5, MarkCompletedFacts
  <2>7. StepOf(t, pc[t], push[t]) BY <1>1, <2>1, PushParts DEF StepOf
  <2>8. OwnInv'
    <3>1. CASE current_push[k] = None BY <1>1, <1>4, <2>6, <2>7, <3>1, OwnLeft
    <3>2. CASE next_push_start' = next_push_start
      <4>1. pc[t] # "write" BY <1>1
      <4> QED BY <1>1, <1>4, <2>6, <2>7, <3>2, <4>1, OwnStep
    <3> QED BY <2>6, <3>1, <3>2
  <2>9. /\ CountInv' /\ concurrent_pushes_sema' \in 0 .. ChunkCount
        /\ launch_sem' \in 0 .. Launchers
    <3>1. /\ concurrent_pushes_sema' + One(pc[t] \in InPushStates)
               = concurrent_pushes_sema + One(pc[t] \in InPushStates)
          /\ launch_sem' + One(pc[t] \in LaunchStates) = launch_sem + One(pc[t] \in LaunchStates)
          /\ launch_sem' + One(pc[t] \in LaunchStates) <= launch_sem + One(pc[t] \in LaunchStates)
      BY <1>1, <1>3, <1>4
    <3> QED BY <1>1, <1>3, <1>4, <2>7, <3>1, CountStep
  <2>10. FifoOK' /\ FifoInv'
    <3>1. PICK new \in Seq(GpfifoEntries) :
            /\ new = Tail(fifo[c]) /\ Len(new) = Len(fifo[c]) - 1
            /\ \A i \in DOMAIN new : i + 1 \in DOMAIN fifo[c] /\ new[i] = fifo[c][i + 1]
      <4>1. /\ Tail(fifo[c]) \in Seq(GpfifoEntries)
            /\ Len(Tail(fifo[c])) = Len(fifo[c]) - 1
        BY <2>2, <2>3
      <4>2. \A i \in 1 .. Len(fifo[c]) - 1 : Tail(fifo[c])[i] = fifo[c][i + 1]
        BY <2>2, <2>3
      <4>3. \A i \in DOMAIN Tail(fifo[c]) :
              i + 1 \in DOMAIN fifo[c] /\ Tail(fifo[c])[i] = fifo[c][i + 1]
        BY <2>2, <4>1, <4>2
      <4> QED BY <4>1, <4>3
    <3>2. /\ fifo' \in [Channels -> Seq(GpfifoEntries)] /\ fifo'[c] = new
          /\ \A d \in Channels : d # c => fifo'[d] = fifo[d]
          /\ executed' \in [Channels -> Nat] /\ executed'[c] = executed[c] - 1
          /\ \A d \in Channels : d # c => executed'[d] = executed[d]
      BY <1>5, <2>1, <2>2, <3>1 DEF FifoOK
    <3>3. FifoOK' BY <3>2 DEF FifoOK
    <3>4. ASSUME NEW d \in Channels
          PROVE  /\ executed'[d] <= Len(fifo'[d])
                 /\ \A i \in DOMAIN fifo'[d] : OffsetToChunk(fifo'[d][i].off) \in Chunks
      <4>1. CASE d = c
        <5>1. executed'[d] <= Len(fifo'[d]) BY <2>2, <3>1, <3>2, <4>1
        <5>2. \A i \in DOMAIN new : OffsetToChunk(new[i].off) \in Chunks
          BY <2>2, <3>1 DEF FifoInv
        <5> QED BY <3>2, <4>1, <5>1, <5>2
      <4>2. CASE d # c BY <2>2, <3>2, <4>2 DEF FifoInv
      <4> QED BY <4>1, <4>2
    <3> QED BY <3>3, <3>4 DEF FifoInv
  <2> QED BY <1>1, <1>3, <1>4, <2>6, <2>7, <2>8, <2>9, <2>10, StepInv
<1>6. CASE ~ (executed[c] > 0)
  <2>1. PICK todo \in SUBSET Channels : todo = push[t].todo \ {c} BY PushParts
  <2>2. PICK x \in Pushes : x = [push[t] EXCEPT !.todo = todo]
    <3>1. [push[t] EXCEPT !.todo = todo] \in Pushes BY <1>4, <2>1 DEF Pushes
    <3> QED BY <3>1
  <2>3. x.channel = push[t].channel /\ x.ok = push[t].ok BY <1>4, <2>2 DEF Pushes
  <2>4. push' = [push EXCEPT ![t] = x] /\ UNCHANGED <<chunkVars, fifo, executed>>
    BY <1>2, <1>6, <2>1, <2>2 DEF UpdateProgress
  <2>5. StepOf(t, pc[t], x) BY <1>1, <2>4, PushParts DEF StepOf
  <2>6. /\ concurrent_pushes_sema' + One(pc[t] \in InPushStates)
             = concurrent_pushes_sema + One(pc[t] \in InPushStates)
        /\ launch_sem' + One(pc[t] \in LaunchStates) = launch_sem + One(pc[t] \in LaunchStates)
        /\ launch_sem' + One(pc[t] \in LaunchStates) <= launch_sem + One(pc[t] \in LaunchStates)
        /\ pc[t] # "write"
    BY <1>1, <1>3, <1>4
  <2>7. /\ pc[t] \in LaunchStates \cup {"reserve_launch"} => x.channel \in Channels
        /\ pc[t] = "release" \/ ~x.ok => fatal_error'
    BY <1>4, <2>3
  <2> QED BY <1>1, <1>3, <1>4, <2>4, <2>5, <2>6, <2>7, QuietStep
<1> QED BY <1>5, <1>6

-----------------------------------------------------------------------------
(* The theorems.                                                           *)

LEMMA InitInv == Init => Inv
<1> SUFFICES ASSUME Init PROVE Inv OBVIOUS
<1>1. TypeOK
  <2>1. pc \in [Threads -> PcStates] BY DEF Init, PcStates
  <2>2. push \in [Threads -> Pushes] BY DEF Init, NoPush, Pushes
  <2>3. /\ idle_chunks \subseteq Chunks /\ available_chunks \subseteq Chunks
        /\ next_push_start \in [Chunks -> 0 .. ChunkSize]
        /\ current_push \in [Chunks -> Threads \cup {None}]
        /\ push_lock \in [Channels -> Threads \cup {None}]
    BY ChunkTypes DEF Init
  <2>4. pending_gpfifos \in [Chunks -> Seq(GpfifoEntries)] BY DEF Init
  <2>5. fifo \in [Channels -> Seq(GpfifoEntries)] /\ executed \in [Channels -> Nat]
    BY DEF Init
  <2>6. /\ concurrent_pushes_sema \in 0 .. ChunkCount /\ launch_sem \in 0 .. Launchers
        /\ pushes \in 0 .. MaxPushes
    BY ChunkTypes DEF Init
  <2>7. failed \subseteq Channels /\ fatal_error \in BOOLEAN BY DEF Init
  <2> QED BY <2>1, <2>2, <2>3, <2>4, <2>5, <2>6, <2>7 DEF TypeOK
<1>2. ChunkInv
  <2>1. \A k \in Chunks : FreeAt(ChunkOffset(k), <<>>, 0) /\ Placed(ChunkOffset(k), <<>>)
    BY ChunkTypes DEF FreeAt, Placed
  <2> QED BY <2>1 DEF Init, ChunkInv
<1>3. OwnInv
  <2>1. \A t \in Threads : pc[t] = "idle" /\ push[t].ok BY DEF Init, NoPush
  <2> QED BY <2>1 DEF Init, OwnInv, Writing, LaunchStates, InPushStates
<1>4. CountInv
  <2>1. InPush = {} /\ Launching = {}
    BY DEF Init, InPush, Launching, InPushStates, LaunchStates
  <2>2. IsFiniteSet({}) /\ Cardinality({}) = 0 BY FS_EmptySet
  <2> QED BY <2>1, <2>2, ChunkTypes DEF Init, CountInv
<1>5. FifoInv BY DEF Init, FifoInv
<1> QED BY <1>1, <1>2, <1>3, <1>4, <1>5 DEF Inv

LEMMA NextInv == Inv /\ [Next]_vars => Inv'
<1> SUFFICES ASSUME Inv, [Next]_vars PROVE Inv' OBVIOUS
<1>1. ASSUME NEW t \in Threads, BeginCall(t) PROVE Inv' BY <1>1, BeginCallInv
<1>2. ASSUME NEW t \in Threads, Continue(t) PROVE Inv'
  <2>1. CASE Reserve(t) BY <2>1, ReserveInv
  <2>2. CASE ReserveSpin(t) BY <2>2, ReserveSpinInv
  <2>3. CASE ReserveCheck(t) BY <2>3, ReserveCheckInv
  <2>4. CASE ReserveLaunch(t) BY <2>4, ReserveLaunchInv
  <2>5. CASE DownAndTry(t) BY <2>5, DownAndTryInv
  <2>6. CASE SpinTry(t) BY <2>6, SpinTryInv
  <2>7. CASE SetBegin(t) BY <2>7, SetBeginInv
  <2>8. CASE ReleaseAfterError(t) BY <2>8, ReleaseAfterErrorInv
  <2>9. CASE EndPush(t) BY <2>9, EndPushInv
  <2>10. CASE UpdateProgress(t) BY <2>10, UpdateProgressInv
  <2> QED BY <1>2, <2>1, <2>2, <2>3, <2>4, <2>5, <2>6, <2>7, <2>8, <2>9, <2>10 DEF Continue
<1>3. ASSUME NEW c \in Channels, GpuExecute(c) \/ GpuFail(c) PROVE Inv'
  <2>1. failed' \subseteq Channels BY <1>3, Parts DEF GpuExecute, GpuFail, errorVars
  <2> QED BY <1>3, <2>1, GpuInv DEF GpuExecute, GpuFail, channelVars, errorVars
<1>4. CASE UNCHANGED vars
  <2>1. failed' \subseteq Channels BY <1>4, Parts DEF vars, errorVars
  <2> QED BY <1>4, <2>1, GpuInv DEF vars, channelVars, errorVars
<1> QED BY <1>1, <1>2, <1>3, <1>4 DEF Next

LEMMA InvAlways == Spec => []Inv
BY InitInv, NextInv, PTL DEF Spec

\* Threads that are in the pushbuffer are no more than the chunks, so that one without
\* a chunk leaves a chunk without a push.
LEMMA ChunkLeft ==
    ASSUME Inv, ~fatal_error, NEW t \in Threads, pc[t] = "spin"
    PROVE  \E k \in Chunks : current_push[k] = None
<1> SUFFICES ASSUME \A k \in Chunks : current_push[k] # None PROVE FALSE OBVIOUS
<1> DEFINE Others == InPush \ {t}
<1>1. IsFiniteSet(InPush) /\ t \in InPush /\ Cardinality(InPush) \in Nat
  <2>1. IsFiniteSet(InPush) BY Parts DEF CountInv
  <2>2. t \in InPush BY DEF InPush, InPushStates
  <2> QED BY <2>1, <2>2, FS_CardinalityType
<1>2. IsFiniteSet(Others) /\ Cardinality(Others) = Cardinality(InPush) - 1
  BY <1>1, FS_RemoveElement
<1>3. Cardinality(InPush) <= ChunkCount
  BY <1>1, Parts, ChunkTypes DEF CountInv
<1>4. current_push \in Injection(Chunks, Others)
  <2>1. /\ OwnInv /\ current_push \in [Chunks -> Threads \cup {None}] BY Parts DEF ChunkOK
  <2>2. \A k \in Chunks : /\ current_push[k] \in Threads /\ pc[current_push[k]] \in Writing
                          /\ push[current_push[k]].chunk = k
    BY <2>1 DEF OwnInv
  <2>3. \A k \in Chunks : current_push[k] \in Others
    BY <2>2 DEF InPush, InPushStates, Writing
  <2>4. \A k, j \in Chunks : current_push[k] = current_push[j] => k = j BY <2>2
  <2>5. current_push \in [Chunks -> Others] BY <2>1, <2>3
  <2> QED BY <2>4, <2>5 DEF Injection, IsInjective
<1>5. Cardinality(Chunks) <= Cardinality(Others) BY <1>2, <1>4, ChunkTypes, FS_Injection
<1> QED BY <1>1, <1>2, <1>3, <1>5, ChunkTypes

\* A push writes only where no pending push and no other push on its way is, whatever the
\* order in which pushes complete (update_chunk(), uvm_pushbuffer_mark_completed()).
THEOREM WritesCorrect == Spec => []WritesAreFree
<1>1. Inv => WritesAreFree
  <2> SUFFICES ASSUME Inv, NEW k \in Chunks
               PROVE  /\ \A t \in Threads :
                           pc[t] = "write" /\ push[t].chunk = k =>
                             /\ ChunkOffset(k) <= push[t].begin
                             /\ push[t].begin + MaxPushSize <= ChunkOffset(k) + ChunkSize
                             /\ \A r \in PendingRegions(k) :
                                  Disjoint(r, <<push[t].begin, push[t].begin + MaxPushSize>>)
                      /\ \A t, u \in Threads :
                           pc[t] = "write" /\ pc[u] = "write" /\ push[t].chunk = k
                             /\ push[u].chunk = k => t = u
    BY DEF WritesAreFree
  <2>1. OwnInv /\ ChunkInv /\ ChunkOK BY Parts
  <2>2. \A t, u \in Threads :
          pc[t] = "write" /\ pc[u] = "write" /\ push[t].chunk = k /\ push[u].chunk = k => t = u
    BY <2>1 DEF OwnInv, Writing
  <2>3. ASSUME NEW t \in Threads, pc[t] = "write", push[t].chunk = k
        PROVE  /\ ChunkOffset(k) <= push[t].begin
               /\ push[t].begin + MaxPushSize <= ChunkOffset(k) + ChunkSize
               /\ \A r \in PendingRegions(k) :
                    Disjoint(r, <<push[t].begin, push[t].begin + MaxPushSize>>)
    <3>1. current_push[k] = t /\ t # None BY <2>1, <2>3, ThreadAssumption DEF OwnInv, Writing
    <3>2. PICK start \in Nat : start = next_push_start[k]
      BY <2>1, ChunkTypes DEF ChunkOK
    <3>3. push[t].begin = ChunkOffset(k) + start BY <2>1, <2>3, <3>2 DEF OwnInv
    <3>4. FreeAt(ChunkOffset(k), pending_gpfifos[k], start) BY <2>1, <3>1, <3>2 DEF ChunkInv
    <3>5. /\ ChunkOffset(k) \in Nat /\ ChunkSize \in Nat /\ MaxPushSize \in Nat
          /\ start + MaxPushSize <= ChunkSize
      BY <3>4, ChunkOffsetType, ChunkTypes DEF FreeAt
    <3>6. ASSUME NEW r \in PendingRegions(k)
          PROVE  Disjoint(r, <<push[t].begin, push[t].begin + MaxPushSize>>)
      <4>1. PICK i \in DOMAIN pending_gpfifos[k] :
              r = <<pending_gpfifos[k][i].off, End(pending_gpfifos[k][i])>>
        BY <3>6 DEF PendingRegions, Range, End
      <4>2. r[1] = pending_gpfifos[k][i].off /\ r[2] = End(pending_gpfifos[k][i]) BY <4>1
      <4>3. \/ r[2] <= ChunkOffset(k) + start
            \/ ChunkOffset(k) + start + MaxPushSize <= r[1]
        BY <3>4, <4>1, <4>2 DEF FreeAt
      <4> QED BY <3>3, <4>3 DEF Disjoint
    <3> QED BY <3>2, <3>3, <3>5, <3>6
  <2> QED BY <2>2, <2>3
<1> QED BY <1>1, InvAlways, PTL

\* idle_chunks holds the chunks without a push on its way or pending, exactly, and an
\* available chunk has no push on its way (uvm_pushbuffer.h).
THEOREM BitmapsCorrect == Spec => []BitmapsExact
<1>1. Inv => BitmapsExact
  <2> SUFFICES ASSUME Inv PROVE BitmapsExact OBVIOUS
  <2>1. ChunkInv /\ idle_chunks \subseteq Chunks /\ available_chunks \subseteq Chunks
    BY Parts DEF ChunkOK
  <2> QED BY <2>1 DEF BitmapsExact, ChunkInv
<1> QED BY <1>1, InvAlways, PTL

\* Chunks, units of the semaphores and launch channels belong to pushes on their way
\* until an error is seen, and a thread that waits for a chunk waits for the GPU only.
THEOREM ResourcesCorrect == Spec => []ResourcesOwned
<1>1. Inv => ResourcesOwned
  <2> SUFFICES ASSUME Inv PROVE ResourcesOwned OBVIOUS
  <2>1. ClaimsOwned BY Parts, ChunkLeft DEF ClaimsOwned, OwnInv, Writing
  <2>2. {t \in Threads : pc[t] \in {"down", "spin", "begin", "write", "release"}} = Launching
    BY DEF Launching, LaunchStates, InPushStates
  <2>3. LaunchersOwned BY <2>2, Parts DEF LaunchersOwned, CountInv
  <2> QED BY <2>1, <2>3 DEF ResourcesOwned, Inv
<1> QED BY <1>1, InvAlways, PTL
=============================================================================

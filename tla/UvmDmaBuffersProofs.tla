------------------------ MODULE UvmDmaBuffersProofs -------------------------
(***************************************************************************)
(* Proofs about the staged copies of UvmDmaBuffers, for every number of    *)
(* threads, VA blocks and buffers, every set of GPUs and of copies: a      *)
(* staging buffer is with one owner and idle while the CPU uses it, the    *)
(* copies of a block are ordered, and no tracker outlives the channels it  *)
(* refers to.                                                              *)
(***************************************************************************)
EXTENDS UvmDmaBuffers, FiniteSetTheorems, SequenceTheorems, TLAPS

-----------------------------------------------------------------------------
(* The inductive invariant.                                                *)

Entries == UNION {[S -> Nat] : S \in SUBSET Channels}
Trackers == [e : Entries, max : Nat]
Pushes == [v : Nat, call : Nat, block : Blocks, buf : Buffers, deps : Entries]
Pools == [on : BOOLEAN, free : Seq(Buffers), num : Nat]

\* Control states with and without a staging buffer, and after the push of a leg.
Pushed == {"finish", "add", "addwait"}
WithBuffer == Pushed \cup {"alloc", "local", "push", "peers"}
WithoutBuffer == {"idle", "begin", "overwait", "take", "next", "nextwait"}

Frames == [pc : WithBuffer \cup WithoutBuffer, kind : {"copy", "util", "reg"},
           block : Blocks \cup {None}, plan : Seq(Channels), buf : Buffers \cup {None},
           loc : Trackers, copy : Trackers, v : Nat, ok : BOOLEAN, call : Nat]

DataOK ==
    /\ pool \in [Gpus -> Pools]
    /\ tracker \in [Buffers -> Trackers] /\ block \in [Blocks -> Trackers]
    /\ th \in [Threads -> Frames]
    /\ reg \in [Gpus -> Buffers \cup {None}] /\ lost \in SUBSET Buffers
    /\ queued \in [Channels -> Nat] /\ completed \in [Channels -> Nat]
    /\ failed \in [Channels -> BOOLEAN] /\ pending \in [Channels -> Seq(Pushes)]
    /\ fatal \in BOOLEAN /\ calls \in Nat /\ registers \in Nat /\ failures \in Nat

\* The array of a tracker has room for its entries.
Fits(t) == t.max \in {0, 1} \cup MaxSizes /\ Size(t) <= t.max

FitInv == (\A b \in Buffers : Fits(tracker[b])) /\ (\A b \in Blocks : Fits(block[b]))

\* The pushes in flight of a channel are those after the completed value.  They use
\* buffers of their GPU.
ChannelInv ==
    \A c \in Channels :
        /\ queued[c] = completed[c] + Len(pending[c])
        /\ \A i \in DOMAIN pending[c] : /\ pending[c][i].v = completed[c] + i
                                        /\ pending[c][i].buf[1] = Gpu(c)
                                        /\ pending[c][i].call <= calls

RegisteredIn(e) == \A c \in DOMAIN e : reg[Gpu(c)] # None

\* What a call has, and that its GPUs stay registered while it runs.
FrameInv(t) ==
    /\ th[t].pc = "idle" => th[t] = Idle
    /\ th[t].pc # "idle" => th[t].plan # <<>>
    /\ th[t].pc \in WithBuffer => th[t].buf \in Buffers /\ th[t].buf[1] = Gpu(Channel(t))
    /\ th[t].pc \in WithoutBuffer => th[t].buf = None
    /\ th[t].kind = "reg" =>
         /\ th[t].pc \in {"take", "alloc", "peers"} /\ th[t].block = None
         /\ th[t].loc = Empty /\ th[t].copy = Empty
         /\ reg[Gpu(Channel(t))] = None /\ pool[Gpu(Channel(t))].on
         /\ \A u \in Threads : u # t => th[u].pc = "idle"
    /\ th[t].kind # "reg" /\ th[t].pc # "idle" =>
         th[t].pc # "peers" /\ th[t].block \in Blocks /\ Registered(th[t].plan) /\ th[t].call <= calls
    /\ th[t].kind = "util" =>
         th[t].pc \in {"take", "alloc", "push", "finish"} /\ th[t].loc = Empty /\ th[t].copy = Empty
    /\ RegisteredIn(th[t].loc.e) /\ RegisteredIn(th[t].copy.e)

FramesInv == \A t \in Threads : FrameInv(t)

\* A VA block is locked by one call.
BlockInv ==
    /\ \A t, u \in Threads : th[t].block # None /\ th[t].block = th[u].block => t = u
    /\ \A b \in Blocks : RegisteredIn(block[b].e)

InFree(b) == \E i \in DOMAIN pool[b[1]].free : pool[b[1]].free[i] = b

\* A buffer is in one place.
PlaceInv ==
    /\ \A g \in Gpus :
         /\ \A i \in DOMAIN pool[g].free : pool[g].free[i][1] = g
         /\ \A i, j \in DOMAIN pool[g].free : pool[g].free[i] = pool[g].free[j] => i = j
         /\ ~pool[g].on => pool[g].free = <<>> /\ pool[g].num = 0
         /\ reg[g] # None => pool[g].on /\ reg[g][1] = g /\ ~InFree(reg[g]) /\ reg[g] \notin lost
    /\ \A b \in lost : ~InFree(b)
    /\ \A t \in Threads : th[t].buf # None =>
         /\ ~InFree(th[t].buf) /\ th[t].buf \notin lost
         /\ reg[th[t].buf[1]] # th[t].buf
         /\ \A u \in Threads : th[u].buf = th[t].buf => u = t

\* The buffers of g that exist.
Used(g) == {b \in Buffers : /\ b[1] = g
                            /\ \/ InFree(b) \/ b \in lost \/ reg[g] = b
                               \/ \E t \in Threads : th[t].buf = b}

CountInv == \A g \in Gpus : pool[g].num = Cardinality(Used(g))

\* The tracker of a buffer names channels of its GPU, and is empty while the buffer is
\* used or lost.
TrackerInv ==
    \A b \in Buffers : \A c \in DOMAIN tracker[b].e :
        /\ Gpu(c) = b[1]
        /\ InFree(b) \/ \E t \in Threads : th[t].pc = "alloc" /\ th[t].buf = b

\* Who waits for e waits for the v-th push of c.
Covers(e, c, v) == c \in DOMAIN e /\ e[c] >= v

\* p is the push of the leg that t is at.
Current(t, c, p) == th[t].pc \in Pushed /\ c = Channel(t) /\ p.v = th[t].v

\* It is the one that t has the buffer for.
Owns(t, c, p) == th[t].buf = p.buf /\ Current(t, c, p) /\ OwnPush(t, c, p)

\* The next user of the buffer of a push waits for it, or the push is that of the call
\* which has the buffer.
StagedInv ==
    fatal \/ \A c \in Channels : \A p \in InFlight(c) :
        \/ Covers(tracker[p.buf].e, c, p.v)
        \/ \E t \in Threads : Owns(t, c, p)

\* The next copy of the block of a push will wait for it.
BlockCovers(c, p) == Covers(block[p.block].e, c, p.v)

\* The call that has the block will wait for it, if it is the push of another call, and
\* if it is its own, has it in the tracker of the copy or is about to put it there.
CallCovers(t, c, p) ==
    IF p.call = th[t].call
      THEN BlockCovers(c, p) \/ Covers(th[t].copy.e, c, p.v) \/ Current(t, c, p)
      ELSE /\ BlockCovers(c, p)
           /\ th[t].kind = "copy" /\ th[t].pc \in {"take", "alloc", "local", "push"} =>
                Covers(th[t].loc.e, c, p.v)

CoverInv ==
    fatal \/ \A c \in Channels : \A p \in InFlight(c) :
        /\ \A t \in Threads : th[t].block = p.block => CallCovers(t, c, p)
        /\ (\A t \in Threads : th[t].block # p.block) => BlockCovers(c, p)

Inv ==
    /\ DataOK /\ FitInv /\ ChannelInv /\ FramesInv /\ BlockInv
    /\ PlaceInv /\ CountInv /\ TrackerInv /\ StagedInv /\ CoverInv /\ CopiesOrdered

-----------------------------------------------------------------------------
(* GPUs, channels, buffers and trackers.                                   *)

LEMMA Names ==
    /\ \A c \in Channels : Gpu(c) \in Gpus
    /\ \A b \in Buffers : b[1] \in Gpus
    /\ None \notin Buffers /\ None \notin Blocks
BY ConstantsAssumption DEF Channels, Gpu, Buffers

LEMMA ChannelsFinite ==
    /\ IsFiniteSet(Channels) /\ Cardinality(Channels) \in Nat /\ Cardinality(Channels) <= 512
    /\ \A S \in SUBSET Channels : /\ IsFiniteSet(S) /\ Cardinality(S) \in Nat
                                  /\ Cardinality(S) <= Cardinality(Channels)
<1>1. IsFiniteSet(Types) /\ Cardinality(Types) = 2
  <2>1. Types = {"c2g"} \cup {"g2c"} /\ "g2c" \notin {"c2g"} BY DEF Types
  <2>2. IsFiniteSet({"c2g"}) /\ Cardinality({"c2g"}) = 1 BY FS_Singleton
  <2>3. /\ IsFiniteSet({"c2g"} \cup {"g2c"})
        /\ Cardinality({"c2g"} \cup {"g2c"}) = Cardinality({"c2g"}) + 1
    BY <2>1, <2>2, FS_AddElement
  <2> QED BY <2>1, <2>2, <2>3
<1>2. IsFiniteSet(Gpus) /\ Cardinality(Gpus) \in Nat /\ Cardinality(Gpus) <= 256
  BY ConstantsAssumption, FS_CardinalityType
<1>3. IsFiniteSet(Channels) /\ Cardinality(Channels) = Cardinality(Gpus) * Cardinality(Types)
  BY <1>1, <1>2, FS_Product DEF Channels
<1>4. ASSUME NEW S \in SUBSET Channels
      PROVE  IsFiniteSet(S) /\ Cardinality(S) \in Nat /\ Cardinality(S) <= Cardinality(Channels)
  BY <1>3, <1>4, FS_Subset, FS_CardinalityType
<1> QED BY <1>1, <1>2, <1>3, <1>4, FS_CardinalityType

LEMMA EntriesFacts ==
    ASSUME NEW f \in Entries
    PROVE  /\ DOMAIN f \in SUBSET Channels /\ f = [c \in DOMAIN f |-> f[c]]
           /\ \A c \in DOMAIN f : f[c] \in Nat
           /\ IsFiniteSet(DOMAIN f) /\ Cardinality(DOMAIN f) \in Nat
           /\ Cardinality(DOMAIN f) <= 512
<1>1. PICK S \in SUBSET Channels : f \in [S -> Nat] BY DEF Entries
<1>2. DOMAIN f = S BY <1>1
<1> QED BY <1>1, <1>2, ChannelsFinite

LEMMA EntriesType ==
    ASSUME NEW f, NEW S \in SUBSET Channels, f \in [S -> Nat]
    PROVE  f \in Entries
BY DEF Entries

LEMMA EmptyFacts ==
    /\ NoEntries \in Entries /\ DOMAIN NoEntries = {}
    /\ Empty \in Trackers /\ Empty.e = NoEntries /\ Fits(Empty) /\ Size(Empty) = 0
    /\ \A f \in Entries : DOMAIN f = {} => f = NoEntries
<1>1. NoEntries \in [{} -> Nat] BY DEF NoEntries
<1>2. NoEntries \in Entries /\ DOMAIN NoEntries = {} BY <1>1, EntriesType
<1>3. Empty \in Trackers /\ Empty.e = NoEntries BY <1>2 DEF Empty, Trackers
<1>4. Size(Empty) = 0 BY <1>2, <1>3, FS_EmptySet DEF Size
<1>5. Fits(Empty) BY <1>4 DEF Fits, Empty
<1>6. ASSUME NEW f \in Entries, DOMAIN f = {} PROVE f = NoEntries
  <2>1. f = [c \in {} |-> f[c]] BY <1>6, EntriesFacts
  <2> QED BY <2>1 DEF NoEntries
<1> QED BY <1>2, <1>3, <1>4, <1>5, <1>6

\* The array of a tracker grows to a size that suffices.
LEMMA NewMaxFacts ==
    ASSUME NEW n \in Nat, n <= 1024
    PROVE  NewMaxSize(n) \in MaxSizes /\ n <= NewMaxSize(n)
<1>1. \E m \in MaxSizes : n <= m /\ \A k \in MaxSizes : n <= k => m <= k
  <2> DEFINE P(m) == n <= m /\ \A k \in MaxSizes : n <= k => m <= k
  <2>1. CASE n <= 8 BY <2>1 DEF MaxSizes
  <2>2. CASE 8 < n /\ n <= 16 BY <2>2 DEF MaxSizes
  <2>3. CASE 16 < n /\ n <= 32 BY <2>3 DEF MaxSizes
  <2>4. CASE 32 < n /\ n <= 64 BY <2>4 DEF MaxSizes
  <2>5. CASE 64 < n /\ n <= 128 BY <2>5 DEF MaxSizes
  <2>6. CASE 128 < n /\ n <= 256 BY <2>6 DEF MaxSizes
  <2>7. CASE 256 < n /\ n <= 512 BY <2>7 DEF MaxSizes
  <2>8. CASE 512 < n BY <2>8 DEF MaxSizes
  <2> QED BY <2>1, <2>2, <2>3, <2>4, <2>5, <2>6, <2>7, <2>8
<1> QED BY <1>1 DEF NewMaxSize

LEMMA ReservedFacts ==
    ASSUME NEW t \in Trackers, NEW n \in Nat, n <= 512
    PROVE  /\ Reserved(t, n) \in Trackers /\ Reserved(t, n).e = t.e
           /\ Size(t) + n <= Reserved(t, n).max
           /\ t.max \in {0, 1} \cup MaxSizes => Reserved(t, n).max \in {0, 1} \cup MaxSizes
<1>1. Size(t) \in Nat /\ Size(t) <= 512 BY EntriesFacts DEF Size, Trackers
<1>2. MaxSizes \subseteq Nat BY DEF MaxSizes
<1>3. NewMaxSize(Size(t) + n) \in MaxSizes /\ Size(t) + n <= NewMaxSize(Size(t) + n)
  BY <1>1, NewMaxFacts
<1> QED BY <1>1, <1>2, <1>3 DEF Reserved, Room, Trackers

\* A tracker whose entries are replaced.
LEMMA ExceptFacts ==
    ASSUME NEW t \in Trackers, NEW f \in Entries
    PROVE  LET r == [t EXCEPT !.e = f]
           IN  r \in Trackers /\ r.e = f /\ r.max = t.max
BY DEF Trackers

LEMMA ClearFacts ==
    ASSUME NEW t \in Trackers
    PROVE  /\ uvm_tracker_clear(t) \in Trackers /\ uvm_tracker_clear(t).e = NoEntries
           /\ Fits(t) => Fits(uvm_tracker_clear(t))
<1>1. uvm_tracker_clear(t) \in Trackers /\ uvm_tracker_clear(t).e = NoEntries
      /\ uvm_tracker_clear(t).max = t.max
  BY ExceptFacts, EmptyFacts DEF uvm_tracker_clear
<1>2. Size(uvm_tracker_clear(t)) = 0 BY <1>1, EmptyFacts, FS_EmptySet DEF Size
<1>3. Size(t) \in Nat BY EntriesFacts DEF Size, Trackers
<1>4. t.max \in Nat BY DEF Trackers
<1> QED BY <1>1, <1>2, <1>3, <1>4 DEF Fits

\* Removing what has completed leaves every entry that is pending.
LEMMA RemoveFacts ==
    ASSUME completed \in [Channels -> Nat], NEW t \in Trackers
    PROVE  LET r == uvm_tracker_remove_completed(t)
           IN  /\ r \in Trackers /\ DOMAIN r.e \subseteq DOMAIN t.e
               /\ Fits(t) => Fits(r)
               /\ \A c, v : c \in Channels /\ v \in Nat /\ completed[c] < v /\ Covers(t.e, c, v)
                              => Covers(r.e, c, v)
<1> DEFINE r == uvm_tracker_remove_completed(t)
<1>1. t.e \in Entries BY DEF Trackers
<1>2. Pending(t) \in SUBSET Channels /\ Pending(t) \subseteq DOMAIN t.e
  BY <1>1, EntriesFacts DEF Pending
<1>3. Restrict(t.e, Pending(t)) \in [Pending(t) -> Nat]
  BY <1>1, <1>2, EntriesFacts DEF Restrict
<1>4. r \in Trackers /\ r.e = Restrict(t.e, Pending(t)) /\ r.max = t.max
  BY <1>2, <1>3, EntriesType, ExceptFacts DEF uvm_tracker_remove_completed
<1>5. DOMAIN r.e = Pending(t) /\ \A c \in Pending(t) : r.e[c] = t.e[c]
  BY <1>4 DEF Restrict
<1>6. Fits(t) => Fits(r)
  <2>1. IsFiniteSet(DOMAIN t.e) /\ Size(t) \in Nat BY <1>1, EntriesFacts DEF Size
  <2>2. Size(r) <= Size(t) /\ Size(r) \in Nat
    BY <1>2, <1>5, <2>1, FS_Subset, FS_CardinalityType DEF Size
  <2>3. t.max \in Nat BY DEF Trackers
  <2> QED BY <1>4, <2>1, <2>2, <2>3 DEF Fits
<1>7. ASSUME NEW c \in Channels, NEW v \in Nat, completed[c] < v, Covers(t.e, c, v)
      PROVE  Covers(r.e, c, v)
  <2>1. t.e[c] \in Nat /\ completed[c] \in Nat BY <1>1, <1>7, EntriesFacts DEF Covers
  <2>2. c \in Pending(t) BY <1>7, <2>1 DEF Covers, Pending
  <2> QED BY <1>5, <1>7, <2>2 DEF Covers
<1> HIDE DEF r
<1>8. /\ r \in Trackers /\ DOMAIN r.e \subseteq DOMAIN t.e /\ (Fits(t) => Fits(r))
      /\ \A c, v : c \in Channels /\ v \in Nat /\ completed[c] < v /\ Covers(t.e, c, v)
                     => Covers(r.e, c, v)
  BY <1>2, <1>4, <1>5, <1>6, <1>7
<1> QED BY <1>8 DEF r

\* A tracker waits for what both its parts wait for.
LEMMA MergeFacts ==
    ASSUME NEW e \in Entries, NEW f \in Entries
    PROVE  /\ Merge(e, f) \in Entries /\ DOMAIN Merge(e, f) = DOMAIN e \cup DOMAIN f
           /\ \A c, v : v \in Nat /\ (Covers(e, c, v) \/ Covers(f, c, v)) => Covers(Merge(e, f), c, v)
<1>1. /\ DOMAIN e \in SUBSET Channels /\ DOMAIN f \in SUBSET Channels
      /\ \A c \in DOMAIN e : e[c] \in Nat
      /\ \A c \in DOMAIN f : f[c] \in Nat
  BY EntriesFacts
<1>2. DOMAIN Merge(e, f) = DOMAIN e \cup DOMAIN f BY DEF Merge
<1>3. ASSUME NEW c \in DOMAIN e \cup DOMAIN f
      PROVE  Merge(e, f)[c] = IF c \notin DOMAIN f \/ (c \in DOMAIN e /\ e[c] >= f[c])
                                THEN e[c] ELSE f[c]
  BY DEF Merge
<1>4. Merge(e, f) \in [DOMAIN e \cup DOMAIN f -> Nat]
  BY <1>1 DEF Merge
<1>5. Merge(e, f) \in Entries BY <1>1, <1>4, EntriesType
<1>6. ASSUME NEW c, NEW v \in Nat, Covers(e, c, v) \/ Covers(f, c, v)
      PROVE  Covers(Merge(e, f), c, v)
  <2>1. c \in DOMAIN e \cup DOMAIN f BY <1>6 DEF Covers
  <2> QED BY <1>1, <1>2, <1>3, <1>6, <2>1 DEF Covers
<1> QED BY <1>2, <1>5, <1>6

\* uvm_tracker_add_tracker leaves room, no foreign channel, and nothing out that either
\* tracker has to wait for.
LEMMA AddTrackerFacts ==
    ASSUME completed \in [Channels -> Nat], NEW dst \in Trackers, NEW src \in Trackers,
           Fits(dst), NEW r \in AddTracker(dst, src)
    PROVE  /\ r \in Trackers /\ Fits(r)
           /\ DOMAIN r.e \subseteq DOMAIN dst.e \cup DOMAIN src.e
           /\ \A c, v : c \in Channels /\ v \in Nat /\ completed[c] < v
                          /\ (Covers(dst.e, c, v) \/ Covers(src.e, c, v)) => Covers(r.e, c, v)
<1> DEFINE d == uvm_tracker_remove_completed(dst)
           s == uvm_tracker_remove_completed(src)
           Goal(x) == /\ x \in Trackers /\ Fits(x)
                      /\ DOMAIN x.e \subseteq DOMAIN dst.e \cup DOMAIN src.e
                      /\ \A c, v : c \in Channels /\ v \in Nat /\ completed[c] < v
                           /\ (Covers(dst.e, c, v) \/ Covers(src.e, c, v)) => Covers(x.e, c, v)
<1>1. \A t \in Trackers : /\ t.e \in Entries /\ IsFiniteSet(DOMAIN t.e)
                          /\ Size(t) \in Nat /\ Size(t) <= 512
  BY EntriesFacts DEF Trackers, Size
<1>2. CASE Size(src) = 0 /\ r = dst
  <2>1. DOMAIN src.e = {} BY <1>1, <1>2, FS_EmptySet DEF Size
  <2> QED BY <1>2, <2>1 DEF Covers
  \* Entries are merged into x, which has room for n more, as many as y adds.
<1>3. ASSUME NEW x \in Trackers, NEW y \in Trackers, NEW n \in Nat, n <= 512,
             x.max \in {0, 1} \cup MaxSizes, Cardinality(DOMAIN y.e \ DOMAIN x.e) <= n,
             DOMAIN x.e \subseteq DOMAIN dst.e, DOMAIN y.e \subseteq DOMAIN src.e,
             \A c, v : c \in Channels /\ v \in Nat /\ completed[c] < v
                 => (Covers(dst.e, c, v) => Covers(x.e, c, v)) /\ (Covers(src.e, c, v) => Covers(y.e, c, v))
      PROVE  Goal([Reserved(x, n) EXCEPT !.e = Merge(x.e, y.e)])
  <2> DEFINE z == [Reserved(x, n) EXCEPT !.e = Merge(x.e, y.e)]
  <2>1. x.e \in Entries /\ y.e \in Entries BY <1>1, <1>3
  <2>2. /\ Merge(x.e, y.e) \in Entries /\ DOMAIN Merge(x.e, y.e) = DOMAIN x.e \cup DOMAIN y.e
        /\ \A c, v : v \in Nat /\ (Covers(x.e, c, v) \/ Covers(y.e, c, v)) => Covers(Merge(x.e, y.e), c, v)
    BY <2>1, MergeFacts
  <2>3. /\ Reserved(x, n) \in Trackers /\ Size(x) + n <= Reserved(x, n).max
        /\ Reserved(x, n).max \in {0, 1} \cup MaxSizes
    BY <1>1, <1>3, ReservedFacts
  <2>4. z \in Trackers /\ z.e = Merge(x.e, y.e) /\ z.max = Reserved(x, n).max
    BY <2>2, <2>3, ExceptFacts
  <2>5. Size(z) <= Size(x) + n
    <3> DEFINE D == DOMAIN y.e \ DOMAIN x.e
    <3>1. IsFiniteSet(D) /\ Cardinality(D) \in Nat
      BY <1>1, <1>3, FS_Difference, FS_CardinalityType
    <3>2. DOMAIN z.e = DOMAIN x.e \cup D /\ DOMAIN x.e \cap D = {} BY <2>2, <2>4
    <3>3. Cardinality(DOMAIN x.e \cap D) = 0 BY <3>2, FS_EmptySet
    <3>4. Cardinality(DOMAIN z.e) = Cardinality(DOMAIN x.e) + Cardinality(D)
      <4> HIDE DEF D, z
      <4>1. Cardinality(DOMAIN x.e \cup D)
              = Cardinality(DOMAIN x.e) + Cardinality(D) - Cardinality(DOMAIN x.e \cap D)
        BY <1>1, <1>3, <3>1, FS_Union
      <4> QED BY <1>1, <1>3, <3>1, <3>2, <3>3, <4>1 DEF Size
    <3> QED BY <1>1, <1>3, <3>1, <3>4 DEF Size
  <2>6. Fits(z)
    <3>1. Size(z) \in Nat /\ z.max \in Nat BY <1>1, <1>3, <2>4 DEF Trackers
    <3> HIDE DEF z
    <3> QED BY <1>1, <1>3, <2>3, <2>4, <2>5, <3>1 DEF Fits, Trackers
  <2> HIDE DEF z
  <2>7. DOMAIN z.e \subseteq DOMAIN dst.e \cup DOMAIN src.e BY <1>1, <1>3, <2>2, <2>4
  <2>8. Goal(z) BY <1>1, <1>3, <2>2, <2>4, <2>6, <2>7
  <2> QED BY <2>8 DEF z
<1>4. CASE r = [Reserved(dst, Size(src)) EXCEPT !.e = Merge(dst.e, src.e)]
  <2>1. Cardinality(DOMAIN src.e \ DOMAIN dst.e) <= Size(src)
    BY <1>1, FS_Subset DEF Size
  <2>2. dst.max \in {0, 1} \cup MaxSizes BY DEF Fits
  <2>3. Goal(r) BY <1>1, <1>3, <1>4, <2>1, <2>2
  <2> QED BY <2>3
<1>5. CASE r = [Reserved(d, NeededEntries(d, s)) EXCEPT !.e = Merge(d.e, s.e)]
  <2>1. d \in Trackers /\ s \in Trackers /\ Fits(d)
        /\ DOMAIN d.e \subseteq DOMAIN dst.e /\ DOMAIN s.e \subseteq DOMAIN src.e
    BY RemoveFacts
  <2>2. \A c, v : c \in Channels /\ v \in Nat /\ completed[c] < v
          => (Covers(dst.e, c, v) => Covers(d.e, c, v)) /\ (Covers(src.e, c, v) => Covers(s.e, c, v))
    BY RemoveFacts
  <2> HIDE DEF d, s
  <2>3. /\ NeededEntries(d, s) = Cardinality(DOMAIN s.e \ DOMAIN d.e)
        /\ NeededEntries(d, s) \in Nat /\ NeededEntries(d, s) <= 512
    <3>1. IsFiniteSet(DOMAIN s.e) /\ Cardinality(DOMAIN s.e) <= 512 /\ Cardinality(DOMAIN s.e) \in Nat
      BY <1>1, <2>1 DEF Size
    <3>2. DOMAIN s.e \ DOMAIN d.e \in SUBSET DOMAIN s.e OBVIOUS
    <3> QED BY <3>1, <3>2, FS_Subset, FS_CardinalityType DEF NeededEntries
  <2>4. d.max \in {0, 1} \cup MaxSizes BY <2>1 DEF Fits
  <2>5. Cardinality(DOMAIN s.e \ DOMAIN d.e) <= NeededEntries(d, s) BY <2>3
  <2> HIDE DEF Goal
  <2>6. Goal([Reserved(d, NeededEntries(d, s)) EXCEPT !.e = Merge(d.e, s.e)])
    BY <1>3, <2>1, <2>2, <2>3, <2>4, <2>5
  <2>7. Goal(r) BY <1>5, <2>6
  <2> QED BY <2>7 DEF Goal
<1> QED BY <1>2, <1>4, <1>5 DEF AddTracker

\* What is waited for has completed.
LEMMA DoneFacts ==
    ASSUME completed \in [Channels -> Nat], NEW t \in Trackers, Done(t),
           NEW c \in Channels, NEW v \in Nat, Covers(t.e, c, v)
    PROVE  v <= completed[c]
<1>1. t.e[c] \in Nat BY EntriesFacts DEF Trackers, Covers
<1> QED BY <1>1 DEF Done, Pending, Covers

\* The tracker that a buffer is given back with.
LEMMA FreeTrackerFacts ==
    ASSUME completed \in [Channels -> Nat], NEW b \in Buffers, tracker[b] \in Trackers,
           Fits(tracker[b]), NEW src \in Trackers, NEW r \in FreeTracker(b, src)
    PROVE  /\ r \in Trackers /\ Fits(r)
           /\ DOMAIN r.e \subseteq DOMAIN tracker[b].e \cup DOMAIN src.e
           /\ fatal \/ \A c, v : c \in Channels /\ v \in Nat /\ completed[c] < v
                          /\ (Covers(tracker[b].e, c, v) \/ Covers(src.e, c, v)) => Covers(r.e, c, v)
<1> DEFINE d == uvm_tracker_remove_completed(tracker[b])
           s == uvm_tracker_remove_completed(src)
<1>1. d \in Trackers /\ Fits(d) /\ s \in Trackers
      /\ DOMAIN d.e \subseteq DOMAIN tracker[b].e /\ DOMAIN s.e \subseteq DOMAIN src.e
  BY RemoveFacts
<1>2. \A c, v : c \in Channels /\ v \in Nat /\ completed[c] < v
        => /\ Covers(tracker[b].e, c, v) => Covers(d.e, c, v)
           /\ Covers(src.e, c, v) => Covers(s.e, c, v)
  BY RemoveFacts
<1>3. r \in AddTracker(d, s) \/ (r = d /\ fatal) BY DEF FreeTracker
<1> HIDE DEF d, s
<1>4. CASE r \in AddTracker(d, s)
  <2>1. /\ r \in Trackers /\ Fits(r) /\ DOMAIN r.e \subseteq DOMAIN d.e \cup DOMAIN s.e
        /\ \A c, v : c \in Channels /\ v \in Nat /\ completed[c] < v
                       /\ (Covers(d.e, c, v) \/ Covers(s.e, c, v)) => Covers(r.e, c, v)
    BY <1>1, <1>4, AddTrackerFacts
  <2> QED BY <1>1, <1>2, <2>1
<1> QED BY <1>1, <1>3, <1>4

LEMMA PushTrackerFacts ==
    ASSUME NEW c \in Channels, NEW v \in Nat
    PROVE  /\ PushTracker(c, v) \in Trackers /\ DOMAIN PushTracker(c, v).e = {c}
           /\ PushTracker(c, v).e[c] = v
<1>1. [x \in {c} |-> v] \in [{c} -> Nat] OBVIOUS
<1>2. [x \in {c} |-> v] \in Entries BY <1>1, EntriesType
<1>3. PushTracker(c, v) \in Trackers /\ PushTracker(c, v).e = [x \in {c} |-> v]
  BY <1>2, EmptyFacts, ExceptFacts DEF PushTracker
<1> QED BY <1>3

-----------------------------------------------------------------------------
(* Where the buffers are.                                                  *)

Places == DataOK /\ PlaceInv /\ CountInv

LEMMA FrameTypes ==
    ASSUME DataOK, NEW t \in Threads
    PROVE  /\ th[t] \in Frames /\ th[t].plan \in Seq(Channels)
           /\ th[t].buf \in Buffers \cup {None} /\ th[t].block \in Blocks \cup {None}
           /\ th[t].loc \in Trackers /\ th[t].copy \in Trackers
           /\ th[t].v \in Nat /\ th[t].call \in Nat /\ th[t].ok \in BOOLEAN
           /\ th[t].pc \in WithBuffer \cup WithoutBuffer /\ th[t].kind \in {"copy", "util", "reg"}
BY DEF DataOK, Frames

LEMMA PoolTypes ==
    ASSUME DataOK, NEW g \in Gpus
    PROVE  /\ pool[g] \in Pools /\ pool[g].free \in Seq(Buffers) /\ pool[g].on \in BOOLEAN
           /\ pool[g].num \in Nat
           /\ Len(pool[g].free) \in Nat /\ DOMAIN pool[g].free = 1 .. Len(pool[g].free)
           /\ \A i \in DOMAIN pool[g].free : pool[g].free[i] \in Buffers
<1>1. pool[g] \in Pools /\ pool[g].free \in Seq(Buffers) BY DEF DataOK, Pools
<1>2. Len(pool[g].free) \in Nat /\ DOMAIN pool[g].free = 1 .. Len(pool[g].free)
      /\ \A i \in 1 .. Len(pool[g].free) : pool[g].free[i] \in Buffers
  BY <1>1, LenProperties, ElementOfSeq
<1> QED BY <1>1, <1>2 DEF Pools

LEMMA FreeSetFacts ==
    ASSUME DataOK, PlaceInv
    PROVE  \A b : b \in FreeSet <=> b \in Buffers /\ InFree(b)
<1>1. ASSUME NEW b \in FreeSet PROVE b \in Buffers /\ InFree(b)
  <2>1. PICK g \in Gpus : b \in Range(pool[g].free) BY DEF FreeSet
  <2>2. PICK i \in DOMAIN pool[g].free : b = pool[g].free[i] BY <2>1 DEF Range
  <2>3. b \in Buffers BY <2>2, PoolTypes
  <2>4. b[1] = g BY <2>2 DEF PlaceInv
  <2> QED BY <2>2, <2>3, <2>4 DEF InFree
<1>2. ASSUME NEW b \in Buffers, InFree(b) PROVE b \in FreeSet
  <2>1. b[1] \in Gpus BY Names
  <2>2. b \in Range(pool[b[1]].free) BY <1>2 DEF InFree, Range
  <2> QED BY <2>1, <2>2 DEF FreeSet
<1> QED BY <1>1, <1>2

LEMMA UsedFinite ==
    ASSUME NEW g \in Gpus
    PROVE  LET S == {b \in Buffers : b[1] = g}
           IN  IsFiniteSet(S) /\ Cardinality(S) = MaxBuffers
<1> DEFINE S == {b \in Buffers : b[1] = g}
           f == [i \in 1 .. MaxBuffers |-> <<g, i>>]
<1>1. f \in Bijection(1 .. MaxBuffers, S)
  <2>1. f \in [1 .. MaxBuffers -> S] BY DEF Buffers
  <2>2. \A i, j \in 1 .. MaxBuffers : f[i] = f[j] => i = j OBVIOUS
  <2>3. \A b \in S : \E i \in 1 .. MaxBuffers : f[i] = b BY DEF Buffers
  <2> QED BY <2>1, <2>2, <2>3 DEF Bijection, Injection, Surjection, IsInjective
<1>2. IsFiniteSet(1 .. MaxBuffers) /\ Cardinality(1 .. MaxBuffers) = MaxBuffers
  <2>1. MaxBuffers \in Nat BY ConstantsAssumption
  <2> QED BY <2>1, FS_Interval
<1>3. ExistsBijection(1 .. MaxBuffers, S) BY <1>1 DEF ExistsBijection
<1> QED BY <1>2, <1>3, FS_Bijection

\* The buffers that can be created are those that do not exist.
LEMMA FreshFacts ==
    ASSUME DataOK, PlaceInv, NEW g \in Gpus
    PROVE  /\ Fresh(g) = {b \in Buffers : b[1] = g} \ Used(g)
           /\ IsFiniteSet(Fresh(g)) /\ Cardinality(Fresh(g)) \in Nat
           /\ IsFiniteSet(Used(g)) /\ Cardinality(Used(g)) \in Nat /\ Cardinality(Used(g)) <= MaxBuffers
<1> DEFINE S == {b \in Buffers : b[1] = g}
<1>1. ASSUME NEW b \in S
      PROVE  b \in Held \cup FreeSet \cup lost <=> b \in Used(g)
  <2>1. b \in FreeSet <=> InFree(b) BY FreeSetFacts
  <2>2. b \in Held <=> reg[g] = b \/ \E t \in Threads : th[t].buf = b
    <3>1. ASSUME NEW h \in Gpus, reg[h] = b PROVE h = g
      BY <1>1, <3>1, Names DEF PlaceInv
    <3> QED BY <3>1 DEF Held
  <2> QED BY <2>1, <2>2 DEF Used
<1>2. Used(g) \in SUBSET S BY DEF Used
<1>3. IsFiniteSet(S) /\ Cardinality(S) = MaxBuffers BY UsedFinite
<1>4. Fresh(g) = S \ Used(g) BY <1>1 DEF Fresh
<1>5. IsFiniteSet(Used(g)) /\ Cardinality(Used(g)) \in Nat /\ Cardinality(Used(g)) <= MaxBuffers
  BY <1>2, <1>3, FS_Subset, FS_CardinalityType
<1>6. IsFiniteSet(S \ Used(g)) /\ Cardinality(S \ Used(g)) \in Nat
  BY <1>3, FS_Difference, FS_CardinalityType
<1> QED BY <1>4, <1>5, <1>6

LEMMA NewBuffersFacts ==
    ASSUME DataOK, PlaceInv, NEW g \in Gpus, NEW n \in Nat, n <= Cardinality(Fresh(g))
    PROVE  LET s == NewBuffers(g, n)
           IN  /\ s \in Seq(Buffers) /\ Len(s) = n
               /\ \A i \in 1 .. n : s[i] \in Fresh(g)
               /\ \A i, j \in 1 .. n : s[i] = s[j] => i = j
               /\ IsFiniteSet(Range(s)) /\ Cardinality(Range(s)) = n
               /\ Range(s) \subseteq Fresh(g)
<1> DEFINE m == Cardinality(Fresh(g))
           s == NewBuffers(g, n)
<1>1. IsFiniteSet(Fresh(g)) /\ m \in Nat BY FreshFacts
<1>2. PICK f : f \in Bijection(1 .. m, Fresh(g))
  BY <1>1, FS_CardinalityType DEF ExistsBijection
<1>3. f \in [1 .. m -> Fresh(g)] /\ \A i, j \in 1 .. m : f[i] = f[j] => i = j
  BY <1>2 DEF Bijection, Injection, IsInjective
<1>4. [i \in 1 .. n |-> f[i]] \in [1 .. n -> Fresh(g)] /\ IsInjective([i \in 1 .. n |-> f[i]])
  <2>1. \A i \in 1 .. n : i \in 1 .. m BY <1>1
  <2> QED BY <1>3, <2>1 DEF IsInjective
<1>5. s \in [1 .. n -> Fresh(g)] /\ IsInjective(s) BY <1>4 DEF NewBuffers
<1>6. Fresh(g) \subseteq Buffers BY DEF Fresh
<1> HIDE DEF s
<1>7. s \in Seq(Buffers) /\ Len(s) = n
  <2>1. s \in [1 .. n -> Buffers] BY <1>5, <1>6
  <2> QED BY <2>1, SeqDef, LenProperties
<1>8. (\A i \in 1 .. n : s[i] \in Fresh(g)) /\ \A i, j \in 1 .. n : s[i] = s[j] => i = j
  BY <1>5 DEF IsInjective
<1>9. IsFiniteSet(Range(s)) /\ Cardinality(Range(s)) = n
  <2>1. s \in Bijection(1 .. n, Range(s))
    BY <1>5 DEF Bijection, Injection, Surjection, Range, IsInjective
  <2>2. IsFiniteSet(1 .. n) /\ Cardinality(1 .. n) = n BY FS_Interval
  <2> QED BY <2>1, <2>2, FS_Bijection DEF ExistsBijection
<1>10. Range(s) \subseteq Fresh(g) BY <1>5 DEF Range
<1> QED BY <1>7, <1>8, <1>9, <1>10 DEF s

\* Nothing is moved.
LEMMA SamePlaces ==
    ASSUME DataOK, PlaceInv, CountInv, UNCHANGED <<pool, reg, lost>>,
           \A t \in Threads : th'[t].buf = th[t].buf
    PROVE  PlaceInv' /\ CountInv' /\ \A b : InFree(b)' <=> InFree(b)
<1>1. \A b : InFree(b)' <=> InFree(b) BY DEF InFree
<1>2. \A g \in Gpus : Used(g)' = Used(g) BY <1>1 DEF Used
<1>3. CountInv' BY <1>2 DEF CountInv
<1>4. PlaceInv' BY <1>1 DEF PlaceInv
<1> QED BY <1>1, <1>3, <1>4

\* Buffer b goes to the free list.
LEMMA AddFacts ==
    ASSUME DataOK, PlaceInv, NEW b \in Buffers, ~InFree(b), pool[b[1]].on, pool' = PoolAdd(b)
    PROVE  /\ pool' \in [Gpus -> Pools]
           /\ \A x \in Buffers : InFree(x)' <=> InFree(x) \/ x = b
           /\ \A g \in Gpus : pool'[g].num = pool[g].num /\ pool'[g].on = pool[g].on
           /\ \A g \in Gpus :
                /\ \A i \in DOMAIN pool'[g].free : pool'[g].free[i][1] = g
                /\ \A i, j \in DOMAIN pool'[g].free : pool'[g].free[i] = pool'[g].free[j] => i = j
                /\ ~pool'[g].on => pool'[g].free = <<>> /\ pool'[g].num = 0
<1> DEFINE h == b[1]
<1>1. h \in Gpus BY Names
<1>2. \A g \in Gpus : g # h => pool'[g] = pool[g] BY DEF PoolAdd, DataOK
<1>3. pool'[h] = [pool[h] EXCEPT !.free = Append(@, b)] BY <1>1 DEF PoolAdd, DataOK
<1> DEFINE s == pool[h].free
           r == pool'[h].free
<1>4. /\ pool[h] \in Pools /\ s \in Seq(Buffers) /\ Len(s) \in Nat /\ DOMAIN s = 1 .. Len(s)
      /\ pool[h].on \in BOOLEAN /\ pool[h].num \in Nat
  BY <1>1, PoolTypes
<1>5. r = Append(s, b) /\ pool'[h].num = pool[h].num /\ pool'[h].on = pool[h].on
  BY <1>3, <1>4 DEF Pools
<1>6. /\ r \in Seq(Buffers) /\ Len(r) = Len(s) + 1
      /\ \A i \in 1 .. Len(s) : r[i] = s[i]
      /\ r[Len(s) + 1] = b
  BY <1>4, <1>5, AppendProperties
<1>7. DOMAIN r = 1 .. Len(s) + 1 BY <1>6, LenProperties
<1>8. pool'[h] \in Pools BY <1>3, <1>4, <1>6, <1>5 DEF Pools
<1>9. pool' \in [Gpus -> Pools] BY <1>2, <1>8 DEF PoolAdd, DataOK
<1> HIDE DEF s, r
<1>10. /\ \A i \in 1 .. Len(s) : s[i][1] = h
       /\ \A i, j \in 1 .. Len(s) : s[i] = s[j] => i = j
       /\ \A i \in 1 .. Len(s) : s[i] # b
  BY <1>1, <1>4 DEF PlaceInv, InFree, s
<1>11. \A i \in DOMAIN r : r[i][1] = h
  BY <1>4, <1>6, <1>7, <1>10
<1>12. \A i, j \in DOMAIN r : r[i] = r[j] => i = j
  BY <1>4, <1>6, <1>7, <1>10
<1>13. ASSUME NEW x \in Buffers PROVE InFree(x)' <=> InFree(x) \/ x = b
  <2>1. x[1] \in Gpus BY Names
  <2>2. CASE x[1] # h BY <1>2, <2>1, <2>2 DEF InFree
  <2>3. CASE x[1] = h
    <3>1. InFree(x)' <=> \E i \in DOMAIN r : r[i] = x BY <2>3 DEF InFree, r
    <3>2. InFree(x) <=> \E i \in DOMAIN s : s[i] = x BY <2>3 DEF InFree, s
    <3>3. (\E i \in DOMAIN r : r[i] = x) <=> (\E i \in DOMAIN s : s[i] = x) \/ x = b
      BY <1>4, <1>6, <1>7
    <3> QED BY <3>1, <3>2, <3>3
  <2> QED BY <2>2, <2>3
<1>14. ASSUME NEW g \in Gpus
       PROVE  /\ \A i \in DOMAIN pool'[g].free : pool'[g].free[i][1] = g
              /\ \A i, j \in DOMAIN pool'[g].free : pool'[g].free[i] = pool'[g].free[j] => i = j
              /\ ~pool'[g].on => pool'[g].free = <<>> /\ pool'[g].num = 0
  <2>1. CASE g # h BY <1>2, <2>1 DEF PlaceInv
  <2>2. CASE g = h BY <1>5, <1>11, <1>12, <2>2 DEF r
  <2> QED BY <2>1, <2>2
<1> QED BY <1>2, <1>5, <1>9, <1>13, <1>14

\* A thread gives its buffer back.
LEMMA GiveBack ==
    ASSUME DataOK, PlaceInv, CountInv, NEW t \in Threads,
           th[t].buf \in Buffers, pool[th[t].buf[1]].on,
           pool' = PoolAdd(th[t].buf), UNCHANGED <<reg, lost>>,
           th'[t].buf = None, \A u \in Threads : u # t => th'[u].buf = th[u].buf
    PROVE  PlaceInv' /\ CountInv' /\ pool' \in [Gpus -> Pools]
           /\ \A x \in Buffers : InFree(x)' <=> InFree(x) \/ x = th[t].buf
<1> DEFINE b == th[t].buf
<1>1. b # None /\ b[1] \in Gpus BY Names
<1>2. /\ ~InFree(b) /\ b \notin lost /\ reg[b[1]] # b
      /\ \A u \in Threads : th[u].buf = b => u = t
  BY <1>1 DEF PlaceInv
<1>3. /\ pool' \in [Gpus -> Pools]
      /\ \A x \in Buffers : InFree(x)' <=> InFree(x) \/ x = b
      /\ \A g \in Gpus : pool'[g].num = pool[g].num /\ pool'[g].on = pool[g].on
      /\ \A g \in Gpus :
           /\ \A i \in DOMAIN pool'[g].free : pool'[g].free[i][1] = g
           /\ \A i, j \in DOMAIN pool'[g].free : pool'[g].free[i] = pool'[g].free[j] => i = j
           /\ ~pool'[g].on => pool'[g].free = <<>> /\ pool'[g].num = 0
  BY <1>2, AddFacts
<1>4. \A g \in Gpus : reg[g] # b BY <1>1, <1>2 DEF PlaceInv
<1>5. \A u \in Threads : th'[u].buf # None => u # t /\ th'[u].buf = th[u].buf /\ th[u].buf # b
  BY <1>1, <1>2
<1>6. (\A g \in Gpus : reg[g] \in Buffers \cup {None}) /\ (\A u \in Threads : th[u].buf \in Buffers \cup {None})
      /\ lost \subseteq Buffers
  BY FrameTypes DEF DataOK
<1>7. ASSUME NEW u \in Threads, th'[u].buf # None
      PROVE  /\ ~(InFree(th[u].buf))' /\ th'[u].buf \notin lost
             /\ reg[th'[u].buf[1]] # th'[u].buf
             /\ \A w \in Threads : th'[w].buf = th'[u].buf => w = u
  <2>1. u # t /\ th'[u].buf = th[u].buf /\ th[u].buf # b /\ th[u].buf \in Buffers BY <1>5, <1>6, <1>7
  <2>2. /\ ~InFree(th[u].buf) /\ th[u].buf \notin lost /\ reg[th[u].buf[1]] # th[u].buf
        /\ \A w \in Threads : th[w].buf = th[u].buf => w = u
    BY <1>7, <2>1 DEF PlaceInv
  <2>3. ASSUME NEW w \in Threads, th'[w].buf = th'[u].buf PROVE w = u
    BY <1>5, <1>7, <2>1, <2>2, <2>3
  <2> QED BY <1>3, <2>1, <2>2, <2>3
<1>8. ASSUME NEW g \in Gpus, reg[g] # None
      PROVE  pool'[g].on /\ reg[g][1] = g /\ ~InFree(reg[g])' /\ reg[g] \notin lost
  BY <1>3, <1>4, <1>6, <1>8 DEF PlaceInv
<1>9. \A x \in lost : ~InFree(x)' BY <1>2, <1>3, <1>6 DEF PlaceInv
<1>10. PlaceInv' BY <1>3, <1>7, <1>8, <1>9 DEF PlaceInv
<1>11. ASSUME NEW g \in Gpus PROVE Used(g)' = Used(g)
  <2>1. ASSUME NEW x \in Buffers
        PROVE  \/ InFree(x)' \/ \E u \in Threads : th'[u].buf = x
               <=> \/ InFree(x) \/ \E u \in Threads : th[u].buf = x
    <3>1. x # None BY Names
    <3>2. CASE x = b BY <1>3, <3>2
    <3>3. CASE x # b BY <1>3, <1>5, <3>1, <3>3
    <3> QED BY <3>2, <3>3
  <2> QED BY <2>1 DEF Used
<1>12. CountInv' BY <1>3, <1>11 DEF CountInv
<1> QED BY <1>3, <1>10, <1>12

\* The free list that a buffer is taken from, after an expansion if it was empty.
LEMMA PoolReady ==
    ASSUME DataOK, PlaceInv, CountInv, NEW g \in Gpus, pool[g].on,
           NEW p, p \in IF pool[g].free = <<>> THEN ExpandLocked(g) ELSE {pool[g]}
    PROVE  /\ p \in Pools /\ p.on
           /\ \A i \in DOMAIN p.free :
                /\ p.free[i] \in Buffers /\ p.free[i][1] = g
                /\ p.free[i] \notin lost /\ reg[g] # p.free[i]
                /\ \A u \in Threads : th[u].buf # p.free[i]
           /\ \A i, j \in DOMAIN p.free : p.free[i] = p.free[j] => i = j
           /\ \A x \in Buffers : x[1] = g /\ InFree(x) => \E i \in DOMAIN p.free : p.free[i] = x
           /\ p.num = Cardinality(Used(g) \cup Range(p.free))
<1>1. /\ pool[g] \in Pools /\ pool[g].free \in Seq(Buffers) /\ pool[g].num \in Nat
      /\ Len(pool[g].free) \in Nat /\ DOMAIN pool[g].free = 1 .. Len(pool[g].free)
      /\ \A i \in DOMAIN pool[g].free : pool[g].free[i] \in Buffers
  BY PoolTypes
<1>2. CASE p = pool[g]
  <2>1. ASSUME NEW i \in DOMAIN p.free
        PROVE  /\ p.free[i] \in Buffers /\ p.free[i][1] = g
               /\ p.free[i] \notin lost /\ reg[g] # p.free[i]
               /\ \A u \in Threads : th[u].buf # p.free[i]
    <3>1. p.free[i] \in Buffers /\ p.free[i][1] = g BY <1>1, <1>2, <2>1 DEF PlaceInv
    <3>2. InFree(p.free[i]) BY <1>2, <2>1, <3>1 DEF InFree
    <3>3. p.free[i] # None BY <3>1, Names
    <3> QED BY <3>1, <3>2, <3>3 DEF PlaceInv
  <2>2. \A i, j \in DOMAIN p.free : p.free[i] = p.free[j] => i = j BY <1>2 DEF PlaceInv
  <2>3. \A x \in Buffers : x[1] = g /\ InFree(x) => \E i \in DOMAIN p.free : p.free[i] = x
    BY <1>2 DEF InFree
  <2>4. Range(p.free) \subseteq Used(g)
    <3>1. ASSUME NEW i \in DOMAIN p.free PROVE p.free[i] \in Used(g)
      BY <1>2, <2>1, <3>1 DEF Used, InFree
    <3> QED BY <3>1 DEF Range
  <2>5. Used(g) \cup Range(p.free) = Used(g) BY <2>4
  <2> QED BY <1>1, <1>2, <2>1, <2>2, <2>3, <2>5 DEF CountInv
<1>3. CASE p # pool[g]
  <2>1. pool[g].free = <<>> /\ p \in ExpandLocked(g) BY <1>3
  <2>2. PICK k \in 0 .. pool[g].num :
          /\ k <= Cardinality(Fresh(g))
          /\ p = [pool[g] EXCEPT !.free = @ \o NewBuffers(g, k), !.num = @ + k]
    BY <2>1 DEF ExpandLocked
  <2> DEFINE s == NewBuffers(g, k)
  <2>3. k \in Nat BY <1>1
  <2>4. /\ s \in Seq(Buffers) /\ Len(s) = k
        /\ \A i \in 1 .. k : s[i] \in Fresh(g)
        /\ \A i, j \in 1 .. k : s[i] = s[j] => i = j
        /\ IsFiniteSet(Range(s)) /\ Cardinality(Range(s)) = k /\ Range(s) \subseteq Fresh(g)
    BY <2>2, <2>3, NewBuffersFacts
  <2> HIDE DEF s
  <2>5. <<>> \o s = s BY <2>4, ConcatEmptySeq
  <2>6. p.free = s /\ p.num = pool[g].num + k /\ p.on /\ p \in Pools
    <3>1. p = [pool[g] EXCEPT !.free = s, !.num = pool[g].num + k] BY <2>1, <2>2, <2>5 DEF s
    <3>2. p.free = s BY <1>1, <3>1 DEF Pools
    <3>3. p.num = pool[g].num + k BY <1>1, <3>1 DEF Pools
    <3>4. p.on = pool[g].on BY <1>1, <3>1 DEF Pools
    <3>5. pool[g].num + k \in Nat BY <1>1, <2>3
    <3>6. p \in Pools BY <1>1, <2>4, <3>1, <3>5 DEF Pools
    <3> QED BY <3>2, <3>3, <3>4, <3>6
  <2>7. DOMAIN s = 1 .. k BY <2>4, LenProperties
  <2>8. Fresh(g) = {b \in Buffers : b[1] = g} \ Used(g) /\ IsFiniteSet(Used(g))
        /\ Cardinality(Used(g)) \in Nat
    BY FreshFacts
  <2>9. ASSUME NEW i \in DOMAIN p.free
        PROVE  /\ p.free[i] \in Buffers /\ p.free[i][1] = g
               /\ p.free[i] \notin lost /\ reg[g] # p.free[i]
               /\ \A u \in Threads : th[u].buf # p.free[i]
    BY <2>4, <2>6, <2>7, <2>8 DEF Used
  <2>10. \A x \in Buffers : x[1] = g => ~InFree(x) BY <1>1, <2>1 DEF InFree
  <2>11. Used(g) \cap Range(s) = {} BY <2>4, <2>8
  <2>12. Cardinality(Used(g) \cup Range(s)) = Cardinality(Used(g)) + k
    <3>1. Cardinality(Used(g) \cap Range(s)) = 0 BY <2>11, FS_EmptySet
    <3>2. Cardinality(Used(g) \cup Range(s))
            = Cardinality(Used(g)) + Cardinality(Range(s)) - Cardinality(Used(g) \cap Range(s))
      BY <2>4, <2>8, FS_Union
    <3> QED BY <2>3, <2>4, <2>8, <3>1, <3>2
  <2> QED BY <2>4, <2>6, <2>7, <2>9, <2>10, <2>12 DEF CountInv
<1> QED BY <1>2, <1>3

\* A thread takes the first buffer of the list.
LEMMA TakeMove ==
    ASSUME DataOK, PlaceInv, CountInv, NEW t \in Threads, NEW g \in Gpus, pool[g].on,
           NEW p, p \in IF pool[g].free = <<>> THEN ExpandLocked(g) ELSE {pool[g]},
           p.free # <<>>, th[t].buf = None,
           pool' = [pool EXCEPT ![g] = TakeFirst(p)], UNCHANGED <<reg, lost>>,
           th'[t].buf = Head(p.free), \A u \in Threads : u # t => th'[u].buf = th[u].buf
    PROVE  /\ PlaceInv' /\ CountInv' /\ pool' \in [Gpus -> Pools]
           /\ th'[t].buf \in Buffers /\ th'[t].buf[1] = g
           /\ \A x \in Buffers : InFree(x) => InFree(x)' \/ x = th'[t].buf
           /\ \A h \in Gpus : pool'[h].on = pool[h].on
<1> DEFINE s == p.free
           b == Head(s)
           r == pool'[g].free
<1>1. /\ p \in Pools /\ p.on
      /\ \A i \in DOMAIN s : /\ s[i] \in Buffers /\ s[i][1] = g
                             /\ s[i] \notin lost /\ reg[g] # s[i]
                             /\ \A u \in Threads : th[u].buf # s[i]
      /\ \A i, j \in DOMAIN s : s[i] = s[j] => i = j
      /\ \A x \in Buffers : x[1] = g /\ InFree(x) => \E i \in DOMAIN s : s[i] = x
      /\ p.num = Cardinality(Used(g) \cup Range(s))
  BY PoolReady
<1>2. s \in Seq(Buffers) /\ p.on \in BOOLEAN /\ p.num \in Nat BY <1>1 DEF Pools
<1>3. Len(s) \in Nat /\ Len(s) > 0 /\ DOMAIN s = 1 .. Len(s) BY <1>2, EmptySeq, LenProperties
<1>4. b = s[1] /\ 1 \in DOMAIN s BY <1>2, <1>3
<1>5. pool'[g] = TakeFirst(p) /\ \A h \in Gpus : h # g => pool'[h] = pool[h] BY DEF DataOK
<1>6. r = Tail(s) /\ pool'[g].on = p.on /\ pool'[g].num = p.num
  <2>1. pool'[g] = [p EXCEPT !.free = Tail(s)] BY <1>5 DEF TakeFirst
  <2>2. r = Tail(s) BY <1>1, <2>1 DEF Pools
  <2>3. pool'[g].num = p.num BY <1>1, <2>1 DEF Pools
  <2>4. pool'[g].on = p.on
    <3>1. p \in Pools BY <1>1
    <3> QED BY <2>1, <3>1 DEF Pools
  <2> QED BY <2>2, <2>3, <2>4
<1>7. r \in Seq(Buffers) /\ Len(r) = Len(s) - 1 /\ \A i \in 1 .. Len(r) : r[i] = s[i + 1]
  <2>1. s # <<>> OBVIOUS
  <2> HIDE DEF r, s
  <2> QED BY <1>2, <1>6, <2>1, HeadTailProperties
<1>8. DOMAIN r = 1 .. Len(s) - 1 BY <1>7, LenProperties
<1>9. pool'[g] \in Pools BY <1>1, <1>2, <1>5, <1>6, <1>7 DEF TakeFirst, Pools
<1>10. pool' \in [Gpus -> Pools] BY <1>5, <1>9 DEF DataOK
<1> HIDE DEF r, s
<1>11. b \in Buffers /\ b[1] = g /\ b # None BY <1>1, <1>4, Names
<1>12. \A i \in DOMAIN r : i + 1 \in DOMAIN s /\ r[i] = s[i + 1] BY <1>3, <1>7, <1>8
<1>13. ASSUME NEW i \in DOMAIN r PROVE r[i][1] = g /\ r[i] # b
  BY <1>1, <1>4, <1>8, <1>12, <1>3
<1>14. \A i, j \in DOMAIN r : r[i] = r[j] => i = j
  BY <1>1, <1>8, <1>12, <1>3
<1>15. ASSUME NEW x \in Buffers, x[1] = g
       PROVE  InFree(x)' <=> (\E i \in DOMAIN s : s[i] = x) /\ x # b
  <2>1. InFree(x)' <=> \E i \in DOMAIN r : r[i] = x BY <1>15 DEF InFree, r
  <2>2. ASSUME NEW i \in DOMAIN s, s[i] = x, x # b PROVE \E j \in DOMAIN r : r[j] = x
    <3>1. i # 1 BY <1>4, <2>2
    <3>2. i - 1 \in DOMAIN r /\ r[i - 1] = s[i] BY <1>3, <1>7, <1>8, <3>1
    <3> QED BY <2>2, <3>2
  <2>3. ASSUME NEW j \in DOMAIN r, r[j] = x PROVE (\E i \in DOMAIN s : s[i] = x) /\ x # b
    BY <1>12, <1>13, <2>3
  <2> QED BY <2>1, <2>2, <2>3
<1>16. ASSUME NEW x \in Buffers, x[1] # g PROVE InFree(x)' <=> InFree(x)
  BY <1>5, <1>16, Names DEF InFree
<1>17. (\A h \in Gpus : reg[h] \in Buffers \cup {None}) /\ (\A u \in Threads : th[u].buf \in Buffers \cup {None})
      /\ lost \subseteq Buffers
  BY FrameTypes DEF DataOK
<1>18. th'[t].buf = b BY DEF s
<1>19. \A x \in Buffers : x \in lost \/ reg[x[1]] = x \/ (\E u \in Threads : th[u].buf = x) =>
            ~InFree(x)' /\ x # b
  <2> SUFFICES ASSUME NEW x \in Buffers,
                      x \in lost \/ reg[x[1]] = x \/ (\E u \in Threads : th[u].buf = x)
               PROVE  ~InFree(x)' /\ x # b
    OBVIOUS
  <2>1. x # None /\ x[1] \in Gpus BY Names
  <2>2. CASE x[1] = g BY <1>1, <1>4, <1>15, <2>2
  <2>3. CASE x[1] # g BY <1>11, <1>16, <2>1, <2>3 DEF PlaceInv
  <2> QED BY <2>2, <2>3
<1>20. ASSUME NEW u \in Threads, th'[u].buf # None
       PROVE  /\ ~(InFree(th[u].buf))' /\ th'[u].buf \notin lost
              /\ reg[th'[u].buf[1]] # th'[u].buf
              /\ \A w \in Threads : th'[w].buf = th'[u].buf => w = u
  <2>1. CASE u = t
    <3>1. ~InFree(b)' BY <1>11, <1>15
    <3>2. b \notin lost /\ reg[b[1]] # b /\ \A w \in Threads : th[w].buf # b BY <1>1, <1>4, <1>11
    <3> QED BY <1>18, <2>1, <3>1, <3>2
  <2>2. CASE u # t
    <3>1. th'[u].buf = th[u].buf /\ th[u].buf \in Buffers BY <1>17, <1>20, <2>2
    <3>2. ~(InFree(th[u].buf))' /\ th[u].buf # b BY <1>19, <3>1
    <3> QED BY <1>18, <1>20, <2>2, <3>1, <3>2 DEF PlaceInv
  <2> QED BY <2>1, <2>2
<1>21. ASSUME NEW h \in Gpus
       PROVE  /\ \A i \in DOMAIN pool'[h].free : pool'[h].free[i][1] = h
              /\ \A i, j \in DOMAIN pool'[h].free : pool'[h].free[i] = pool'[h].free[j] => i = j
              /\ ~pool'[h].on => pool'[h].free = <<>> /\ pool'[h].num = 0
              /\ reg[h] # None => /\ pool'[h].on /\ reg[h][1] = h
                                  /\ ~InFree(reg[h])' /\ reg[h] \notin lost
  <2>1. reg[h] # None => reg[h] \in Buffers /\ reg[h][1] = h /\ pool[h].on /\ reg[h] \notin lost
    BY <1>17 DEF PlaceInv
  <2>2. reg[h] # None => ~InFree(reg[h])' BY <1>19, <2>1
  <2>3. CASE h = g
    <3>1. pool'[h].on BY <1>1, <1>6, <2>3
    <3>2. \A i \in DOMAIN pool'[h].free : pool'[h].free[i][1] = h BY <1>13, <2>3 DEF r
    <3>3. \A i, j \in DOMAIN pool'[h].free : pool'[h].free[i] = pool'[h].free[j] => i = j
      BY <1>14, <2>3 DEF r
    <3> QED BY <2>1, <2>2, <3>1, <3>2, <3>3
  <2>4. CASE h # g BY <1>5, <2>1, <2>2, <2>4 DEF PlaceInv
  <2> QED BY <2>3, <2>4
<1>22. \A x \in lost : ~InFree(x)' BY <1>17, <1>19
<1>23. PlaceInv' BY <1>20, <1>21, <1>22 DEF PlaceInv
<1>24. ASSUME NEW h \in Gpus PROVE pool'[h].num = Cardinality(Used(h)')
  <2>1. CASE h = g
    <3>1. ASSUME NEW x \in Buffers, x[1] = g
          PROVE  x \in Used(g)' <=> x \in Used(g) \cup Range(s)
      <4>1. (\E u \in Threads : th'[u].buf = x) <=> x = b \/ \E u \in Threads : th[u].buf = x
        <5>1. x # None BY Names
        <5> QED BY <1>18, <5>1
      <4>2. x \in Range(s) <=> \E i \in DOMAIN s : s[i] = x BY DEF Range
      <4>3. InFree(x) => x \in Range(s) BY <1>1, <3>1, <4>2
      <4>4. b \in Range(s) BY <1>4 DEF Range
      <4>5. InFree(x)' <=> x \in Range(s) /\ x # b BY <1>15, <3>1, <4>2
      <4> QED BY <3>1, <4>1, <4>3, <4>4, <4>5 DEF Used
    <3>2. Range(s) \subseteq {x \in Buffers : x[1] = g} BY <1>1 DEF Range
    <3>3. Used(g) \subseteq {x \in Buffers : x[1] = g} /\ Used(g)' \subseteq {x \in Buffers : x[1] = g}
      BY DEF Used
    <3>4. Used(g)' = Used(g) \cup Range(s) BY <3>1, <3>2, <3>3
    <3> QED BY <1>1, <1>6, <2>1, <3>4
  <2>2. CASE h # g
    <3>1. Used(h)' = Used(h) BY <1>11, <1>16, <1>18, Names, <2>2 DEF Used
    <3> QED BY <1>5, <2>2, <3>1 DEF CountInv
  <2> QED BY <2>1, <2>2
<1>25. CountInv' BY <1>24 DEF CountInv
<1>26. \A x \in Buffers : InFree(x) => InFree(x)' \/ x = b BY <1>1, <1>15, <1>16
<1> QED BY <1>1, <1>5, <1>6, <1>10, <1>11, <1>18, <1>23, <1>25, <1>26

LEMMA PlaceTypes ==
    ASSUME DataOK
    PROVE  /\ \A g \in Gpus : reg[g] \in Buffers \cup {None}
           /\ \A t \in Threads : th[t].buf \in Buffers \cup {None}
           /\ lost \subseteq Buffers
BY FrameTypes DEF DataOK

\* A thread loses its buffer, or gives it to the VA space.
LEMMA PutAway ==
    ASSUME DataOK, PlaceInv, CountInv, NEW t \in Threads, UNCHANGED pool,
           th[t].buf \in Buffers, pool[th[t].buf[1]].on,
           th'[t].buf = None, \A u \in Threads : u # t => th'[u].buf = th[u].buf,
           \/ lost' = lost \cup {th[t].buf} /\ UNCHANGED reg
           \/ /\ reg[th[t].buf[1]] = None /\ reg' = [reg EXCEPT ![th[t].buf[1]] = th[t].buf]
              /\ UNCHANGED lost
    PROVE  PlaceInv' /\ CountInv' /\ \A b : InFree(b)' <=> InFree(b)
<1> DEFINE b == th[t].buf
<1>1. b # None /\ b[1] \in Gpus BY Names
<1>2. /\ ~InFree(b) /\ b \notin lost /\ reg[b[1]] # b
      /\ \A u \in Threads : th[u].buf = b => u = t
  BY <1>1 DEF PlaceInv
<1>3. \A x : InFree(x)' <=> InFree(x) BY DEF InFree
<1>4. \A u \in Threads : th'[u].buf # None => u # t /\ th'[u].buf = th[u].buf /\ th[u].buf # b
  BY <1>1, <1>2
<1>5. reg \in [Gpus -> Buffers \cup {None}] BY DEF DataOK
<1>6. lost' \subseteq lost \cup {b} OBVIOUS
<1>7. \A g \in Gpus : reg'[g] # reg[g] => g = b[1] /\ reg'[g] = b BY <1>1, <1>5
<1>8. \A g \in Gpus : reg[g] # b BY <1>1, <1>2 DEF PlaceInv
<1>9. ASSUME NEW u \in Threads, th'[u].buf # None
      PROVE  /\ ~(InFree(th[u].buf))' /\ th'[u].buf \notin lost'
             /\ reg'[th'[u].buf[1]] # th'[u].buf
             /\ \A w \in Threads : th'[w].buf = th'[u].buf => w = u
  <2>1. u # t /\ th'[u].buf = th[u].buf /\ th[u].buf # b /\ th[u].buf \in Buffers
    BY <1>4, <1>9, PlaceTypes
  <2>2. /\ ~InFree(th[u].buf) /\ th[u].buf \notin lost /\ reg[th[u].buf[1]] # th[u].buf
        /\ \A w \in Threads : th[w].buf = th[u].buf => w = u
    BY <1>9, <2>1 DEF PlaceInv
  <2>3. th[u].buf[1] \in Gpus BY <2>1, Names
  <2>4. ~(InFree(th[u].buf))' BY <1>3, <2>1, <2>2
  <2>5. th'[u].buf \notin lost' /\ reg'[th'[u].buf[1]] # th'[u].buf BY <1>6, <1>7, <2>1, <2>2, <2>3
  <2>6. \A w \in Threads : th'[w].buf = th'[u].buf => w = u BY <1>4, <1>9, <2>1, <2>2
  <2> QED BY <2>4, <2>5, <2>6
<1>10. ASSUME NEW g \in Gpus, reg'[g] # None
       PROVE  pool[g].on /\ reg'[g][1] = g /\ ~InFree(reg[g])' /\ reg'[g] \notin lost'
  <2>1. CASE reg'[g] = reg[g] BY <1>3, <1>6, <1>8, <1>10, <2>1 DEF PlaceInv
  <2>2. CASE reg'[g] # reg[g]
    <3>1. g = b[1] /\ reg'[g] = b BY <1>7, <2>2
    <3>2. lost' = lost BY <2>2
    <3>3. ~InFree(reg[g])' BY <1>2, <1>3, <3>1
    <3> QED BY <1>2, <3>1, <3>2, <3>3
  <2> QED BY <2>1, <2>2
<1>11. \A x \in lost' : ~InFree(x)' BY <1>2, <1>3, <1>6 DEF PlaceInv
<1>12. PlaceInv' BY <1>9, <1>10, <1>11 DEF PlaceInv
<1>13. ASSUME NEW g \in Gpus PROVE Used(g)' = Used(g)
  <2>1. ASSUME NEW x \in Buffers, x[1] = g
        PROVE  \/ x \in lost' \/ reg'[g] = x \/ \E u \in Threads : th'[u].buf = x
               <=> \/ x \in lost \/ reg[g] = x \/ \E u \in Threads : th[u].buf = x
    <3>1. x # None BY Names
    <3>2. CASE x = b BY <1>1, <1>5, <2>1, <3>2
    <3>3. CASE x # b
      <4>1. x \in lost' <=> x \in lost BY <3>3
      <4>2. reg'[g] = x <=> reg[g] = x
        <5>1. CASE reg'[g] = reg[g] BY <5>1
        <5>2. CASE reg'[g] # reg[g]
          <6>1. g = b[1] /\ reg'[g] = b BY <1>7, <5>2
          <6>2. reg[g] = None BY <5>2, <6>1
          <6> QED BY <3>1, <3>3, <6>1, <6>2
        <5> QED BY <5>1, <5>2
      <4>3. (\E u \in Threads : th'[u].buf = x) <=> (\E u \in Threads : th[u].buf = x)
        BY <1>4, <3>1, <3>3
      <4> QED BY <4>1, <4>2, <4>3
    <3> QED BY <3>2, <3>3
  <2> QED BY <1>3, <2>1 DEF Used
<1>14. CountInv' BY <1>13 DEF CountInv
<1> QED BY <1>3, <1>12, <1>14

\* The VA space gives its buffer back.
LEMMA GiveBackRegistered ==
    ASSUME DataOK, PlaceInv, CountInv, NEW g \in Gpus, reg[g] # None,
           pool' = PoolAdd(reg[g]), reg' = [reg EXCEPT ![g] = None], UNCHANGED lost,
           \A u \in Threads : th'[u].buf = None /\ th[u].buf = None
    PROVE  /\ PlaceInv' /\ CountInv' /\ pool' \in [Gpus -> Pools]
           /\ \A x \in Buffers : InFree(x)' <=> InFree(x) \/ x = reg[g]
           /\ \A h \in Gpus : pool'[h].on = pool[h].on
<1> DEFINE b == reg[g]
<1>1. b \in Buffers /\ b[1] = g /\ pool[b[1]].on /\ ~InFree(b) /\ b \notin lost
  BY PlaceTypes DEF PlaceInv
<1>2. reg \in [Gpus -> Buffers \cup {None}] BY DEF DataOK
<1>3. reg'[g] = None /\ \A h \in Gpus : h # g => reg'[h] = reg[h] BY <1>2
<1>4. \A h \in Gpus : h # g => reg[h] # b BY <1>1 DEF PlaceInv
<1> HIDE DEF b
<1>5. pool' = PoolAdd(b) BY DEF b
<1>6. /\ pool' \in [Gpus -> Pools]
      /\ \A x \in Buffers : InFree(x)' <=> InFree(x) \/ x = b
      /\ \A h \in Gpus : pool'[h].num = pool[h].num /\ pool'[h].on = pool[h].on
      /\ \A h \in Gpus :
           /\ \A i \in DOMAIN pool'[h].free : pool'[h].free[i][1] = h
           /\ \A i, j \in DOMAIN pool'[h].free : pool'[h].free[i] = pool'[h].free[j] => i = j
           /\ ~pool'[h].on => pool'[h].free = <<>> /\ pool'[h].num = 0
  BY <1>1, <1>5, AddFacts
<1>7. ASSUME NEW h \in Gpus, reg'[h] # None
      PROVE  pool'[h].on /\ reg'[h][1] = h /\ ~InFree(reg[h])' /\ reg'[h] \notin lost'
  <2>1. h # g /\ reg'[h] = reg[h] /\ reg[h] # b /\ reg[h] \in Buffers
    BY <1>2, <1>3, <1>4, <1>7
  <2>2. pool[h].on /\ reg[h][1] = h /\ ~InFree(reg[h]) /\ reg[h] \notin lost
    BY <1>7, <2>1 DEF PlaceInv
  <2> QED BY <1>6, <2>1, <2>2
<1>8. \A x \in lost' : ~InFree(x)' BY <1>1, <1>6, PlaceTypes DEF PlaceInv
<1>9. PlaceInv' BY <1>6, <1>7, <1>8 DEF PlaceInv
<1>10. ASSUME NEW h \in Gpus PROVE Used(h)' = Used(h)
  <2>1. ASSUME NEW x \in Buffers, x[1] = h
        PROVE  InFree(x)' \/ reg'[h] = x <=> InFree(x) \/ reg[h] = x
    <3>1. x # None BY Names
    <3>2. CASE h = g BY <1>3, <1>6, <3>1, <3>2 DEF b
    <3>3. CASE h # g BY <1>1, <1>3, <1>6, <2>1, <3>3
    <3> QED BY <3>2, <3>3
  <2> QED BY <2>1 DEF Used
<1>11. CountInv' BY <1>6, <1>10 DEF CountInv
<1> QED BY <1>6, <1>9, <1>11 DEF b

\* The pool of a GPU is created.
LEMMA CreatePool ==
    ASSUME DataOK, PlaceInv, CountInv, NEW g \in Gpus, ~pool[g].on, NEW n \in Nat,
           n <= Cardinality(Fresh(g)), UNCHANGED <<reg, lost>>,
           pool' = [pool EXCEPT ![g] = [on |-> TRUE, free |-> NewBuffers(g, n), num |-> n]],
           \A u \in Threads : th'[u].buf = None /\ th[u].buf = None
    PROVE  /\ PlaceInv' /\ CountInv' /\ pool' \in [Gpus -> Pools]
           /\ \A x \in Buffers : InFree(x) => InFree(x)'
           /\ \A h \in Gpus : pool[h].on => pool'[h].on
           /\ pool'[g].on
<1> DEFINE s == NewBuffers(g, n)
<1>1. /\ s \in Seq(Buffers) /\ Len(s) = n
      /\ \A i \in 1 .. n : s[i] \in Fresh(g)
      /\ \A i, j \in 1 .. n : s[i] = s[j] => i = j
      /\ IsFiniteSet(Range(s)) /\ Cardinality(Range(s)) = n /\ Range(s) \subseteq Fresh(g)
  BY NewBuffersFacts
<1>2. DOMAIN s = 1 .. n BY <1>1, LenProperties
<1>3. pool[g].free = <<>> /\ pool[g].num = 0 BY DEF PlaceInv
<1>4. Fresh(g) = {b \in Buffers : b[1] = g} \ Used(g) /\ IsFiniteSet(Used(g)) BY FreshFacts
<1>5. Used(g) = {} BY <1>3, <1>4, FS_EmptySet DEF CountInv
<1> HIDE DEF s
<1>6. pool'[g] = [on |-> TRUE, free |-> s, num |-> n] /\ \A h \in Gpus : h # g => pool'[h] = pool[h]
  BY DEF DataOK, s
<1>7. pool'[g].on /\ pool'[g].free = s /\ pool'[g].num = n /\ pool'[g] \in Pools
  BY <1>1, <1>6 DEF Pools
<1>8. pool' \in [Gpus -> Pools] BY <1>6, <1>7 DEF DataOK
<1>9. ASSUME NEW x \in Buffers, x[1] = g
      PROVE  (InFree(x)' <=> x \in Range(s)) /\ ~InFree(x) /\ x \notin lost /\ reg[g] # x
  <2>1. InFree(x)' <=> x \in Range(s) BY <1>7, <1>9 DEF InFree, Range
  <2> QED BY <1>5, <1>9, <2>1 DEF Used
<1>10. ASSUME NEW x \in Buffers, x[1] # g PROVE InFree(x)' <=> InFree(x)
  BY <1>6, <1>10, Names DEF InFree
<1>11. reg[g] = None BY <1>9, PlaceTypes DEF PlaceInv
<1>12. ASSUME NEW h \in Gpus
       PROVE  /\ \A i \in DOMAIN pool'[h].free : pool'[h].free[i][1] = h
              /\ \A i, j \in DOMAIN pool'[h].free : pool'[h].free[i] = pool'[h].free[j] => i = j
              /\ ~pool'[h].on => pool'[h].free = <<>> /\ pool'[h].num = 0
  <2>1. CASE h = g BY <1>1, <1>2, <1>4, <1>7, <2>1
  <2>2. CASE h # g BY <1>6, <2>2 DEF PlaceInv
  <2> QED BY <2>1, <2>2
<1>13. ASSUME NEW h \in Gpus, reg[h] # None
       PROVE  pool'[h].on /\ reg[h][1] = h /\ ~InFree(reg[h])' /\ reg[h] \notin lost
  <2>1. h # g BY <1>11, <1>13
  <2>2. reg[h] \in Buffers /\ pool[h].on /\ reg[h][1] = h /\ ~InFree(reg[h]) /\ reg[h] \notin lost
    BY <1>13, PlaceTypes DEF PlaceInv
  <2> QED BY <1>6, <1>10, <2>1, <2>2
<1>14. ASSUME NEW x \in lost PROVE ~InFree(x)'
  BY <1>9, <1>10, <1>14, PlaceTypes DEF PlaceInv
<1>15. PlaceInv' BY <1>12, <1>13, <1>14 DEF PlaceInv
<1>16. ASSUME NEW h \in Gpus PROVE pool'[h].num = Cardinality(Used(h)')
  <2>1. CASE h = g
    <3>1. Range(s) \subseteq {x \in Buffers : x[1] = g} BY <1>1, <1>4
    <3>2. \A x \in Buffers : x # None BY Names
    <3>3. Used(g)' = Range(s) BY <1>9, <3>1, <3>2 DEF Used
    <3> QED BY <1>1, <1>7, <2>1, <3>3
  <2>2. CASE h # g
    <3>1. Used(h)' = Used(h) BY <1>10, <2>2 DEF Used
    <3> QED BY <1>6, <2>2, <3>1 DEF CountInv
  <2> QED BY <2>1, <2>2
<1>17. CountInv' BY <1>16 DEF CountInv
<1> QED BY <1>6, <1>7, <1>8, <1>9, <1>10, <1>15, <1>17

\* The pool of a GPU is destroyed.
LEMMA DestroyPool ==
    ASSUME DataOK, PlaceInv, CountInv, NEW g \in Gpus, reg[g] = None, UNCHANGED reg,
           lost' = {b \in lost : b[1] # g},
           pool' = [pool EXCEPT ![g] = [on |-> FALSE, free |-> <<>>, num |-> 0]],
           \A u \in Threads : th'[u].buf = None /\ th[u].buf = None
    PROVE  /\ PlaceInv' /\ CountInv' /\ pool' \in [Gpus -> Pools]
           /\ \A x \in Buffers : x[1] # g => (InFree(x)' <=> InFree(x))
           /\ \A h \in Gpus : h # g => pool'[h].on = pool[h].on
<1>1. pool'[g] = [on |-> FALSE, free |-> <<>>, num |-> 0] /\ \A h \in Gpus : h # g => pool'[h] = pool[h]
  BY DEF DataOK
<1>2. ~pool'[g].on /\ pool'[g].free = <<>> /\ pool'[g].num = 0 /\ pool'[g] \in Pools
  <2>1. <<>> \in Seq(Buffers) BY EmptySeq
  <2>2. [on |-> FALSE, free |-> <<>>, num |-> 0] \in Pools BY <2>1 DEF Pools
  <2> QED BY <1>1, <2>2
<1>3. pool' \in [Gpus -> Pools] BY <1>1, <1>2 DEF DataOK
<1>4. DOMAIN pool'[g].free = {} BY <1>2
<1>5. ASSUME NEW x \in Buffers, x[1] # g PROVE InFree(x)' <=> InFree(x)
  BY <1>1, <1>5, Names DEF InFree
<1>6. ASSUME NEW h \in Gpus
       PROVE  /\ \A i \in DOMAIN pool'[h].free : pool'[h].free[i][1] = h
              /\ \A i, j \in DOMAIN pool'[h].free : pool'[h].free[i] = pool'[h].free[j] => i = j
              /\ ~pool'[h].on => pool'[h].free = <<>> /\ pool'[h].num = 0
  <2>1. CASE h = g BY <1>2, <1>4, <2>1
  <2>2. CASE h # g BY <1>1, <2>2 DEF PlaceInv
  <2> QED BY <2>1, <2>2
<1>7. ASSUME NEW h \in Gpus, reg[h] # None
       PROVE  pool'[h].on /\ reg[h][1] = h /\ ~InFree(reg[h])' /\ reg[h] \notin lost'
  <2>1. h # g BY <1>7
  <2>2. reg[h] \in Buffers /\ pool[h].on /\ reg[h][1] = h /\ ~InFree(reg[h]) /\ reg[h] \notin lost
    BY <1>7, PlaceTypes DEF PlaceInv
  <2> QED BY <1>1, <1>5, <2>1, <2>2
<1>8. ASSUME NEW x \in lost' PROVE ~InFree(x)'
  BY <1>5, <1>8, PlaceTypes DEF PlaceInv
<1>9. PlaceInv' BY <1>6, <1>7, <1>8 DEF PlaceInv
<1>10. ASSUME NEW h \in Gpus PROVE pool'[h].num = Cardinality(Used(h)')
  <2>1. CASE h = g
    <3>1. \A x \in Buffers : x # None BY Names
    <3>2. \A x \in Buffers : x[1] = g => ~InFree(x)' BY <1>4 DEF InFree
    <3>3. Used(g)' = {} BY <3>1, <3>2 DEF Used
    <3> QED BY <1>2, <2>1, <3>3, FS_EmptySet
  <2>2. CASE h # g
    <3>1. Used(h)' = Used(h) BY <1>5, <2>2 DEF Used
    <3> QED BY <1>1, <2>2, <3>1 DEF CountInv
  <2> QED BY <2>1, <2>2
<1>11. CountInv' BY <1>10 DEF CountInv
<1> QED BY <1>1, <1>3, <1>5, <1>9, <1>11

-----------------------------------------------------------------------------
(* What the steps of a call have in common.                                *)

LEMMA InFlightFacts ==
    ASSUME DataOK, ChannelInv, NEW c \in Channels, NEW p \in InFlight(c)
    PROVE  /\ p \in Pushes /\ p.v \in Nat /\ p.call \in Nat /\ p.block \in Blocks
           /\ p.buf \in Buffers /\ p.deps \in Entries
           /\ completed[c] < p.v /\ p.v <= queued[c]
           /\ p.buf[1] = Gpu(c) /\ p.call <= calls
<1>1. pending[c] \in Seq(Pushes) /\ completed[c] \in Nat /\ queued[c] \in Nat BY DEF DataOK
<1>2. PICK i \in DOMAIN pending[c] : p = pending[c][i] BY DEF InFlight, Range
<1>3. DOMAIN pending[c] = 1 .. Len(pending[c]) /\ Len(pending[c]) \in Nat BY <1>1, LenProperties
<1>4. p \in Pushes BY <1>1, <1>2, <1>3, ElementOfSeq
<1>5. p.v = completed[c] + i /\ p.buf[1] = Gpu(c) /\ p.call <= calls
      /\ queued[c] = completed[c] + Len(pending[c])
  BY <1>2 DEF ChannelInv
<1> QED BY <1>1, <1>3, <1>4, <1>5 DEF Pushes

\* What a wait was for is not in flight.
LEMMA NotInFlight ==
    ASSUME DataOK, ChannelInv, NEW tr \in Trackers, Done(tr), NEW c \in Channels, NEW p \in InFlight(c)
    PROVE  ~Covers(tr.e, c, p.v)
<1>1. completed \in [Channels -> Nat] BY DEF DataOK
<1>2. p.v \in Nat /\ completed[c] < p.v /\ completed[c] \in Nat BY <1>1, InFlightFacts
<1> QED BY <1>1, <1>2, DoneFacts

LEMMA StagedStep ==
    ASSUME StagedInv, NEW t \in Threads, fatal => fatal',
           \A u \in Threads : u # t => th'[u] = th[u],
           \A c \in Channels : \A p \in InFlight(c) : p.buf # th[t].buf => tracker'[p.buf] = tracker[p.buf],
           fatal' \/ \A c \in Channels : \A p \in InFlight(c) :
               p.buf = th[t].buf /\ (Covers(tracker[p.buf].e, c, p.v) \/ Owns(t, c, p))
                 => Covers(tracker'[p.buf].e, c, p.v) \/ Owns(t, c, p)'
    PROVE  /\ fatal' \/ \A c \in Channels : \A p \in InFlight(c) :
                \/ Covers(tracker'[p.buf].e, c, p.v)
                \/ \E u \in Threads : Owns(u, c, p)'
           /\ UNCHANGED pending => StagedInv'
<1>0. UNCHANGED pending => \A d \in Channels : InFlight(d)' = InFlight(d) BY DEF InFlight
<1> SUFFICES ASSUME ~fatal', NEW c \in Channels, NEW p \in InFlight(c)
             PROVE  \/ Covers(tracker'[p.buf].e, c, p.v)
                    \/ \E u \in Threads : Owns(u, c, p)'
  BY <1>0 DEF StagedInv
<1>1. Covers(tracker[p.buf].e, c, p.v) \/ \E u \in Threads : Owns(u, c, p) BY DEF StagedInv
<1>2. \A u \in Threads : u # t /\ Owns(u, c, p) => Owns(u, c, p)'
  BY DEF Owns, Current, OwnPush, Channel
<1>3. Owns(t, c, p) => p.buf = th[t].buf BY DEF Owns
<1> QED BY <1>1, <1>2, <1>3

LEMMA CoverStep ==
    ASSUME DataOK, ChannelInv, BlockInv, CoverInv, NEW t \in Threads, fatal => fatal',
           \A u \in Threads : u # t => th'[u] = th[u], th'[t].block \in {th[t].block, None},
           \A b \in Blocks : b # th[t].block => block'[b] = block[b],
           fatal' \/ \A c \in Channels : \A p \in InFlight(c) :
               p.block = th[t].block /\ CallCovers(t, c, p) =>
                 IF th'[t].block = p.block THEN CallCovers(t, c, p)' ELSE BlockCovers(c, p)'
    PROVE  /\ fatal' \/ \A c \in Channels : \A p \in InFlight(c) :
                /\ \A u \in Threads : th'[u].block = p.block => CallCovers(u, c, p)'
                /\ (\A u \in Threads : th'[u].block # p.block) => BlockCovers(c, p)'
           /\ UNCHANGED pending => CoverInv'
<1>0. UNCHANGED pending => \A d \in Channels : InFlight(d)' = InFlight(d) BY DEF InFlight
<1> SUFFICES ASSUME ~fatal', NEW c \in Channels, NEW p \in InFlight(c)
             PROVE  /\ \A u \in Threads : th'[u].block = p.block => CallCovers(u, c, p)'
                    /\ (\A u \in Threads : th'[u].block # p.block) => BlockCovers(c, p)'
  BY <1>0 DEF CoverInv
<1>1. /\ \A u \in Threads : th[u].block = p.block => CallCovers(u, c, p)
      /\ (\A u \in Threads : th[u].block # p.block) => BlockCovers(c, p)
  BY DEF CoverInv
<1>2. p.block \in Blocks /\ p.block # None BY InFlightFacts, Names
<1>3. CASE th[t].block = p.block
  <2>1. \A u \in Threads : u # t => th'[u].block # p.block BY <1>2, <1>3 DEF BlockInv
  <2>2. CallCovers(t, c, p) BY <1>1, <1>3
  <2> QED BY <1>3, <2>1, <2>2
<1>4. CASE th[t].block # p.block
  <2>1. th'[t].block # p.block BY <1>2, <1>4
  <2>2. block'[p.block] = block[p.block] BY <1>2, <1>4
  <2>3. BlockCovers(c, p)' <=> BlockCovers(c, p) BY <2>2 DEF BlockCovers
  <2>4. ASSUME NEW u \in Threads, th'[u].block = p.block PROVE CallCovers(u, c, p)'
    <3>1. u # t /\ th'[u] = th[u] BY <2>1, <2>4
    <3>2. CallCovers(u, c, p) BY <1>1, <2>4, <3>1
    <3>3. Current(u, c, p)' <=> Current(u, c, p) BY <3>1 DEF Current, Channel
    <3> QED BY <2>3, <3>1, <3>2, <3>3 DEF CallCovers
  <2>5. (\A u \in Threads : th'[u].block # p.block) => BlockCovers(c, p)'
    BY <1>1, <1>4, <2>3
  <2> QED BY <2>4, <2>5
<1> QED BY <1>3, <1>4

\* Other calls are not registrations while a call takes a step.
LEMMA FramesStep ==
    ASSUME DataOK, FramesInv, NEW t \in Threads, th[t].pc # "idle",
           \A u \in Threads : u # t => th'[u] = th[u], FrameInv(t)',
           UNCHANGED reg, calls' = calls
    PROVE  FramesInv'
<1> SUFFICES ASSUME NEW u \in Threads, u # t PROVE FrameInv(u)' BY DEF FramesInv
<1>1. FrameInv(u) /\ th'[u] = th[u] BY DEF FramesInv
<1>2. th[u].kind # "reg" BY <1>1 DEF FrameInv
<1>3. Channel(u)' = Channel(u) BY <1>1 DEF Channel
<1> QED BY <1>1, <1>2, <1>3 DEF FrameInv, Registered, RegisteredIn

LEMMA BlockStep ==
    ASSUME BlockInv, NEW t \in Threads, UNCHANGED reg, \A u \in Threads : u # t => th'[u] = th[u],
           th'[t].block \in {th[t].block, None},
           \A b \in Blocks : b # th[t].block => block'[b] = block[b],
           \A b \in Blocks : b = th[t].block => RegisteredIn(block[b].e)'
    PROVE  BlockInv'
<1>1. \A b \in Blocks : RegisteredIn(block[b].e)' BY DEF BlockInv, RegisteredIn
<1>2. \A u, w \in Threads : th'[u].block # None /\ th'[u].block = th'[w].block => u = w BY DEF BlockInv
<1> QED BY <1>1, <1>2 DEF BlockInv

\* A step that moves no buffer and submits nothing.
LEMMA NeutralStep ==
    ASSUME Inv, NEW t \in Threads, th[t].pc \notin {"idle", "alloc"}, th'[t].pc # "alloc",
           th' \in [Threads -> Frames], \A u \in Threads : u # t => th'[u] = th[u], FrameInv(t)',
           UNCHANGED <<pool, tracker, reg, lost, channelVars, bounds>>,
           fatal' \in BOOLEAN, fatal => fatal',
           block' \in [Blocks -> Trackers], \A b \in Blocks : b # th[t].block => block'[b] = block[b],
           \A b \in Blocks : b = th[t].block => Fits(block[b])' /\ RegisteredIn(block[b].e)',
           th'[t].buf = th[t].buf, th'[t].block \in {th[t].block, None},
           fatal' \/ \A c \in Channels : \A p \in InFlight(c) : Owns(t, c, p) => Owns(t, c, p)',
           fatal' \/ \A c \in Channels : \A p \in InFlight(c) :
               p.block = th[t].block /\ CallCovers(t, c, p) =>
                 IF th'[t].block = p.block THEN CallCovers(t, c, p)' ELSE BlockCovers(c, p)'
    PROVE  Inv'
<1> USE DEF Inv, channelVars, bounds
<1>1. DataOK' BY DEF DataOK
<1>2. FitInv' BY DEF FitInv, Fits, Size
<1>3. ChannelInv' BY DEF ChannelInv
<1>4. FramesInv' BY FramesStep
<1>5. BlockInv' BY BlockStep
<1>6. \A u \in Threads : th'[u].buf = th[u].buf OBVIOUS
<1>7. PlaceInv' /\ CountInv' /\ \A b : InFree(b)' <=> InFree(b) BY <1>6, SamePlaces
<1>8. TrackerInv'
  <2>1. ASSUME NEW b \in Buffers, NEW u \in Threads, th[u].pc = "alloc", th[u].buf = b
        PROVE  th'[u].pc = "alloc" /\ th'[u].buf = b
    BY <2>1
  <2> QED BY <1>7, <2>1 DEF TrackerInv
<1>9. StagedInv' BY StagedStep
<1>10. CoverInv' BY CoverStep
<1>11. CopiesOrdered' BY DEF CopiesOrdered, InFlight
<1> QED BY <1>1, <1>2, <1>3, <1>4, <1>5, <1>7, <1>8, <1>9, <1>10, <1>11

\* The frame of a call in the middle of a copy or of a utility.
LEMMA CallFacts ==
    ASSUME Inv, NEW t \in Threads, th[t].pc # "idle"
    PROVE  /\ th[t] \in Frames /\ th[t].plan \in Seq(Channels) /\ th[t].plan # <<>>
           /\ Channel(t) \in Channels /\ Gpu(Channel(t)) \in Gpus /\ pool[Gpu(Channel(t))].on
           /\ th[t].kind # "reg" => /\ th[t].block \in Blocks /\ block[th[t].block] \in Trackers
                                    /\ Fits(block[th[t].block])
           /\ th[t].block = None \/ th[t].block \in Blocks
<1>1. th[t] \in Frames /\ th[t].plan \in Seq(Channels) /\ th[t].plan # <<>>
  BY FrameTypes DEF Inv, FramesInv, FrameInv
<1>2. Channel(t) \in Channels BY <1>1, HeadTailProperties DEF Channel
<1>3. Gpu(Channel(t)) \in Gpus BY <1>2, Names
<1>4. th[t].kind # "reg" => /\ th[t].block \in Blocks /\ block[th[t].block] \in Trackers
                            /\ Fits(block[th[t].block])
  BY DEF Inv, FramesInv, FrameInv, DataOK, FitInv
<1>5. pool[Gpu(Channel(t))].on
  <2>1. CASE th[t].kind = "reg" BY <2>1 DEF Inv, FramesInv, FrameInv
  <2>2. CASE th[t].kind # "reg"
    <3>1. Len(th[t].plan) \in Nat /\ Len(th[t].plan) # 0 /\ DOMAIN th[t].plan = 1 .. Len(th[t].plan)
      BY <1>1, LenProperties, EmptySeq
    <3>2. 1 \in DOMAIN th[t].plan /\ Channel(t) = th[t].plan[1] BY <1>1, <3>1 DEF Channel
    <3>3. reg[Gpu(Channel(t))] # None BY <2>2, <3>2 DEF Inv, FramesInv, FrameInv, Registered
    <3> QED BY <1>3, <3>3 DEF Inv, PlaceInv
  <2> QED BY <2>1, <2>2
<1>6. th[t].block = None \/ th[t].block \in Blocks BY <1>1 DEF Frames
<1> QED BY <1>1, <1>2, <1>3, <1>4, <1>5, <1>6

LEMMA OverwriteInv ==
    ASSUME Inv, NEW t \in Threads, Overwrite(t)
    PROVE  Inv'
<1> DEFINE src == block[th[t].block]
           R == [Reserved(Empty, Size(src)) EXCEPT !.e = src.e]
<1>1. th[t].pc = "begin" /\ th[t] \in Frames /\ th[t].kind = "copy" /\ FrameInv(t)
  BY CallFacts DEF Overwrite, Inv, FramesInv, FrameInv, Frames
<1>2. th[t].block \in Blocks /\ src \in Trackers /\ Fits(src) BY <1>1, CallFacts
<1>3. R \in Trackers /\ R.e = src.e
  <2>1. src.e \in Entries /\ Size(src) \in Nat /\ Size(src) <= 512
    BY <1>2, EntriesFacts DEF Trackers, Size
  <2> QED BY <2>1, EmptyFacts, ReservedFacts, ExceptFacts
<1>4. /\ \A u \in Threads : u # t => th'[u] = th[u]
      /\ UNCHANGED <<pool, tracker, block, reg, lost, channelVars, fatal, bounds>>
      /\ \/ th'[t] = [th[t] EXCEPT !.pc = "take", !.loc = R]
         \/ th'[t] = [th[t] EXCEPT !.pc = "overwait"]
      /\ DOMAIN th' = Threads /\ th' = [u \in Threads |-> th'[u]]
  BY DEF Overwrite, Inv, DataOK
<1> HIDE DEF R
<1>5. th'[t] \in Frames BY <1>1, <1>3, <1>4 DEF Frames, WithBuffer, WithoutBuffer
<1>6. th' \in [Threads -> Frames] BY <1>4, <1>5 DEF Inv, DataOK
<1>7. /\ th'[t].pc \in {"take", "overwait"}
      /\ th'[t].kind = "copy" /\ th'[t].block = th[t].block /\ th'[t].plan = th[t].plan
      /\ th'[t].buf = th[t].buf /\ th'[t].copy = th[t].copy /\ th'[t].call = th[t].call
      /\ th'[t].loc \in {R, th[t].loc} /\ (th'[t].pc = "take" => th'[t].loc = R)
  BY <1>1, <1>4 DEF Frames
<1>8. FrameInv(t)'
  <2>1. RegisteredIn(src.e) BY <1>2 DEF Inv, BlockInv
  <2>2. RegisteredIn(th[t].loc.e)' /\ RegisteredIn(th[t].copy.e)'
    BY <1>1, <1>3, <1>4, <1>7, <2>1 DEF FrameInv, RegisteredIn
  <2>3. Registered(th[t].plan)' /\ th'[t].block \in Blocks /\ th'[t].call <= calls'
    BY <1>1, <1>2, <1>4, <1>7 DEF FrameInv, Registered, bounds
  <2> QED BY <1>1, <1>7, <2>2, <2>3 DEF FrameInv, WithBuffer, WithoutBuffer, Pushed
<1>9. ASSUME NEW c \in Channels, NEW p \in InFlight(c), p.block = th[t].block, CallCovers(t, c, p)
      PROVE  CallCovers(t, c, p)'
  <2>1. BlockCovers(c, p)' <=> BlockCovers(c, p) BY <1>4 DEF BlockCovers
  <2>2. ~Current(t, c, p) BY <1>1 DEF Current, Pushed
  <2>3. BlockCovers(c, p) => Covers(src.e, c, p.v) BY <1>9 DEF BlockCovers
  <2> QED BY <1>1, <1>3, <1>7, <1>9, <2>1, <2>2, <2>3 DEF CallCovers
<1>10. \A c \in Channels : \A p \in InFlight(c) : ~Owns(t, c, p)
  BY <1>1 DEF Owns, Current, Pushed
<1>11. fatal' \in BOOLEAN /\ block' \in [Blocks -> Trackers] BY <1>4 DEF Inv, DataOK
<1>12. \A b \in Blocks : Fits(block[b])' /\ RegisteredIn(block[b].e)'
  BY <1>4 DEF Inv, FitInv, BlockInv, RegisteredIn, Fits, Size
<1> QED BY <1>1, <1>4, <1>6, <1>7, <1>8, <1>9, <1>10, <1>11, <1>12, NeutralStep

LEMMA IdleType ==
    /\ Idle \in Frames /\ Idle.pc = "idle" /\ Idle.kind = "copy" /\ Idle.buf = None
    /\ Idle.block = None /\ Idle.loc = Empty /\ Idle.copy = Empty
<1>1. <<>> \in Seq(Channels) BY EmptySeq
<1> QED BY <1>1, EmptyFacts DEF Idle, Frames, WithBuffer, WithoutBuffer

LEMMA IdleFrame ==
    ASSUME NEW t \in Threads
    PROVE  (th[t] = Idle => FrameInv(t)) /\ (th'[t] = Idle => FrameInv(t)')
<1>1. DOMAIN Empty.e = {} BY EmptyFacts
<1>2. th[t] = Idle => FrameInv(t)
  BY <1>1, IdleType DEF FrameInv, RegisteredIn, WithBuffer, WithoutBuffer, Pushed
<1>3. th'[t] = Idle => FrameInv(t)'
  BY <1>1, IdleType DEF FrameInv, RegisteredIn, WithBuffer, WithoutBuffer, Pushed
<1> QED BY <1>2, <1>3

\* No call in front of its push has a buffer that a push in flight uses.
LEMMA BufferIdle ==
    ASSUME Inv, ~fatal, NEW t \in Threads, th[t].pc \in WithBuffer \ (Pushed \cup {"alloc"}),
           NEW c \in Channels, NEW p \in InFlight(c)
    PROVE  p.buf # th[t].buf
<1> SUFFICES ASSUME p.buf = th[t].buf PROVE FALSE OBVIOUS
<1>1. p.buf \in Buffers /\ p.buf # None BY InFlightFacts, Names DEF Inv
<1>2. /\ ~InFree(p.buf)
      /\ \A u \in Threads : th[u].buf = p.buf => u = t
  BY <1>1 DEF Inv, PlaceInv
<1>3. ~Covers(tracker[p.buf].e, c, p.v) BY <1>1, <1>2 DEF Inv, TrackerInv, Covers
<1>4. \A u \in Threads : ~Owns(u, c, p) BY <1>2 DEF Owns, Current, Pushed
<1> QED BY <1>3, <1>4 DEF Inv, StagedInv

\* A step that gives the buffer of a call back, with tracker r.
LEMMA GiveBackStep ==
    ASSUME Inv, NEW t \in Threads, th[t].pc \in WithBuffer, th'[t].pc \in WithoutBuffer,
           th' \in [Threads -> Frames], \A u \in Threads : u # t => th'[u] = th[u], FrameInv(t)',
           UNCHANGED <<reg, lost, channelVars, calls>>, registers' \in Nat, failures' \in Nat,
           fatal' \in BOOLEAN, fatal => fatal',
           block' \in [Blocks -> Trackers], \A b \in Blocks : b # th[t].block => block'[b] = block[b],
           \A b \in Blocks : b = th[t].block => Fits(block[b])' /\ RegisteredIn(block[b].e)',
           th'[t].block \in {th[t].block, None},
           NEW r \in Trackers, Fits(r), \A c \in DOMAIN r.e : Gpu(c) = th[t].buf[1],
           tracker' = [tracker EXCEPT ![th[t].buf] = r], pool' = PoolAdd(th[t].buf),
           fatal' \/ \A c \in Channels : \A p \in InFlight(c) :
               p.buf = th[t].buf /\ (Covers(tracker[p.buf].e, c, p.v) \/ Owns(t, c, p)) =>
                 Covers(r.e, c, p.v),
           fatal' \/ \A c \in Channels : \A p \in InFlight(c) :
               p.block = th[t].block /\ CallCovers(t, c, p) =>
                 IF th'[t].block = p.block THEN CallCovers(t, c, p)' ELSE BlockCovers(c, p)'
    PROVE  Inv'
<1> USE DEF Inv, channelVars, bounds
<1> DEFINE b == th[t].buf
<1>1. th[t].pc # "idle" /\ b \in Buffers /\ b[1] = Gpu(Channel(t))
  BY DEF FramesInv, FrameInv, WithBuffer, Pushed
<1>2. pool[b[1]].on BY <1>1, CallFacts
<1>3. th'[t].buf = None BY DEF FrameInv
<1>4. PlaceInv' /\ CountInv' /\ pool' \in [Gpus -> Pools]
      /\ \A x \in Buffers : InFree(x)' <=> InFree(x) \/ x = th[t].buf
  BY <1>1, <1>2, <1>3, GiveBack
<1>5. tracker' \in [Buffers -> Trackers] /\ tracker'[b] = r /\ \A x \in Buffers : x # b => tracker'[x] = tracker[x]
  BY <1>1 DEF DataOK
<1>6. DataOK' BY <1>4, <1>5 DEF DataOK
<1>7. FitInv' BY <1>5 DEF FitInv, Fits, Size
<1>8. ChannelInv' BY DEF ChannelInv
<1>9. FramesInv' BY <1>1, FramesStep
<1>10. BlockInv' BY BlockStep
<1>11. TrackerInv'
  <2> SUFFICES ASSUME NEW x \in Buffers, NEW c \in DOMAIN tracker'[x].e
               PROVE  /\ Gpu(c) = x[1]
                      /\ InFree(x)' \/ \E u \in Threads : th'[u].pc = "alloc" /\ th'[u].buf = x
    BY DEF TrackerInv
  <2>1. CASE x = b BY <1>4, <1>5, <2>1
  <2>2. CASE x # b
    <3>1. /\ Gpu(c) = x[1]
          /\ InFree(x) \/ \E u \in Threads : th[u].pc = "alloc" /\ th[u].buf = x
      BY <1>5, <2>2 DEF TrackerInv
    <3>2. \A u \in Threads : th[u].buf = x => u # t BY <2>2
    <3> QED BY <1>4, <3>1, <3>2
  <2> QED BY <2>1, <2>2
<1>12. StagedInv'
  <2>1. \A c \in Channels : \A p \in InFlight(c) : p.buf \in Buffers BY InFlightFacts
  <2> QED BY <1>5, <2>1, StagedStep
<1>13. CoverInv' BY CoverStep
<1>14. CopiesOrdered' BY DEF CopiesOrdered, InFlight
<1> QED BY <1>4, <1>6, <1>7, <1>8, <1>9, <1>10, <1>11, <1>12, <1>13, <1>14

\* A step after which nobody uses the buffer of a call, or the VA space has it.
LEMMA PutAwayStep ==
    ASSUME Inv, NEW t \in Threads, th[t].pc \in WithBuffer \ (Pushed \cup {"alloc"}),
           th'[t].pc \in WithoutBuffer,
           th' \in [Threads -> Frames], \A u \in Threads : u # t => th'[u] = th[u],
           FramesInv', BlockInv',
           \/ lost' = lost \cup {th[t].buf} /\ UNCHANGED reg
           \/ /\ reg[th[t].buf[1]] = None /\ reg' = [reg EXCEPT ![th[t].buf[1]] = th[t].buf]
              /\ UNCHANGED lost,
           UNCHANGED <<pool, tracker, block, channelVars, calls>>, registers' \in Nat, failures' \in Nat,
           fatal' \in BOOLEAN, fatal => fatal', th'[t].block \in {th[t].block, None},
           fatal' \/ \A c \in Channels : \A p \in InFlight(c) :
               p.block = th[t].block /\ CallCovers(t, c, p) =>
                 IF th'[t].block = p.block THEN CallCovers(t, c, p)' ELSE BlockCovers(c, p)'
    PROVE  Inv'
<1> USE DEF Inv, channelVars, bounds
<1> DEFINE b == th[t].buf
<1>1. th[t].pc # "idle" /\ b \in Buffers /\ b[1] = Gpu(Channel(t))
  BY DEF FramesInv, FrameInv, WithBuffer, Pushed
<1>2. pool[b[1]].on BY <1>1, CallFacts
<1>3. th'[t].buf = None BY DEF FramesInv, FrameInv
<1>4. PlaceInv' /\ CountInv' /\ \A x : InFree(x)' <=> InFree(x)
  <2>1. \A u \in Threads : u # t => th'[u].buf = th[u].buf OBVIOUS
  <2> QED BY <1>1, <1>2, <1>3, <2>1, PutAway
<1>5. reg' \in [Gpus -> Buffers \cup {None}] /\ lost' \in SUBSET Buffers BY <1>1 DEF DataOK
<1>6. DataOK' BY <1>5 DEF DataOK
<1>7. FitInv' BY DEF FitInv, Fits, Size
<1>8. ChannelInv' BY DEF ChannelInv
<1>9. TrackerInv'
  <2>1. ASSUME NEW u \in Threads, th[u].pc = "alloc" PROVE th'[u] = th[u] BY <2>1
  <2> QED BY <1>4, <2>1 DEF TrackerInv
<1>10. StagedInv'
  <2>1. \A c \in Channels : \A p \in InFlight(c) : ~Owns(t, c, p) BY DEF Owns, Current
  <2> QED BY <2>1, StagedStep
<1>11. CoverInv' BY CoverStep
<1>12. CopiesOrdered' BY DEF CopiesOrdered, InFlight
<1> QED BY <1>4, <1>6, <1>7, <1>8, <1>9, <1>10, <1>11, <1>12

-----------------------------------------------------------------------------
(* The steps of a call.                                                    *)

\* A copy that goes on.
LEMMA CopyFrame ==
    ASSUME NEW t \in Threads, FrameInv(t), th[t].kind = "copy", th[t].pc # "idle",
           th'[t].kind = "copy", th'[t].pc \notin {"idle", "peers"},
           th'[t].block = th[t].block, th'[t].call = th[t].call,
           th'[t].plan # <<>>, Registered(th[t].plan)',
           RegisteredIn(th[t].loc.e)', RegisteredIn(th[t].copy.e)', UNCHANGED <<reg, calls>>,
           th'[t].pc \in WithBuffer => th'[t].buf \in Buffers /\ th'[t].buf[1] = Gpu(Channel(t))',
           th'[t].pc \in WithoutBuffer => th'[t].buf = None
    PROVE  FrameInv(t)'
BY DEF FrameInv

\* The plan of a call that stays at its leg, and of one that goes on to the next.
LEMMA PlanFacts ==
    ASSUME Inv, NEW t \in Threads, th[t].pc # "idle", th[t].kind # "reg", UNCHANGED reg
    PROVE  /\ th[t].plan # <<>> /\ (th'[t].plan = th[t].plan => Registered(th[t].plan)')
           /\ Len(th[t].plan) > 1 =>
                /\ Tail(th[t].plan) \in Seq(Channels) /\ Tail(th[t].plan) # <<>>
                /\ th'[t].plan = Tail(th[t].plan) => Registered(th[t].plan)'
<1>1. th[t].plan \in Seq(Channels) /\ th[t].plan # <<>> BY CallFacts
<1>2. Registered(th[t].plan) BY DEF Inv, FramesInv, FrameInv
<1>3. th'[t].plan = th[t].plan => Registered(th[t].plan)' BY <1>2 DEF Registered
<1>4. ASSUME Len(th[t].plan) > 1
      PROVE  /\ Tail(th[t].plan) \in Seq(Channels) /\ Tail(th[t].plan) # <<>>
             /\ th'[t].plan = Tail(th[t].plan) => Registered(th[t].plan)'
  <2> DEFINE s == th[t].plan
  <2>1. /\ Tail(s) \in Seq(Channels) /\ Len(Tail(s)) = Len(s) - 1
        /\ \A i \in 1 .. Len(Tail(s)) : Tail(s)[i] = s[i + 1]
    BY <1>1, HeadTailProperties
  <2>2. Len(s) \in Nat /\ DOMAIN s = 1 .. Len(s) /\ DOMAIN Tail(s) = 1 .. Len(Tail(s))
    BY <1>1, <2>1, LenProperties
  <2>3. Len(s) > 1 BY <1>4
  <2> HIDE DEF s
  <2> DEFINE n == Len(Tail(s))
  <2>4. n = Len(s) - 1 BY <2>1
  <2> HIDE DEF n
  <2>5. n # 0 BY <2>2, <2>3, <2>4
  <2>6. Tail(s) # <<>> BY <2>1, <2>5, EmptySeq DEF n
  <2>7. \A i \in DOMAIN Tail(s) : reg[Gpu(Tail(s)[i])] # None
    BY <1>2, <1>4, <2>1, <2>2 DEF Registered, s
  <2> QED BY <2>1, <2>6, <2>7 DEF Registered, s
<1> QED BY <1>1, <1>3, <1>4

\* What the step of a call leaves alone.
LEMMA OnlyOne ==
    ASSUME DataOK, NEW t \in Threads, NEW f, th' = [th EXCEPT ![t] = f]
    PROVE  /\ th'[t] = f /\ \A u \in Threads : u # t => th'[u] = th[u]
           /\ f \in Frames => th' \in [Threads -> Frames]
BY DEF DataOK

LEMMA OverwriteWaitInv ==
    ASSUME Inv, NEW t \in Threads, OverwriteWait(t)
    PROVE  Inv'
<1> DEFINE src == block[th[t].block]
           f == [th[t] EXCEPT !.pc = IF Broken(src) THEN "next" ELSE "take", !.ok = ~Broken(src)]
<1>1. th[t].pc = "overwait" /\ th[t] \in Frames /\ th[t].kind = "copy" /\ FrameInv(t) /\ DataOK
  BY CallFacts DEF OverwriteWait, Inv, FramesInv, FrameInv, Frames
<1>2. th[t].block \in Blocks /\ src \in Trackers /\ Fits(src) BY <1>1, CallFacts
<1>3. /\ th' = [th EXCEPT ![t] = f] /\ Settled(src) /\ fatal' = (fatal \/ Broken(src))
      /\ block' = [block EXCEPT ![th[t].block] = uvm_tracker_clear(src)]
      /\ UNCHANGED <<pool, tracker, reg, lost, channelVars, bounds>>
  BY <1>1 DEF OverwriteWait, DataOK
<1>4. f \in Frames BY <1>1 DEF Frames, WithBuffer, WithoutBuffer
<1>5. /\ f.pc \in {"take", "next"} /\ f.kind = "copy" /\ f.block = th[t].block
      /\ f.plan = th[t].plan /\ f.buf = th[t].buf /\ f.loc = th[t].loc
      /\ f.copy = th[t].copy /\ f.call = th[t].call
  BY <1>1 DEF Frames
<1> HIDE DEF f
<1>6. th'[t] = f /\ th' \in [Threads -> Frames] /\ \A u \in Threads : u # t => th'[u] = th[u]
  BY <1>1, <1>3, <1>4, OnlyOne
<1>7. FrameInv(t)'
  <2>1. RegisteredIn(th[t].loc.e)' /\ RegisteredIn(th[t].copy.e)'
    BY <1>1, <1>3, <1>5, <1>6 DEF FrameInv, RegisteredIn
  <2>2. th'[t].plan # <<>> /\ Registered(th[t].plan)' BY <1>1, <1>3, <1>5, <1>6, PlanFacts
  <2>3. th[t].buf = None BY <1>1 DEF FrameInv, WithoutBuffer
  <2> QED BY <1>1, <1>3, <1>5, <1>6, <2>1, <2>2, <2>3, CopyFrame DEF bounds, WithBuffer, Pushed
<1>8. /\ block' \in [Blocks -> Trackers] /\ \A b \in Blocks : b # th[t].block => block'[b] = block[b]
      /\ \A b \in Blocks : b = th[t].block => Fits(block[b])' /\ RegisteredIn(block[b].e)'
  <2>1. uvm_tracker_clear(src) \in Trackers /\ uvm_tracker_clear(src).e = NoEntries
        /\ Fits(uvm_tracker_clear(src))
    BY <1>2, ClearFacts
  <2>2. /\ block'[th[t].block] = uvm_tracker_clear(src) /\ block' \in [Blocks -> Trackers]
        /\ \A b \in Blocks : b # th[t].block => block'[b] = block[b]
    BY <1>1, <1>2, <1>3, <2>1 DEF DataOK
  <2> HIDE DEF src
  <2> QED BY <1>2, <2>1, <2>2, EmptyFacts DEF Fits, Size, RegisteredIn
<1>9. ASSUME ~fatal', NEW c \in Channels, NEW p \in InFlight(c), p.block = th[t].block, CallCovers(t, c, p)
       PROVE  CallCovers(t, c, p)'
  <2>1. Done(src) BY <1>3, <1>9 DEF Settled
  <2>2. ~BlockCovers(c, p) BY <1>2, <1>9, <2>1, NotInFlight DEF Inv, BlockCovers
  <2>3. ~Current(t, c, p) BY <1>1 DEF Current, Pushed
  <2> QED BY <1>5, <1>6, <1>9, <2>2, <2>3 DEF CallCovers
<1>10. \A c \in Channels : \A p \in InFlight(c) : ~Owns(t, c, p)
  BY <1>1 DEF Owns, Current, Pushed
<1>11. fatal' \in BOOLEAN /\ (fatal => fatal') BY <1>1, <1>3 DEF DataOK
<1> QED BY <1>1, <1>3, <1>5, <1>6, <1>7, <1>8, <1>9, <1>10, <1>11, NeutralStep

LEMMA FinishInv ==
    ASSUME Inv, NEW t \in Threads, Finish(t)
    PROVE  Inv'
<1> DEFINE f == [th[t] EXCEPT !.ok = Done(PushOf(t)), !.pc = "add"]
<1>1. th[t].pc = "finish" /\ th[t] \in Frames /\ th[t].kind = "copy" /\ FrameInv(t) /\ DataOK
  BY CallFacts DEF Finish, Inv, FramesInv, FrameInv, Frames
<1>2. /\ th' = [th EXCEPT ![t] = f] /\ Settled(PushOf(t)) /\ fatal' = (fatal \/ Broken(PushOf(t)))
      /\ UNCHANGED <<pool, tracker, block, reg, lost, channelVars, bounds>>
  BY <1>1 DEF Finish, DataOK
<1>3. f \in Frames BY <1>1 DEF Frames, WithBuffer, WithoutBuffer, Pushed, Done
<1>4. /\ f.pc = "add" /\ f.kind = "copy" /\ f.block = th[t].block
      /\ f.plan = th[t].plan /\ f.buf = th[t].buf /\ f.loc = th[t].loc
      /\ f.copy = th[t].copy /\ f.call = th[t].call /\ f.v = th[t].v
  BY <1>1 DEF Frames
<1> HIDE DEF f
<1>5. th'[t] = f /\ th' \in [Threads -> Frames] /\ \A u \in Threads : u # t => th'[u] = th[u]
  BY <1>1, <1>2, <1>3, OnlyOne
<1>6. Channel(t)' = Channel(t) BY <1>4, <1>5 DEF Channel
<1>7. FrameInv(t)'
  <2>1. RegisteredIn(th[t].loc.e)' /\ RegisteredIn(th[t].copy.e)'
    BY <1>1, <1>2, <1>4, <1>5 DEF FrameInv, RegisteredIn
  <2>2. th'[t].plan # <<>> /\ Registered(th[t].plan)' BY <1>1, <1>2, <1>4, <1>5, PlanFacts
  <2>3. th[t].buf \in Buffers /\ th[t].buf[1] = Gpu(Channel(t)) BY <1>1 DEF FrameInv, WithBuffer, Pushed
  <2> QED BY <1>1, <1>2, <1>4, <1>5, <1>6, <2>1, <2>2, <2>3, CopyFrame DEF bounds, WithoutBuffer
<1>8. \A b \in Blocks : Fits(block[b])' /\ RegisteredIn(block[b].e)'
  BY <1>2 DEF Inv, FitInv, BlockInv, RegisteredIn, Fits, Size
<1>9. ASSUME ~fatal', NEW c \in Channels, NEW p \in InFlight(c) PROVE ~Current(t, c, p)
  <2>1. Done(PushOf(t)) BY <1>2, <1>9 DEF Settled
  <2>2. Channel(t) \in Channels /\ th[t].v \in Nat BY <1>1, CallFacts, FrameTypes
  <2>3. PushOf(t) \in Trackers /\ DOMAIN PushOf(t).e = {Channel(t)} /\ PushOf(t).e[Channel(t)] = th[t].v
    BY <2>2, PushTrackerFacts DEF PushOf
  <2>4. ~Covers(PushOf(t).e, c, p.v) BY <2>1, <2>3, NotInFlight DEF Inv
  <2> QED BY <2>2, <2>3, <2>4 DEF Covers, Current
<1>10. ASSUME ~fatal', NEW c \in Channels, NEW p \in InFlight(c), p.block = th[t].block, CallCovers(t, c, p)
       PROVE  CallCovers(t, c, p)'
  <2>1. BlockCovers(c, p)' <=> BlockCovers(c, p) BY <1>2 DEF BlockCovers
  <2> QED BY <1>4, <1>5, <1>9, <1>10, <2>1 DEF CallCovers
<1>11. fatal' \in BOOLEAN /\ (fatal => fatal') /\ block' \in [Blocks -> Trackers] BY <1>1, <1>2 DEF DataOK
<1>12. fatal' \/ \A c \in Channels : \A p \in InFlight(c) : ~Owns(t, c, p) BY <1>9 DEF Owns
<1> QED BY <1>1, <1>2, <1>4, <1>5, <1>7, <1>8, <1>10, <1>11, <1>12, NeutralStep

\* The frame of a copy after its tracker is in the tracker of the block.
LEMMA AfterAddFacts ==
    ASSUME Inv, NEW t \in Threads, th[t].pc \in {"next", "nextwait"}, NEW ok \in BOOLEAN,
           th' = AfterAdd(t, ok), UNCHANGED <<reg, calls>>
    PROVE  /\ th' \in [Threads -> Frames] /\ \A u \in Threads : u # t => th'[u] = th[u]
           /\ FrameInv(t)' /\ th'[t].buf = th[t].buf /\ th'[t].pc \in {"idle", "begin"}
           /\ \/ th'[t].block = th[t].block /\ th'[t].call = th[t].call /\ th'[t].kind = "copy"
              \/ th'[t].block = None
<1>1. th[t] \in Frames /\ th[t].kind = "copy" /\ FrameInv(t) /\ DataOK /\ th[t].pc # "idle"
  BY CallFacts DEF Inv, FramesInv, FrameInv, Frames
<1>2. th[t].buf = None BY <1>1 DEF FrameInv, WithoutBuffer
<1>3. CASE th' = [th EXCEPT ![t] = Idle]
  <2>1. th'[t] = Idle /\ th' \in [Threads -> Frames] /\ \A u \in Threads : u # t => th'[u] = th[u]
    BY <1>1, <1>3, IdleType, OnlyOne
  <2> QED BY <1>2, <2>1, IdleType, IdleFrame
<1>4. CASE /\ Len(th[t].plan) > 1
           /\ th' = [th EXCEPT ![t] = [th[t] EXCEPT !.pc = "begin", !.plan = Tail(@), !.copy = uvm_tracker_clear(@)]]
  <2> DEFINE f == [th[t] EXCEPT !.pc = "begin", !.plan = Tail(@), !.copy = uvm_tracker_clear(@)]
  <2>1. Tail(th[t].plan) \in Seq(Channels) /\ Tail(th[t].plan) # <<>> BY <1>1, <1>4, PlanFacts
  <2>2. uvm_tracker_clear(th[t].copy) \in Trackers /\ uvm_tracker_clear(th[t].copy).e = NoEntries
    BY <1>1, FrameTypes, ClearFacts
  <2>3. f \in Frames BY <1>1, <2>1, <2>2 DEF Frames, WithBuffer, WithoutBuffer
  <2>4. /\ f.pc = "begin" /\ f.kind = "copy" /\ f.block = th[t].block /\ f.buf = th[t].buf
        /\ f.plan = Tail(th[t].plan) /\ f.loc = th[t].loc /\ f.call = th[t].call
        /\ f.copy = uvm_tracker_clear(th[t].copy)
    BY <1>1 DEF Frames
  <2> HIDE DEF f
  <2>5. th'[t] = f /\ th' \in [Threads -> Frames] /\ \A u \in Threads : u # t => th'[u] = th[u]
    BY <1>1, <1>4, <2>3, OnlyOne DEF f
  <2>6. RegisteredIn(th[t].loc.e)' BY <1>1, <2>4, <2>5 DEF FrameInv, RegisteredIn
  <2>7. RegisteredIn(th[t].copy.e)' BY <2>2, <2>4, <2>5, EmptyFacts DEF RegisteredIn
  <2>8. Registered(th[t].plan)' BY <1>1, <1>4, <2>4, <2>5, PlanFacts
  <2>9. FrameInv(t)'
    BY <1>1, <1>2, <2>1, <2>4, <2>5, <2>6, <2>7, <2>8, CopyFrame DEF WithBuffer, Pushed
  <2> QED BY <1>2, <2>4, <2>5, <2>9
<1> QED BY <1>1, <1>3, <1>4 DEF AfterAdd, DataOK

LEMMA AddToBlockInv ==
    ASSUME Inv, NEW t \in Threads, AddToBlock(t)
    PROVE  Inv'
<1> DEFINE dst == block[th[t].block]
           src == th[t].copy
<1>1. /\ th[t].pc = "next" /\ th[t] \in Frames /\ th[t].kind = "copy" /\ FrameInv(t) /\ DataOK
      /\ th[t].ok \in BOOLEAN /\ src \in Trackers /\ completed \in [Channels -> Nat]
  BY CallFacts, FrameTypes DEF AddToBlock, Inv, FramesInv, FrameInv, Frames, DataOK
<1>2. th[t].block \in Blocks /\ dst \in Trackers /\ Fits(dst) BY <1>1, CallFacts
<1>3. UNCHANGED <<pool, tracker, reg, lost, channelVars, fatal, bounds>> BY DEF AddToBlock
<1>4. \A c \in Channels : \A p \in InFlight(c) : ~Current(t, c, p) /\ ~Owns(t, c, p)
  BY <1>1 DEF Owns, Current, Pushed
<1>5. RegisteredIn(dst.e) /\ RegisteredIn(src.e) BY <1>1, <1>2 DEF Inv, BlockInv, FrameInv
<1>6. fatal' \in BOOLEAN /\ (fatal => fatal') /\ UNCHANGED <<reg, calls>> BY <1>1, <1>3 DEF DataOK, bounds
<1>7. ASSUME NEW r \in Trackers, DOMAIN r.e \subseteq DOMAIN dst.e \cup DOMAIN src.e, Fits(r),
             block' = [block EXCEPT ![th[t].block] = r]
      PROVE  /\ block' \in [Blocks -> Trackers] /\ \A b \in Blocks : b # th[t].block => block'[b] = block[b]
             /\ \A b \in Blocks : b = th[t].block => Fits(block[b])' /\ RegisteredIn(block[b].e)'
             /\ block'[th[t].block] = r
  <2>1. /\ block' \in [Blocks -> Trackers] /\ block'[th[t].block] = r
        /\ \A b \in Blocks : b # th[t].block => block'[b] = block[b]
    BY <1>1, <1>2, <1>7 DEF DataOK
  <2>2. Fits(r)' BY <1>7 DEF Fits, Size
  <2>3. RegisteredIn(r.e)' BY <1>5, <1>6, <1>7 DEF RegisteredIn
  <2> QED BY <2>1, <2>2, <2>3 DEF Fits, Size, RegisteredIn
<1>8. \A c \in Channels : \A p \in InFlight(c) : p.v \in Nat /\ completed[c] < p.v
  BY InFlightFacts DEF Inv
<1>9. CASE /\ \E r \in AddTracker(dst, src) : block' = [block EXCEPT ![th[t].block] = r]
           /\ th' = AfterAdd(t, th[t].ok)
  <2>1. PICK r \in AddTracker(dst, src) : block' = [block EXCEPT ![th[t].block] = r] BY <1>9
  <2>2. /\ r \in Trackers /\ Fits(r) /\ DOMAIN r.e \subseteq DOMAIN dst.e \cup DOMAIN src.e
        /\ \A c, v : c \in Channels /\ v \in Nat /\ completed[c] < v
                       /\ (Covers(dst.e, c, v) \/ Covers(src.e, c, v)) => Covers(r.e, c, v)
    BY <1>1, <1>2, AddTrackerFacts
  <2>3. /\ block' \in [Blocks -> Trackers] /\ \A b \in Blocks : b # th[t].block => block'[b] = block[b]
        /\ \A b \in Blocks : b = th[t].block => Fits(block[b])' /\ RegisteredIn(block[b].e)'
        /\ block'[th[t].block] = r
    BY <1>7, <2>1, <2>2
  <2>4. /\ th' \in [Threads -> Frames] /\ \A u \in Threads : u # t => th'[u] = th[u]
        /\ FrameInv(t)' /\ th'[t].buf = th[t].buf /\ th'[t].pc \in {"idle", "begin"}
        /\ \/ th'[t].block = th[t].block /\ th'[t].call = th[t].call /\ th'[t].kind = "copy"
           \/ th'[t].block = None
    BY <1>1, <1>6, <1>9, AfterAddFacts
  <2>5. ASSUME NEW c \in Channels, NEW p \in InFlight(c), p.block = th[t].block, CallCovers(t, c, p)
        PROVE  IF th'[t].block = p.block THEN CallCovers(t, c, p)' ELSE BlockCovers(c, p)'
    <3>1. Covers(dst.e, c, p.v) \/ Covers(src.e, c, p.v) BY <1>4, <2>5 DEF CallCovers, BlockCovers
    <3>2. Covers(r.e, c, p.v) BY <1>8, <2>2, <3>1
    <3>3. BlockCovers(c, p)' BY <2>3, <2>5, <3>2 DEF BlockCovers
    <3> QED BY <2>4, <3>3 DEF CallCovers
  <2> QED BY <1>1, <1>3, <1>4, <1>6, <2>3, <2>4, <2>5, NeutralStep
<1>10. CASE /\ block' = [block EXCEPT ![th[t].block] = uvm_tracker_remove_completed(@)]
            /\ th' = [th EXCEPT ![t].pc = "nextwait"]
  <2> DEFINE r == uvm_tracker_remove_completed(dst)
             f == [th[t] EXCEPT !.pc = "nextwait"]
  <2>1. th' = [th EXCEPT ![t] = f] /\ block' = [block EXCEPT ![th[t].block] = r]
    BY <1>1, <1>2, <1>10 DEF DataOK
  <2>2. /\ r \in Trackers /\ Fits(r) /\ DOMAIN r.e \subseteq DOMAIN dst.e
        /\ \A c, v : c \in Channels /\ v \in Nat /\ completed[c] < v /\ Covers(dst.e, c, v)
                       => Covers(r.e, c, v)
    BY <1>1, <1>2, RemoveFacts
  <2> HIDE DEF r
  <2>3. /\ block' \in [Blocks -> Trackers] /\ \A b \in Blocks : b # th[t].block => block'[b] = block[b]
        /\ \A b \in Blocks : b = th[t].block => Fits(block[b])' /\ RegisteredIn(block[b].e)'
        /\ block'[th[t].block] = r
    BY <1>7, <2>1, <2>2
  <2>4. /\ f \in Frames /\ f.pc = "nextwait" /\ f.kind = "copy" /\ f.block = th[t].block
        /\ f.plan = th[t].plan /\ f.buf = th[t].buf /\ f.loc = th[t].loc
        /\ f.copy = th[t].copy /\ f.call = th[t].call
    BY <1>1 DEF Frames, WithoutBuffer
  <2> HIDE DEF f
  <2>5. th'[t] = f /\ th' \in [Threads -> Frames] /\ \A u \in Threads : u # t => th'[u] = th[u]
    BY <1>1, <2>1, <2>4, OnlyOne
  <2>6. RegisteredIn(th[t].loc.e)' /\ RegisteredIn(th[t].copy.e)'
    BY <1>1, <1>6, <2>4, <2>5 DEF FrameInv, RegisteredIn
  <2>7. th'[t].plan # <<>> /\ Registered(th[t].plan)' BY <1>1, <1>6, <2>4, <2>5, PlanFacts
  <2>8. th[t].buf = None BY <1>1 DEF FrameInv, WithoutBuffer
  <2>9. FrameInv(t)' BY <1>1, <1>6, <2>4, <2>5, <2>6, <2>7, <2>8, CopyFrame DEF WithBuffer, Pushed
  <2>10. ASSUME NEW c \in Channels, NEW p \in InFlight(c), p.block = th[t].block, CallCovers(t, c, p)
         PROVE  CallCovers(t, c, p)'
    <3>1. BlockCovers(c, p) => BlockCovers(c, p)'
      BY <1>8, <2>2, <2>3, <2>10 DEF BlockCovers
    <3> QED BY <1>4, <2>4, <2>5, <2>10, <3>1 DEF CallCovers
  <2> QED BY <1>1, <1>3, <1>4, <1>6, <2>3, <2>4, <2>5, <2>9, <2>10, NeutralStep
<1> QED BY <1>9, <1>10 DEF AddToBlock

LEMMA AddToBlockWaitInv ==
    ASSUME Inv, NEW t \in Threads, AddToBlockWait(t)
    PROVE  Inv'
<1>1. /\ th[t].pc = "nextwait" /\ th[t].kind = "copy" /\ DataOK /\ th[t].copy \in Trackers
      /\ th[t].ok \in BOOLEAN
  BY CallFacts, FrameTypes DEF AddToBlockWait, Inv, FramesInv, FrameInv
<1>2. /\ Settled(th[t].copy) /\ fatal' = (fatal \/ Broken(th[t].copy))
      /\ th' = AfterAdd(t, th[t].ok /\ Done(th[t].copy))
      /\ UNCHANGED <<pool, tracker, block, reg, lost, channelVars, bounds>>
  BY DEF AddToBlockWait
<1>3. /\ fatal' \in BOOLEAN /\ (fatal => fatal') /\ UNCHANGED <<reg, calls>>
      /\ block' \in [Blocks -> Trackers]
  BY <1>1, <1>2 DEF DataOK, bounds
<1>4. (th[t].ok /\ Done(th[t].copy)) \in BOOLEAN OBVIOUS
<1>5. /\ th' \in [Threads -> Frames] /\ \A u \in Threads : u # t => th'[u] = th[u]
      /\ FrameInv(t)' /\ th'[t].buf = th[t].buf /\ th'[t].pc \in {"idle", "begin"}
      /\ \/ th'[t].block = th[t].block /\ th'[t].call = th[t].call /\ th'[t].kind = "copy"
         \/ th'[t].block = None
  BY <1>1, <1>2, <1>3, <1>4, AfterAddFacts
<1>6. \A c \in Channels : \A p \in InFlight(c) : ~Current(t, c, p) /\ ~Owns(t, c, p)
  BY <1>1 DEF Owns, Current, Pushed
<1>7. \A b \in Blocks : Fits(block[b])' /\ RegisteredIn(block[b].e)'
  BY <1>2 DEF Inv, FitInv, BlockInv, RegisteredIn, Fits, Size
<1>8. ASSUME ~fatal', NEW c \in Channels, NEW p \in InFlight(c), p.block = th[t].block, CallCovers(t, c, p)
      PROVE  IF th'[t].block = p.block THEN CallCovers(t, c, p)' ELSE BlockCovers(c, p)'
  <2>1. Done(th[t].copy) BY <1>2, <1>8 DEF Settled
  <2>2. ~Covers(th[t].copy.e, c, p.v) BY <1>1, <2>1, NotInFlight DEF Inv
  <2>3. BlockCovers(c, p) BY <1>6, <1>8, <2>2 DEF CallCovers
  <2>4. BlockCovers(c, p)' BY <1>2, <2>3 DEF BlockCovers
  <2> QED BY <1>5, <2>4 DEF CallCovers
<1> QED BY <1>1, <1>2, <1>3, <1>5, <1>6, <1>7, <1>8, NeutralStep

\* A copy that loses its buffer.
LEMMA LoseFacts ==
    ASSUME Inv, NEW t \in Threads, th[t].pc \in {"local", "push"}, th[t].kind = "copy", LoseBuffer(t),
           UNCHANGED <<pool, tracker, block, reg, channelVars, calls>>, registers' \in Nat, failures' \in Nat,
           fatal' \in BOOLEAN, fatal => fatal'
    PROVE  Inv'
<1> DEFINE f == [th[t] EXCEPT !.pc = "next", !.ok = FALSE, !.buf = None, !.loc = Empty]
<1>1. th[t] \in Frames /\ FrameInv(t) /\ DataOK /\ th[t].pc # "idle"
  BY CallFacts DEF Inv, FramesInv
<1>2. lost' = lost \cup {th[t].buf} /\ th' = [th EXCEPT ![t] = f]
  BY <1>1 DEF LoseBuffer, DataOK
<1>3. /\ f \in Frames /\ f.pc = "next" /\ f.kind = "copy" /\ f.block = th[t].block
      /\ f.plan = th[t].plan /\ f.buf = None /\ f.loc = Empty
      /\ f.copy = th[t].copy /\ f.call = th[t].call
  BY <1>1, EmptyFacts DEF Frames, WithoutBuffer
<1> HIDE DEF f
<1>4. th'[t] = f /\ th' \in [Threads -> Frames] /\ \A u \in Threads : u # t => th'[u] = th[u]
  BY <1>1, <1>2, <1>3, OnlyOne
<1>5. RegisteredIn(th[t].loc.e)' /\ RegisteredIn(th[t].copy.e)'
  BY <1>1, <1>3, <1>4, EmptyFacts DEF FrameInv, RegisteredIn
<1>6. th'[t].plan # <<>> /\ Registered(th[t].plan)' BY <1>1, <1>3, <1>4, PlanFacts
<1>7. FrameInv(t)' BY <1>1, <1>3, <1>4, <1>5, <1>6, CopyFrame DEF WithBuffer, Pushed
<1>8. FramesInv' BY <1>1, <1>4, <1>7, FramesStep DEF Inv
<1>9. BlockInv'
  <2>1. \A b \in Blocks : RegisteredIn(block[b].e)' BY DEF Inv, BlockInv, RegisteredIn
  <2> QED BY <1>3, <1>4, <2>1, BlockStep DEF Inv
<1>10. ASSUME NEW c \in Channels, NEW p \in InFlight(c), p.block = th[t].block, CallCovers(t, c, p)
       PROVE  CallCovers(t, c, p)'
  <2>1. BlockCovers(c, p)' <=> BlockCovers(c, p) BY DEF BlockCovers
  <2>2. ~Current(t, c, p) BY DEF Current, Pushed
  <2> QED BY <1>3, <1>4, <1>10, <2>1, <2>2 DEF CallCovers
<1> QED BY <1>2, <1>3, <1>4, <1>8, <1>9, <1>10, PutAwayStep DEF WithBuffer, WithoutBuffer, Pushed

LEMMA LocalWaitInv ==
    ASSUME Inv, NEW t \in Threads, LocalWait(t)
    PROVE  Inv'
<1>1. /\ th[t].pc = "local" /\ th[t] \in Frames /\ th[t].kind = "copy" /\ FrameInv(t) /\ DataOK
      /\ th[t].loc \in Trackers
  BY CallFacts, FrameTypes DEF LocalWait, Inv, FramesInv, FrameInv, Frames
<1>2. UNCHANGED <<pool, tracker, block, reg, channelVars, bounds>> BY DEF LocalWait
<1>3. /\ UNCHANGED <<pool, tracker, block, reg, channelVars, calls>>
      /\ registers' \in Nat /\ failures' \in Nat
  BY <1>1, <1>2 DEF bounds, DataOK
<1>4. CASE fatal' = TRUE /\ LoseBuffer(t)
  BY <1>1, <1>3, <1>4, LoseFacts
<1>5. CASE /\ Done(th[t].loc)
           /\ th' = [th EXCEPT ![t].pc = "push", ![t].loc = uvm_tracker_clear(@)]
           /\ UNCHANGED <<lost, fatal>>
  <2> DEFINE f == [th[t] EXCEPT !.pc = "push", !.loc = uvm_tracker_clear(@)]
  <2>1. th' = [th EXCEPT ![t] = f] BY <1>1, <1>5 DEF DataOK
  <2>2. uvm_tracker_clear(th[t].loc) \in Trackers /\ uvm_tracker_clear(th[t].loc).e = NoEntries
    BY <1>1, ClearFacts
  <2>3. /\ f \in Frames /\ f.pc = "push" /\ f.kind = "copy" /\ f.block = th[t].block
        /\ f.plan = th[t].plan /\ f.buf = th[t].buf /\ f.loc.e = NoEntries
        /\ f.copy = th[t].copy /\ f.call = th[t].call
    BY <1>1, <2>2 DEF Frames, WithBuffer
  <2> HIDE DEF f
  <2>4. th'[t] = f /\ th' \in [Threads -> Frames] /\ \A u \in Threads : u # t => th'[u] = th[u]
    BY <1>1, <2>1, <2>3, OnlyOne
  <2>5. RegisteredIn(th[t].loc.e)' /\ RegisteredIn(th[t].copy.e)'
    BY <1>1, <1>3, <2>3, <2>4, EmptyFacts DEF FrameInv, RegisteredIn
  <2>6. th'[t].plan # <<>> /\ Registered(th[t].plan)' BY <1>1, <1>3, <2>3, <2>4, PlanFacts
  <2>7. th[t].buf \in Buffers /\ th[t].buf[1] = Gpu(Channel(t)) BY <1>1 DEF FrameInv, WithBuffer
  <2>8. Channel(t)' = Channel(t) BY <2>3, <2>4 DEF Channel
  <2>9. FrameInv(t)'
    BY <1>1, <1>3, <2>3, <2>4, <2>5, <2>6, <2>7, <2>8, CopyFrame DEF WithoutBuffer
  <2>10. \A b \in Blocks : Fits(block[b])' /\ RegisteredIn(block[b].e)'
    BY <1>2 DEF Inv, FitInv, BlockInv, RegisteredIn, Fits, Size
  <2>11. ASSUME NEW c \in Channels, NEW p \in InFlight(c), p.block = th[t].block, CallCovers(t, c, p)
         PROVE  CallCovers(t, c, p)'
    <3>1. BlockCovers(c, p)' <=> BlockCovers(c, p) BY <1>2 DEF BlockCovers
    <3>2. ~Current(t, c, p) BY <1>1 DEF Current, Pushed
    <3>3. ~Covers(th[t].loc.e, c, p.v) BY <1>1, <1>5, NotInFlight DEF Inv
    <3> QED BY <1>1, <2>3, <2>4, <2>11, <3>1, <3>2, <3>3 DEF CallCovers
  <2>12. \A c \in Channels : \A p \in InFlight(c) : ~Owns(t, c, p)
    BY <1>1 DEF Owns, Current, Pushed
  <2>13. fatal' \in BOOLEAN /\ block' \in [Blocks -> Trackers] BY <1>1, <1>2, <1>5 DEF DataOK
  <2> QED BY <1>1, <1>2, <1>5, <2>3, <2>4, <2>9, <2>10, <2>11, <2>12, <2>13, NeutralStep
<1> QED BY <1>4, <1>5 DEF LocalWait

\* The buffer goes back to the pool with the push src of the call, if it made one.
LEMMA FreeStep ==
    ASSUME Inv, NEW t \in Threads, th[t].pc \in WithBuffer \ {"alloc"}, th'[t].pc \in WithoutBuffer,
           th' \in [Threads -> Frames], \A u \in Threads : u # t => th'[u] = th[u], FrameInv(t)',
           UNCHANGED <<reg, lost, channelVars, calls>>, registers' \in Nat, failures' \in Nat,
           fatal' \in BOOLEAN, fatal => fatal',
           block' \in [Blocks -> Trackers], \A b \in Blocks : b # th[t].block => block'[b] = block[b],
           \A b \in Blocks : b = th[t].block => Fits(block[b])' /\ RegisteredIn(block[b].e)',
           th'[t].block \in {th[t].block, None},
           NEW src \in Trackers, \A c \in DOMAIN src.e : Gpu(c) = th[t].buf[1],
           FreeBuffer(th[t].buf, src),
           fatal' \/ \A c \in Channels : \A p \in InFlight(c) : Current(t, c, p) => Covers(src.e, c, p.v),
           fatal' \/ \A c \in Channels : \A p \in InFlight(c) :
               p.block = th[t].block /\ CallCovers(t, c, p) =>
                 IF th'[t].block = p.block THEN CallCovers(t, c, p)' ELSE BlockCovers(c, p)'
    PROVE  Inv'
<1> DEFINE b == th[t].buf
<1>1. b \in Buffers /\ tracker[b] \in Trackers /\ Fits(tracker[b]) /\ completed \in [Channels -> Nat]
  BY DEF Inv, DataOK, FitInv, FramesInv, FrameInv
<1>2. PICK r \in FreeTracker(b, src) : tracker' = [tracker EXCEPT ![b] = r] BY DEF FreeBuffer
<1>3. /\ r \in Trackers /\ Fits(r)
      /\ DOMAIN r.e \subseteq DOMAIN tracker[b].e \cup DOMAIN src.e
      /\ fatal \/ \A c, v : c \in Channels /\ v \in Nat /\ completed[c] < v
                     /\ (Covers(tracker[b].e, c, v) \/ Covers(src.e, c, v)) => Covers(r.e, c, v)
  BY <1>1, FreeTrackerFacts
<1>4. \A c \in DOMAIN r.e : Gpu(c) = b[1] BY <1>1, <1>3 DEF Inv, TrackerInv
<1>5. ASSUME ~fatal', NEW c \in Channels, NEW p \in InFlight(c), p.buf = b,
             Covers(tracker[p.buf].e, c, p.v) \/ Owns(t, c, p)
      PROVE  Covers(r.e, c, p.v)
  <2>1. p.v \in Nat /\ completed[c] < p.v BY InFlightFacts DEF Inv
  <2>2. Covers(tracker[b].e, c, p.v) \/ Covers(src.e, c, p.v) BY <1>5 DEF Owns
  <2> QED BY <1>3, <1>5, <2>1, <2>2
<1>6. pool' = PoolAdd(b) BY DEF FreeBuffer
<1> QED BY <1>2, <1>3, <1>4, <1>5, <1>6, GiveBackStep

LEMMA UtilFinishInv ==
    ASSUME Inv, NEW t \in Threads, UtilFinish(t)
    PROVE  Inv'
<1>1. th[t].pc = "finish" /\ th[t] \in Frames /\ th[t].kind = "util" /\ FrameInv(t) /\ DataOK
  BY CallFacts DEF UtilFinish, Inv, FramesInv, Frames
<1>2. /\ th' = [th EXCEPT ![t] = Idle] /\ Settled(PushOf(t)) /\ fatal' = (fatal \/ Broken(PushOf(t)))
      /\ FreeBuffer(th[t].buf, Empty) /\ UNCHANGED <<block, reg, lost, channelVars, bounds>>
  BY <1>1 DEF UtilFinish
<1>3. th'[t] = Idle /\ th' \in [Threads -> Frames] /\ \A u \in Threads : u # t => th'[u] = th[u]
  BY <1>1, <1>2, IdleType, OnlyOne
<1>4. FrameInv(t)' /\ th'[t].pc = "idle" /\ th'[t].block = None BY <1>3, IdleType, IdleFrame
<1>5. \A b \in Blocks : Fits(block[b])' /\ RegisteredIn(block[b].e)'
  BY <1>2 DEF Inv, FitInv, BlockInv, RegisteredIn, Fits, Size
<1>6. ASSUME ~fatal', NEW c \in Channels, NEW p \in InFlight(c) PROVE ~Current(t, c, p)
  <2>1. Done(PushOf(t)) BY <1>2, <1>6 DEF Settled
  <2>2. Channel(t) \in Channels /\ th[t].v \in Nat BY <1>1, CallFacts, FrameTypes
  <2>3. PushOf(t) \in Trackers /\ DOMAIN PushOf(t).e = {Channel(t)} /\ PushOf(t).e[Channel(t)] = th[t].v
    BY <2>2, PushTrackerFacts DEF PushOf
  <2>4. ~Covers(PushOf(t).e, c, p.v) BY <2>1, <2>3, NotInFlight DEF Inv
  <2> QED BY <2>2, <2>3, <2>4 DEF Covers, Current
<1>7. ASSUME ~fatal', NEW c \in Channels, NEW p \in InFlight(c), p.block = th[t].block, CallCovers(t, c, p)
      PROVE  BlockCovers(c, p)' /\ th'[t].block # p.block
  <2>1. ~Covers(th[t].copy.e, c, p.v) BY <1>1, EmptyFacts DEF FrameInv, Covers
  <2>2. BlockCovers(c, p) BY <1>6, <1>7, <2>1 DEF CallCovers
  <2>3. p.block # None BY InFlightFacts, Names DEF Inv
  <2> QED BY <1>2, <1>4, <2>2, <2>3 DEF BlockCovers
<1>8. /\ fatal' \in BOOLEAN /\ (fatal => fatal') /\ block' \in [Blocks -> Trackers]
      /\ registers' \in Nat /\ failures' \in Nat /\ calls' = calls
  BY <1>1, <1>2 DEF DataOK, bounds
<1>9. Empty \in Trackers /\ DOMAIN Empty.e = {} BY EmptyFacts
<1>10. th[t].pc \in WithBuffer \ {"alloc"} /\ th'[t].pc \in WithoutBuffer
  BY <1>1, <1>4 DEF WithBuffer, WithoutBuffer, Pushed
<1>11. UNCHANGED <<reg, lost, channelVars, calls>> /\ \A b \in Blocks : block'[b] = block[b]
  BY <1>2, <1>8
<1> QED BY <1>2, <1>3, <1>4, <1>5, <1>6, <1>7, <1>8, <1>9, <1>10, <1>11, FreeStep

LEMMA PushOfFacts ==
    ASSUME Inv, NEW t \in Threads, th[t].pc # "idle", th[t].kind # "reg"
    PROVE  /\ PushOf(t) \in Trackers /\ DOMAIN PushOf(t).e = {Channel(t)} /\ PushOf(t).e[Channel(t)] = th[t].v
           /\ \A c, p : Current(t, c, p) => p.v = th[t].v /\ Covers(PushOf(t).e, c, p.v)
           /\ RegisteredIn(PushOf(t).e)
<1>1. Channel(t) \in Channels /\ th[t].v \in Nat /\ th[t].plan \in Seq(Channels) /\ th[t].plan # <<>>
  BY CallFacts, FrameTypes DEF Inv
<1>2. PushOf(t) \in Trackers /\ DOMAIN PushOf(t).e = {Channel(t)} /\ PushOf(t).e[Channel(t)] = th[t].v
  BY <1>1, PushTrackerFacts DEF PushOf
<1>3. \A c, p : Current(t, c, p) => p.v = th[t].v /\ Covers(PushOf(t).e, c, p.v)
  BY <1>1, <1>2 DEF Current, Covers
<1>4. Len(th[t].plan) \in Nat /\ Len(th[t].plan) # 0 /\ DOMAIN th[t].plan = 1 .. Len(th[t].plan)
  BY <1>1, LenProperties, EmptySeq
<1>5. 1 \in DOMAIN th[t].plan /\ Channel(t) = th[t].plan[1] BY <1>1, <1>4 DEF Channel
<1>6. reg[Gpu(Channel(t))] # None BY <1>5 DEF Inv, FramesInv, FrameInv, Registered
<1> QED BY <1>2, <1>3, <1>6 DEF RegisteredIn

\* The frame of a copy whose leg is over.
LEMMA AfterLegFacts ==
    ASSUME Inv, NEW t \in Threads, th[t].pc \in {"add", "addwait"}, th[t].kind = "copy", NEW ok \in BOOLEAN,
           NEW C \in Trackers, RegisteredIn(C.e), UNCHANGED <<reg, calls>>,
           NEW f, f = [AfterLeg(t, ok) EXCEPT !.copy = C] \/ (f = AfterLeg(t, ok) /\ C = th[t].copy),
           th' = [th EXCEPT ![t] = f]
    PROVE  /\ th' \in [Threads -> Frames] /\ \A u \in Threads : u # t => th'[u] = th[u]
           /\ FrameInv(t)' /\ th'[t].pc \in {"begin", "next"} /\ th'[t].kind = "copy"
           /\ th'[t].block = th[t].block /\ th'[t].call = th[t].call /\ th'[t].copy = C
<1>1. th[t] \in Frames /\ FrameInv(t) /\ DataOK /\ th[t].pc # "idle"
  BY CallFacts DEF Inv, FramesInv
<1> DEFINE a == AfterLeg(t, ok)
<1>2. /\ a.pc \in {"begin", "next"} /\ a.kind = "copy" /\ a.block = th[t].block /\ a.call = th[t].call
      /\ a.buf = None /\ a.loc = th[t].loc /\ a.copy = th[t].copy
      /\ a.plan = th[t].plan \/ (Len(th[t].plan) > 1 /\ a.plan = Tail(th[t].plan))
      /\ a \in Frames
  <2>1. CASE /\ Len(th[t].plan) > 1
             /\ a = [th[t] EXCEPT !.pc = "begin", !.plan = Tail(@), !.buf = None]
    <3>1. Tail(th[t].plan) \in Seq(Channels) BY <1>1, <2>1, PlanFacts
    <3> HIDE DEF a
    <3> QED BY <1>1, <2>1, <3>1 DEF Frames, WithoutBuffer
  <2>2. CASE a = [th[t] EXCEPT !.pc = "next", !.buf = None, !.ok = ok]
    <3> HIDE DEF a
    <3> QED BY <1>1, <2>2 DEF Frames, WithoutBuffer
  <2> QED BY <2>1, <2>2 DEF AfterLeg
<1> HIDE DEF a
<1>3. f = [a EXCEPT !.copy = C] \/ (f = a /\ C = th[t].copy) BY DEF a
<1>4. /\ f.pc = a.pc /\ f.kind = "copy" /\ f.block = th[t].block /\ f.call = th[t].call
      /\ f.buf = None /\ f.loc = th[t].loc /\ f.copy = C /\ f.plan = a.plan /\ f \in Frames
  <2>1. CASE f = [a EXCEPT !.copy = C] BY <1>2, <2>1 DEF Frames
  <2>2. CASE f = a /\ C = th[t].copy BY <1>2, <2>2
  <2> QED BY <1>3, <2>1, <2>2
<1>5. th'[t] = f /\ th' \in [Threads -> Frames] /\ \A u \in Threads : u # t => th'[u] = th[u]
  BY <1>1, <1>4, OnlyOne
<1>6. RegisteredIn(th[t].loc.e)' BY <1>1, <1>4, <1>5 DEF FrameInv, RegisteredIn
<1>7. RegisteredIn(th[t].copy.e)' BY <1>4, <1>5 DEF RegisteredIn
<1>8. th'[t].plan # <<>> /\ Registered(th[t].plan)' BY <1>1, <1>2, <1>4, <1>5, PlanFacts
<1>9. th'[t].pc \in {"begin", "next"} /\ th'[t].buf = None BY <1>2, <1>4, <1>5
<1>10. FrameInv(t)' BY <1>1, <1>4, <1>5, <1>6, <1>7, <1>8, <1>9, CopyFrame DEF WithBuffer, Pushed
<1> QED BY <1>4, <1>5, <1>9, <1>10

LEMMA AddPushInv ==
    ASSUME Inv, NEW t \in Threads, AddPush(t)
    PROVE  Inv'
<1> DEFINE c0 == Channel(t)
           dst == th[t].copy
           n == IF c0 \in DOMAIN dst.e THEN 0 ELSE 1
<1>1. /\ th[t].pc = "add" /\ th[t] \in Frames /\ th[t].kind = "copy" /\ FrameInv(t) /\ DataOK
      /\ dst \in Trackers /\ th[t].ok \in BOOLEAN
  BY CallFacts, FrameTypes DEF AddPush, Inv, FramesInv, FrameInv, Frames
<1>2. UNCHANGED <<block, reg, lost, channelVars, fatal, bounds>> BY DEF AddPush
<1>3. /\ fatal' \in BOOLEAN /\ (fatal => fatal') /\ block' \in [Blocks -> Trackers]
      /\ registers' \in Nat /\ failures' \in Nat /\ UNCHANGED <<reg, lost, channelVars, calls>>
      /\ UNCHANGED <<reg, calls>> /\ \A b \in Blocks : block'[b] = block[b]
  BY <1>1, <1>2 DEF DataOK, bounds
<1>4. \A b \in Blocks : Fits(block[b])' /\ RegisteredIn(block[b].e)'
  BY <1>2 DEF Inv, FitInv, BlockInv, RegisteredIn, Fits, Size
<1>5. /\ PushOf(t) \in Trackers /\ DOMAIN PushOf(t).e = {c0} /\ RegisteredIn(PushOf(t).e)
      /\ \A c, p : Current(t, c, p) => Covers(PushOf(t).e, c, p.v)
  BY <1>1, PushOfFacts
<1>6. th[t].buf[1] = Gpu(c0) BY <1>1 DEF FrameInv, WithBuffer, Pushed
<1>7. \A c \in Channels : \A p \in InFlight(c) : p.v \in Nat BY InFlightFacts DEF Inv
<1>8. \A c, p : BlockCovers(c, p) /\ p.block \in Blocks => BlockCovers(c, p)' BY <1>3 DEF BlockCovers
<1>9. CASE /\ FreeBuffer(th[t].buf, PushOf(t))
           /\ th' = [th EXCEPT ![t] = [AfterLeg(t, th[t].ok) EXCEPT
                        !.copy = [Reserved(dst, n) EXCEPT !.e = Merge(@, PushOf(t).e)]]]
  <2> DEFINE C == [Reserved(dst, n) EXCEPT !.e = Merge(@, PushOf(t).e)]
             m == Merge(dst.e, PushOf(t).e)
  <2>1. dst.e \in Entries /\ PushOf(t).e \in Entries BY <1>1, <1>5 DEF Trackers
  <2>2. /\ m \in Entries /\ DOMAIN m = DOMAIN dst.e \cup {c0}
        /\ \A c, v : v \in Nat /\ (Covers(dst.e, c, v) \/ Covers(PushOf(t).e, c, v)) => Covers(m, c, v)
    BY <1>5, <2>1, MergeFacts
  <2>3. C \in Trackers /\ C.e = m
    <3>1. n \in Nat /\ n <= 512 OBVIOUS
    <3>2. Reserved(dst, n) \in Trackers /\ Reserved(dst, n).e = dst.e BY <1>1, <3>1, ReservedFacts
    <3> HIDE DEF n, dst
    <3>3. C = [Reserved(dst, n) EXCEPT !.e = m] BY <3>2
    <3> QED BY <2>2, <3>2, <3>3, ExceptFacts
  <2>4. RegisteredIn(C.e)
    <3>1. RegisteredIn(dst.e) BY <1>1 DEF FrameInv
    <3> HIDE DEF C, m, dst
    <3> QED BY <1>5, <2>2, <2>3, <3>1 DEF RegisteredIn
  <2> HIDE DEF C, m
  <2>5. th' = [th EXCEPT ![t] = [AfterLeg(t, th[t].ok) EXCEPT !.copy = C]] BY <1>9 DEF C
  <2>6. /\ th' \in [Threads -> Frames] /\ \A u \in Threads : u # t => th'[u] = th[u]
        /\ FrameInv(t)' /\ th'[t].pc \in {"begin", "next"} /\ th'[t].kind = "copy"
        /\ th'[t].block = th[t].block /\ th'[t].call = th[t].call /\ th'[t].copy = C
    BY <1>1, <1>3, <2>3, <2>4, <2>5, AfterLegFacts
  <2>7. ASSUME NEW c \in Channels, NEW p \in InFlight(c), p.block = th[t].block, CallCovers(t, c, p)
        PROVE  CallCovers(t, c, p)' /\ th'[t].block = p.block
    <3>1. p.block \in Blocks /\ p.v \in Nat BY InFlightFacts DEF Inv
    <3>2. BlockCovers(c, p) => BlockCovers(c, p)' BY <1>8, <3>1
    <3>3. Covers(dst.e, c, p.v) \/ Current(t, c, p) => Covers(C.e, c, p.v)
      BY <1>5, <2>2, <2>3, <3>1
    <3> QED BY <2>6, <2>7, <3>2, <3>3 DEF CallCovers
  <2>8. th[t].pc \in WithBuffer \ {"alloc"} /\ th'[t].pc \in WithoutBuffer
    BY <1>1, <2>6 DEF WithBuffer, WithoutBuffer, Pushed
  <2>9. \A c \in DOMAIN PushOf(t).e : Gpu(c) = th[t].buf[1] BY <1>5, <1>6
  <2> HIDE DEF c0
  <2> QED BY <1>3, <1>4, <1>5, <1>9, <2>6, <2>7, <2>8, <2>9, FreeStep
<1>10. CASE th' = [th EXCEPT ![t].pc = "addwait"] /\ UNCHANGED <<pool, tracker>>
  <2> DEFINE f == [th[t] EXCEPT !.pc = "addwait"]
  <2>1. th' = [th EXCEPT ![t] = f] BY <1>1, <1>10 DEF DataOK
  <2>2. /\ f \in Frames /\ f.pc = "addwait" /\ f.kind = "copy" /\ f.block = th[t].block
        /\ f.plan = th[t].plan /\ f.buf = th[t].buf /\ f.loc = th[t].loc
        /\ f.copy = th[t].copy /\ f.call = th[t].call /\ f.v = th[t].v
    BY <1>1 DEF Frames, WithBuffer, Pushed
  <2> HIDE DEF f
  <2>3. th'[t] = f /\ th' \in [Threads -> Frames] /\ \A u \in Threads : u # t => th'[u] = th[u]
    BY <1>1, <2>1, <2>2, OnlyOne
  <2>4. RegisteredIn(th[t].loc.e)' /\ RegisteredIn(th[t].copy.e)'
    BY <1>1, <1>3, <2>2, <2>3 DEF FrameInv, RegisteredIn
  <2>5. th'[t].plan # <<>> /\ Registered(th[t].plan)' BY <1>1, <1>3, <2>2, <2>3, PlanFacts
  <2>6. th[t].buf \in Buffers BY <1>1 DEF FrameInv, WithBuffer, Pushed
  <2>7. Channel(t)' = Channel(t) BY <2>2, <2>3 DEF Channel
  <2>8. FrameInv(t)'
    BY <1>1, <1>3, <1>6, <2>2, <2>3, <2>4, <2>5, <2>6, <2>7, CopyFrame DEF WithoutBuffer
  <2>9. \A c, p : Current(t, c, p) => Current(t, c, p)' BY <2>2, <2>3, <2>7 DEF Current, Pushed
  <2>10. \A c, p : Owns(t, c, p) => Owns(t, c, p)'
    BY <1>1, <2>2, <2>3, <2>7, <2>9 DEF Owns, OwnPush
  <2>11. ASSUME NEW c \in Channels, NEW p \in InFlight(c), p.block = th[t].block, CallCovers(t, c, p)
         PROVE  CallCovers(t, c, p)'
    <3>1. p.block \in Blocks BY InFlightFacts DEF Inv
    <3>2. BlockCovers(c, p) => BlockCovers(c, p)' BY <1>8, <3>1
    <3> QED BY <2>2, <2>3, <2>9, <2>11, <3>2 DEF CallCovers
  <2> QED BY <1>1, <1>2, <1>3, <1>4, <1>10, <2>2, <2>3, <2>8, <2>10, <2>11, NeutralStep
<1> QED BY <1>9, <1>10 DEF AddPush

LEMMA AddPushWaitInv ==
    ASSUME Inv, NEW t \in Threads, AddPushWait(t)
    PROVE  Inv'
<1> DEFINE c0 == Channel(t)
           ok == th[t].ok /\ Done(PushOf(t))
<1>1. /\ th[t].pc = "addwait" /\ th[t] \in Frames /\ th[t].kind = "copy" /\ FrameInv(t) /\ DataOK
      /\ th[t].copy \in Trackers /\ th[t].ok \in BOOLEAN
  BY CallFacts, FrameTypes DEF AddPushWait, Inv, FramesInv, FrameInv, Frames
<1>2. /\ Settled(PushOf(t)) /\ fatal' = (fatal \/ Broken(PushOf(t))) /\ FreeBuffer(th[t].buf, PushOf(t))
      /\ th' = [th EXCEPT ![t] = AfterLeg(t, ok)] /\ UNCHANGED <<block, reg, lost, channelVars, bounds>>
  BY DEF AddPushWait
<1>3. /\ fatal' \in BOOLEAN /\ (fatal => fatal') /\ block' \in [Blocks -> Trackers]
      /\ registers' \in Nat /\ failures' \in Nat /\ UNCHANGED <<reg, lost, channelVars, calls>>
      /\ UNCHANGED <<reg, calls>> /\ \A b \in Blocks : block'[b] = block[b]
  BY <1>1, <1>2 DEF DataOK, bounds
<1>4. \A b \in Blocks : Fits(block[b])' /\ RegisteredIn(block[b].e)'
  BY <1>2 DEF Inv, FitInv, BlockInv, RegisteredIn, Fits, Size
<1>5. /\ PushOf(t) \in Trackers /\ DOMAIN PushOf(t).e = {c0}
      /\ \A c, p : Current(t, c, p) => Covers(PushOf(t).e, c, p.v)
  BY <1>1, PushOfFacts
<1>6. th[t].buf[1] = Gpu(c0) BY <1>1 DEF FrameInv, WithBuffer, Pushed
<1>7. ok \in BOOLEAN OBVIOUS
<1>8. RegisteredIn(th[t].copy.e) BY <1>1 DEF FrameInv
<1> HIDE DEF ok
<1>9. /\ th' \in [Threads -> Frames] /\ \A u \in Threads : u # t => th'[u] = th[u]
      /\ FrameInv(t)' /\ th'[t].pc \in {"begin", "next"} /\ th'[t].kind = "copy"
      /\ th'[t].block = th[t].block /\ th'[t].call = th[t].call /\ th'[t].copy = th[t].copy
  BY <1>1, <1>2, <1>3, <1>7, <1>8, AfterLegFacts
<1>10. ASSUME ~fatal', NEW c \in Channels, NEW p \in InFlight(c), p.block = th[t].block, CallCovers(t, c, p)
       PROVE  CallCovers(t, c, p)' /\ th'[t].block = p.block
  <2>1. p.block \in Blocks BY InFlightFacts DEF Inv
  <2>2. BlockCovers(c, p) => BlockCovers(c, p)' BY <1>3, <2>1 DEF BlockCovers
  <2>3. Done(PushOf(t)) BY <1>2, <1>10 DEF Settled
  <2>4. ~Current(t, c, p) BY <1>5, <2>3, NotInFlight DEF Inv
  <2> QED BY <1>9, <1>10, <2>2, <2>4 DEF CallCovers
<1>11. th[t].pc \in WithBuffer \ {"alloc"} /\ th'[t].pc \in WithoutBuffer
  BY <1>1, <1>9 DEF WithBuffer, WithoutBuffer, Pushed
<1>12. \A c \in DOMAIN PushOf(t).e : Gpu(c) = th[t].buf[1] BY <1>5, <1>6
<1> HIDE DEF c0
<1> QED BY <1>2, <1>3, <1>4, <1>5, <1>9, <1>10, <1>11, <1>12, FreeStep

LEMMA PushFailsInv ==
    ASSUME Inv, NEW t \in Threads, PushFails(t)
    PROVE  Inv'
<1> DEFINE tr == Acquired(t)
           others == [tr EXCEPT !.e = Others(tr, Gpu(Channel(t)))]
<1>1. th[t].pc = "push" /\ th[t] \in Frames /\ th[t].kind \in {"copy", "util"} /\ FrameInv(t) /\ DataOK
  BY CallFacts DEF PushFails, Inv, FramesInv, FrameInv, Frames
<1>2. /\ failures' = failures \/ failures' = failures + 1
      /\ fatal' = (fatal \/ Broken(others))
      /\ UNCHANGED <<reg, channelVars, calls, registers>>
      /\ block' = block \/ (/\ th[t].kind = "util" /\ Broken(others)
                            /\ block' = [block EXCEPT ![th[t].block] = uvm_tracker_clear(@)])
  BY DEF PushFails
<1> HIDE DEF others
<1>3. /\ fatal' \in BOOLEAN /\ (fatal => fatal') /\ failures' \in Nat /\ registers' \in Nat
      /\ UNCHANGED <<reg, channelVars, calls>>
  BY <1>1, <1>2 DEF DataOK
<1>4. CASE th[t].kind = "copy"
  <2>1. LoseBuffer(t) /\ UNCHANGED <<pool, tracker>> BY <1>4 DEF PushFails
  <2>2. UNCHANGED <<pool, tracker, block, reg, channelVars, calls>> BY <1>2, <1>4, <2>1
  <2> QED BY <1>1, <1>3, <1>4, <2>1, <2>2, LoseFacts
<1>5. CASE th[t].kind = "util"
  <2>1. FreeBuffer(th[t].buf, Empty) /\ th' = [th EXCEPT ![t] = Idle] /\ UNCHANGED lost
    BY <1>5 DEF PushFails
  <2>2. th'[t] = Idle /\ th' \in [Threads -> Frames] /\ \A u \in Threads : u # t => th'[u] = th[u]
    BY <1>1, <2>1, IdleType, OnlyOne
  <2>3. FrameInv(t)' /\ th'[t].pc = "idle" /\ th'[t].block = None BY <2>2, IdleType, IdleFrame
  <2>4. th[t].block \in Blocks /\ block[th[t].block] \in Trackers /\ Fits(block[th[t].block])
    BY <1>1, <1>5, CallFacts
  <2>5. /\ block' \in [Blocks -> Trackers] /\ \A b \in Blocks : b # th[t].block => block'[b] = block[b]
        /\ block' = block \/ block'[th[t].block] = uvm_tracker_clear(block[th[t].block])
    <3>1. uvm_tracker_clear(block[th[t].block]) \in Trackers BY <2>4, ClearFacts
    <3> QED BY <1>1, <1>2, <2>4, <3>1 DEF DataOK
  <2>6. ASSUME NEW b \in Blocks, b = th[t].block PROVE Fits(block[b])' /\ RegisteredIn(block[b].e)'
    <3>1. RegisteredIn(block[b].e) BY DEF Inv, BlockInv
    <3>2. CASE block' = block BY <1>2, <2>4, <2>6, <3>1, <3>2 DEF Fits, Size, RegisteredIn
    <3>3. CASE block'[th[t].block] = uvm_tracker_clear(block[th[t].block])
      <4> DEFINE r == uvm_tracker_clear(block[th[t].block])
      <4>1. Fits(r) /\ r.e = NoEntries BY <2>4, ClearFacts
      <4> HIDE DEF r
      <4>2. block'[b] = r BY <2>6, <3>3 DEF r
      <4> QED BY <4>1, <4>2, EmptyFacts DEF Fits, Size, RegisteredIn
    <3> QED BY <2>5, <3>2, <3>3
  <2>7. ASSUME ~fatal', NEW c \in Channels, NEW p \in InFlight(c), p.block = th[t].block, CallCovers(t, c, p)
        PROVE  BlockCovers(c, p)' /\ th'[t].block # p.block
    <3>1. ~Covers(th[t].copy.e, c, p.v) BY <1>1, <1>5, EmptyFacts DEF FrameInv, Covers
    <3>2. ~Current(t, c, p) BY <1>1 DEF Current, Pushed
    <3>3. BlockCovers(c, p) BY <2>7, <3>1, <3>2 DEF CallCovers
    <3>4. p.block # None BY InFlightFacts, Names DEF Inv
    <3>5. block' = block BY <1>2, <2>7
    <3> QED BY <2>3, <3>3, <3>4, <3>5 DEF BlockCovers
  <2>8. Empty \in Trackers /\ DOMAIN Empty.e = {} BY EmptyFacts
  <2>9. th[t].pc \in WithBuffer \ {"alloc"} /\ th'[t].pc \in WithoutBuffer
    BY <1>1, <2>3 DEF WithBuffer, WithoutBuffer, Pushed
  <2>10. \A c, p : ~Current(t, c, p) BY <1>1 DEF Current, Pushed
  <2>11. UNCHANGED <<reg, lost, channelVars, calls>> BY <1>3, <2>1
  <2> QED BY <1>3, <2>1, <2>2, <2>3, <2>5, <2>6, <2>7, <2>8, <2>9, <2>10, <2>11, FreeStep
<1> QED BY <1>1, <1>4, <1>5

\* The frame of a call that gets no buffer, or had to give it back at once.
LEMMA NoBufferFacts ==
    ASSUME Inv, NEW t \in Threads, th[t].pc \in {"take", "alloc"}, UNCHANGED <<reg, calls>>,
           \/ th[t].pc = "take" /\ th' = NoBuffer(t)
           \/ th' = [NoBuffer(t) EXCEPT ![t].buf = None]
    PROVE  /\ th' \in [Threads -> Frames] /\ \A u \in Threads : u # t => th'[u] = th[u]
           /\ FrameInv(t)' /\ th'[t].pc \in {"idle", "next"} /\ th'[t].buf = None
           /\ \/ th'[t].block = None
              \/ /\ th'[t].block = th[t].block /\ th'[t].call = th[t].call /\ th'[t].pc = "next"
                 /\ th'[t].copy = th[t].copy /\ th[t].kind = "copy"
           /\ th[t].kind = "copy" \/ th'[t].block = None
<1>1. th[t] \in Frames /\ FrameInv(t) /\ DataOK /\ th[t].pc # "idle" /\ th \in [Threads -> Frames]
  BY CallFacts DEF Inv, FramesInv, DataOK
<1>2. CASE th[t].kind # "copy"
  <2>1. NoBuffer(t) = [th EXCEPT ![t] = Idle] BY <1>2 DEF NoBuffer
  <2>2. [Idle EXCEPT !.buf = None] = Idle
    <3> DEFINE i == Idle
    <3>1. i \in Frames /\ i.buf = None BY IdleType
    <3> HIDE DEF i
    <3>2. [i EXCEPT !.buf = None] = i BY <3>1 DEF Frames
    <3> QED BY <3>2 DEF i
  <2>3. th' = [th EXCEPT ![t] = Idle] BY <1>1, <2>1, <2>2
  <2>4. th'[t] = Idle /\ th' \in [Threads -> Frames] /\ \A u \in Threads : u # t => th'[u] = th[u]
    BY <1>1, <2>3, IdleType, OnlyOne
  <2> QED BY <2>4, IdleType, IdleFrame
<1>3. CASE th[t].kind = "copy"
  <2> DEFINE f == [th[t] EXCEPT !.pc = "next", !.ok = FALSE]
             h == [th[t] EXCEPT !.pc = "next", !.ok = FALSE, !.buf = None]
  <2>1. NoBuffer(t) = [th EXCEPT ![t] = f] BY <1>1, <1>3 DEF NoBuffer
  <2>2. /\ f.pc = "next" /\ f.kind = "copy" /\ f.block = th[t].block /\ f \in Frames
        /\ f.plan = th[t].plan /\ f.buf = th[t].buf /\ f.loc = th[t].loc
        /\ f.copy = th[t].copy /\ f.call = th[t].call
    BY <1>1, <1>3 DEF Frames, WithoutBuffer
  <2>3. /\ h.pc = "next" /\ h.kind = "copy" /\ h.block = th[t].block /\ h \in Frames
        /\ h.plan = th[t].plan /\ h.buf = None /\ h.loc = th[t].loc
        /\ h.copy = th[t].copy /\ h.call = th[t].call
    BY <1>1, <1>3 DEF Frames, WithoutBuffer
  <2>4. th[t].pc = "take" => th[t].buf = None BY <1>1 DEF FrameInv, WithoutBuffer
  <2>5. th' = [th EXCEPT ![t] = h] \/ (th[t].pc = "take" /\ th' = [th EXCEPT ![t] = f])
    BY <1>1, <2>1
  <2> HIDE DEF f, h
  <2>6. PICK x : /\ th' = [th EXCEPT ![t] = x] /\ x.pc = "next" /\ x.kind = "copy" /\ x.block = th[t].block
                 /\ x.plan = th[t].plan /\ x.buf = None /\ x.loc = th[t].loc
                 /\ x.copy = th[t].copy /\ x.call = th[t].call /\ x \in Frames
    BY <2>2, <2>3, <2>4, <2>5
  <2>7. th'[t] = x /\ th' \in [Threads -> Frames] /\ \A u \in Threads : u # t => th'[u] = th[u]
    BY <1>1, <2>6, OnlyOne
  <2>8. RegisteredIn(th[t].loc.e)' /\ RegisteredIn(th[t].copy.e)'
    BY <1>1, <2>6, <2>7 DEF FrameInv, RegisteredIn
  <2>9. th'[t].plan # <<>> /\ Registered(th[t].plan)' BY <1>1, <1>3, <2>6, <2>7, PlanFacts
  <2>10. FrameInv(t)' BY <1>1, <1>3, <2>6, <2>7, <2>8, <2>9, CopyFrame DEF WithBuffer, Pushed
  <2> QED BY <1>3, <2>6, <2>7, <2>10
<1> QED BY <1>2, <1>3

LEMMA AllocErrorInv ==
    ASSUME Inv, NEW t \in Threads, AllocError(t)
    PROVE  Inv'
<1> DEFINE r == [e |-> NoEntries, max |-> 0]
<1>1. /\ th[t].pc = "alloc" /\ fatal' = TRUE /\ tracker' = [tracker EXCEPT ![th[t].buf] = r]
      /\ pool' = PoolAdd(th[t].buf) /\ th' = [NoBuffer(t) EXCEPT ![t].buf = None]
      /\ UNCHANGED <<block, reg, lost, channelVars, bounds>>
  BY DEF AllocError
<1>2. DataOK BY DEF Inv
<1>3. /\ registers' \in Nat /\ failures' \in Nat /\ UNCHANGED <<reg, lost, channelVars, calls>>
      /\ UNCHANGED <<reg, calls>> /\ block' \in [Blocks -> Trackers] /\ \A b \in Blocks : block'[b] = block[b]
  BY <1>1, <1>2 DEF DataOK, bounds
<1>4. \A b \in Blocks : Fits(block[b])' /\ RegisteredIn(block[b].e)'
  BY <1>1 DEF Inv, FitInv, BlockInv, RegisteredIn, Fits, Size
<1>5. /\ th' \in [Threads -> Frames] /\ \A u \in Threads : u # t => th'[u] = th[u]
      /\ FrameInv(t)' /\ th'[t].pc \in {"idle", "next"} /\ th'[t].block \in {th[t].block, None}
  BY <1>1, <1>3, NoBufferFacts
<1>6. r \in Trackers /\ DOMAIN r.e = {} /\ Fits(r)
  <2>1. Cardinality(DOMAIN NoEntries) = 0 BY EmptyFacts, FS_EmptySet
  <2> QED BY <2>1, EmptyFacts DEF Trackers, Fits, Size
<1>7. th[t].pc \in WithBuffer /\ th'[t].pc \in WithoutBuffer BY <1>1, <1>5 DEF WithBuffer, WithoutBuffer
<1> HIDE DEF r
<1> QED BY <1>1, <1>3, <1>4, <1>5, <1>6, <1>7, GiveBackStep

LEMMA PoolTakeInv ==
    ASSUME Inv, NEW t \in Threads, PoolTake(t)
    PROVE  Inv'
<1> DEFINE g == Gpu(Channel(t))
<1>1. th[t].pc = "take" /\ th[t] \in Frames /\ FrameInv(t) /\ DataOK /\ g \in Gpus /\ pool[g].on
  BY CallFacts DEF PoolTake, Inv, FramesInv
<1>2. UNCHANGED <<tracker, block, reg, lost, channelVars, fatal, bounds>> BY DEF PoolTake
<1>3. PICK q \in IF pool[g].free = <<>> THEN ExpandLocked(g) ELSE {pool[g]} :
              IF q.free = <<>>
              THEN th' = NoBuffer(t) /\ UNCHANGED pool
              ELSE /\ pool' = [pool EXCEPT ![g] = TakeFirst(q)]
                   /\ th' = [th EXCEPT ![t].pc = "alloc", ![t].buf = Head(q.free)]
  BY DEF PoolTake
<1>4. th[t].buf = None BY <1>1 DEF FrameInv, WithoutBuffer
<1>5. /\ fatal' \in BOOLEAN /\ block' \in [Blocks -> Trackers] /\ UNCHANGED <<reg, calls>>
      /\ \A b \in Blocks : block'[b] = block[b]
  BY <1>1, <1>2 DEF DataOK, bounds
<1>6. \A b \in Blocks : Fits(block[b])' /\ RegisteredIn(block[b].e)'
  BY <1>2 DEF Inv, FitInv, BlockInv, RegisteredIn, Fits, Size
<1>7. \A c, p : ~Current(t, c, p) /\ ~Owns(t, c, p) BY <1>1 DEF Owns, Current, Pushed
<1>8. \A c, p : BlockCovers(c, p) <=> BlockCovers(c, p)' BY <1>2 DEF BlockCovers
<1>9. \A c \in Channels : \A p \in InFlight(c) : p.block # None /\ p.buf # None
  BY InFlightFacts, Names DEF Inv
<1>10. CASE q.free = <<>>
  <2>1. th' = NoBuffer(t) /\ UNCHANGED pool BY <1>3, <1>10
  <2>2. /\ th' \in [Threads -> Frames] /\ \A u \in Threads : u # t => th'[u] = th[u]
        /\ FrameInv(t)' /\ th'[t].pc \in {"idle", "next"} /\ th'[t].buf = None
        /\ \/ th'[t].block = None
           \/ /\ th'[t].block = th[t].block /\ th'[t].call = th[t].call /\ th'[t].pc = "next"
              /\ th'[t].copy = th[t].copy /\ th[t].kind = "copy"
        /\ th[t].kind = "copy" \/ th'[t].block = None
    BY <1>1, <1>5, <2>1, NoBufferFacts
  <2>3. ASSUME NEW c \in Channels, NEW p \in InFlight(c), p.block = th[t].block, CallCovers(t, c, p)
        PROVE  IF th'[t].block = p.block THEN CallCovers(t, c, p)' ELSE BlockCovers(c, p)'
    <3>1. CASE th[t].kind = "copy" /\ th'[t].block # None
      <4>1. /\ th'[t].block = th[t].block /\ th'[t].call = th[t].call /\ th'[t].pc = "next"
            /\ th'[t].copy = th[t].copy
        BY <2>2, <3>1
      <4> QED BY <1>7, <1>8, <2>3, <4>1 DEF CallCovers
    <3>2. CASE th[t].kind # "copy"
      <4>1. th[t].kind = "util" BY <1>1, <1>9, <2>3, <3>2 DEF FrameInv, Frames
      <4>2. ~Covers(th[t].copy.e, c, p.v) BY <1>1, <4>1, EmptyFacts DEF FrameInv, Covers
      <4> QED BY <1>7, <1>8, <1>9, <2>2, <2>3, <3>2, <4>2 DEF CallCovers
    <3>3. CASE th[t].kind = "copy" /\ th'[t].block = None
      <4>1. FALSE BY <2>1, <2>2, <3>3, <1>1, Names DEF NoBuffer, DataOK, FrameInv, Frames
      <4> QED BY <4>1
    <3> QED BY <3>1, <3>2, <3>3
  <2> QED BY <1>1, <1>2, <1>4, <1>5, <1>6, <1>7, <2>1, <2>2, <2>3, NeutralStep
<1>11. CASE q.free # <<>>
  <2> DEFINE b == Head(q.free)
             f == [th[t] EXCEPT !.pc = "alloc", !.buf = b]
  <2>1. pool' = [pool EXCEPT ![g] = TakeFirst(q)] /\ th' = [th EXCEPT ![t] = f]
    BY <1>1, <1>3, <1>11 DEF DataOK
  <2>2. /\ f.pc = "alloc" /\ f.kind = th[t].kind /\ f.block = th[t].block /\ f.buf = b
        /\ f.plan = th[t].plan /\ f.loc = th[t].loc /\ f.copy = th[t].copy /\ f.call = th[t].call
    BY <1>1 DEF Frames
  <2>3. th'[t] = f /\ \A u \in Threads : u # t => th'[u] = th[u] BY <1>1, <2>1, OnlyOne
  <2>4. th'[t].buf = b /\ \A u \in Threads : u # t => th'[u].buf = th[u].buf BY <2>2, <2>3
  <2> HIDE DEF f, g
  <2>5. /\ PlaceInv' /\ CountInv' /\ pool' \in [Gpus -> Pools]
        /\ th'[t].buf \in Buffers /\ th'[t].buf[1] = g
        /\ \A x \in Buffers : InFree(x) => InFree(x)' \/ x = th'[t].buf
        /\ \A h \in Gpus : pool'[h].on = pool[h].on
    BY <1>1, <1>2, <1>3, <1>4, <1>11, <2>1, <2>4, TakeMove DEF Inv
  <2>6. f \in Frames BY <1>1, <2>4, <2>5 DEF Frames, WithBuffer, f
  <2>7. th' \in [Threads -> Frames] BY <1>1, <2>1, <2>6, OnlyOne
  <2>8. Channel(t)' = Channel(t) BY <2>2, <2>3 DEF Channel
  <2>9. FrameInv(t)'
    <3>1. RegisteredIn(th[t].loc.e)' /\ RegisteredIn(th[t].copy.e)'
      BY <1>1, <1>5, <2>2, <2>3 DEF FrameInv, RegisteredIn
    <3>2. th'[t].plan # <<>> /\ (th[t].kind # "reg" => Registered(th[t].plan)')
      BY <1>1, <1>5, <2>2, <2>3, PlanFacts DEF FrameInv
    <3>3. th[t].kind = "reg" => pool'[Gpu(Channel(t)')].on BY <1>1, <2>5, <2>8 DEF g
    <3>4. th'[t].kind = "reg" => \A u \in Threads : u # t => th'[u].pc = "idle"
      BY <1>1, <2>2, <2>3 DEF FrameInv
    <3> QED BY <1>1, <1>5, <2>2, <2>3, <2>5, <2>8, <3>1, <3>2, <3>3, <3>4 DEF FrameInv, WithoutBuffer, g
  <2> USE DEF channelVars, bounds
  <2>10. DataOK' BY <1>1, <1>2, <2>5, <2>7 DEF DataOK
  <2>11. FitInv' BY <1>2 DEF Inv, FitInv, Fits, Size
  <2>12. ChannelInv' BY <1>2 DEF Inv, ChannelInv
  <2>13. FramesInv' BY <1>1, <1>5, <2>3, <2>9, FramesStep DEF Inv
  <2>14. BlockInv' BY <1>5, <1>6, <2>2, <2>3, BlockStep DEF Inv
  <2>15. TrackerInv'
    <3>1. \A u \in Threads : th[u].pc = "alloc" => th'[u] = th[u] BY <1>1, <2>3
    <3>2. th'[t].pc = "alloc" BY <2>2, <2>3
    <3> QED BY <1>2, <2>5, <3>1, <3>2 DEF Inv, TrackerInv
  <2>16. StagedInv' BY <1>2, <1>4, <1>9, <2>3, StagedStep DEF Inv
  <2>17. ASSUME NEW c \in Channels, NEW p \in InFlight(c), p.block = th[t].block, CallCovers(t, c, p)
         PROVE  CallCovers(t, c, p)' /\ th'[t].block = p.block
    BY <1>1, <1>7, <1>8, <2>2, <2>3, <2>17 DEF CallCovers
  <2>18. CoverInv' BY <1>1, <1>2, <1>5, <2>2, <2>3, <2>17, CoverStep DEF Inv
  <2>19. CopiesOrdered' BY <1>2 DEF Inv, CopiesOrdered, InFlight
  <2> QED BY <2>5, <2>10, <2>11, <2>12, <2>13, <2>14, <2>15, <2>16, <2>18, <2>19 DEF Inv
<1> QED BY <1>10, <1>11

LEMMA AllocReadyInv ==
    ASSUME Inv, NEW t \in Threads, AllocReady(t)
    PROVE  Inv'
<1> USE DEF channelVars, bounds
<1> DEFINE b == th[t].buf
           r == uvm_tracker_clear(tracker[b])
           f == [th[t] EXCEPT !.pc = AfterAlloc(t)]
<1>1. /\ th[t].pc = "alloc" /\ th[t] \in Frames /\ FrameInv(t) /\ DataOK
      /\ th[t].kind \in {"copy", "util", "reg"} /\ b \in Buffers /\ b[1] = Gpu(Channel(t))
  BY CallFacts, FrameTypes DEF AllocReady, Inv, FramesInv, FrameInv, WithBuffer
<1>2. tracker[b] \in Trackers /\ Fits(tracker[b]) BY <1>1 DEF DataOK, Inv, FitInv
<1>3. r \in Trackers /\ r.e = NoEntries /\ Fits(r) BY <1>2, ClearFacts
<1>4. /\ Done(tracker[b]) /\ tracker' = [tracker EXCEPT ![b] = r] /\ th' = [th EXCEPT ![t] = f]
      /\ UNCHANGED <<pool, block, reg, lost, channelVars, fatal, bounds>>
  BY <1>1 DEF AllocReady, DataOK
<1>5. /\ f.pc \in {"peers", "local", "push"} /\ f.kind = th[t].kind /\ f.block = th[t].block /\ f.buf = b
      /\ f.plan = th[t].plan /\ f.loc = th[t].loc /\ f.copy = th[t].copy /\ f.call = th[t].call
      /\ f.pc = "peers" <=> th[t].kind = "reg"
      /\ f.pc = "local" => th[t].kind = "copy"
      /\ f \in Frames
  <2>1. /\ AfterAlloc(t) \in {"peers", "local", "push"} /\ (AfterAlloc(t) = "peers" <=> th[t].kind = "reg")
        /\ AfterAlloc(t) = "local" => th[t].kind = "copy"
    BY <1>1 DEF AfterAlloc
  <2> QED BY <1>1, <2>1 DEF Frames, WithBuffer
<1> HIDE DEF r, f
<1>6. th'[t] = f /\ th' \in [Threads -> Frames] /\ \A u \in Threads : u # t => th'[u] = th[u]
  BY <1>1, <1>4, <1>5, OnlyOne
<1>7. /\ tracker' \in [Buffers -> Trackers] /\ tracker'[b] = r
      /\ \A x \in Buffers : x # b => tracker'[x] = tracker[x]
  BY <1>1, <1>3, <1>4 DEF DataOK
<1>8. Channel(t)' = Channel(t) BY <1>5, <1>6 DEF Channel
<1>9. FrameInv(t)'
  <2>1. RegisteredIn(th[t].loc.e)' /\ RegisteredIn(th[t].copy.e)'
    BY <1>1, <1>4, <1>5, <1>6 DEF FrameInv, RegisteredIn
  <2>2. th'[t].plan # <<>> /\ (th[t].kind # "reg" => Registered(th[t].plan)')
    BY <1>1, <1>4, <1>5, <1>6, PlanFacts DEF FrameInv
  <2>3. th'[t].kind = "reg" => \A u \in Threads : u # t => th'[u].pc = "idle"
    BY <1>1, <1>5, <1>6 DEF FrameInv
  <2> QED BY <1>1, <1>4, <1>5, <1>6, <1>8, <2>1, <2>2, <2>3 DEF FrameInv, WithoutBuffer
<1>10. DataOK' BY <1>1, <1>4, <1>6, <1>7 DEF DataOK
<1>11. FitInv' BY <1>3, <1>4, <1>7 DEF Inv, FitInv, Fits, Size
<1>12. ChannelInv' BY <1>4 DEF Inv, ChannelInv
<1>13. FramesInv' BY <1>1, <1>4, <1>6, <1>9, FramesStep DEF Inv
<1>14. BlockInv'
  <2>1. \A x \in Blocks : RegisteredIn(block[x].e)' BY <1>4 DEF Inv, BlockInv, RegisteredIn
  <2> QED BY <1>4, <1>5, <1>6, <2>1, BlockStep DEF Inv
<1>15. PlaceInv' /\ CountInv' /\ \A x : InFree(x)' <=> InFree(x)
  <2>1. \A u \in Threads : th'[u].buf = th[u].buf BY <1>5, <1>6
  <2> QED BY <1>1, <1>4, <2>1, SamePlaces DEF Inv
<1>16. TrackerInv'
  <2> SUFFICES ASSUME NEW x \in Buffers, NEW c \in DOMAIN tracker'[x].e
               PROVE  /\ Gpu(c) = x[1]
                      /\ InFree(x)' \/ \E u \in Threads : th'[u].pc = "alloc" /\ th'[u].buf = x
    BY DEF TrackerInv
  <2>1. x # b BY <1>3, <1>7, EmptyFacts
  <2>2. /\ Gpu(c) = x[1]
        /\ InFree(x) \/ \E u \in Threads : th[u].pc = "alloc" /\ th[u].buf = x
    BY <1>7, <2>1 DEF Inv, TrackerInv
  <2>3. \A u \in Threads : th[u].buf = x => u # t BY <2>1
  <2> QED BY <1>6, <1>15, <2>2, <2>3
<1>17. StagedInv'
  <2>1. \A c \in Channels : \A p \in InFlight(c) : p.buf \in Buffers BY InFlightFacts DEF Inv
  <2>2. \A c \in Channels : \A p \in InFlight(c) : ~Covers(tracker[b].e, c, p.v) /\ ~Owns(t, c, p)
    BY <1>1, <1>2, <1>4, NotInFlight DEF Inv, Owns, Current, Pushed
  <2> QED BY <1>4, <1>6, <1>7, <2>1, <2>2, StagedStep DEF Inv
<1>18. CoverInv'
  <2>1. ASSUME NEW c \in Channels, NEW p \in InFlight(c), p.block = th[t].block, CallCovers(t, c, p)
        PROVE  CallCovers(t, c, p)' /\ th'[t].block = p.block
    <3>1. BlockCovers(c, p) <=> BlockCovers(c, p)' BY <1>4 DEF BlockCovers
    <3>2. ~Current(t, c, p) BY <1>1 DEF Current, Pushed
    <3> QED BY <1>1, <1>5, <1>6, <2>1, <3>1, <3>2 DEF CallCovers
  <2> QED BY <1>1, <1>4, <1>5, <1>6, <2>1, CoverStep DEF Inv
<1>19. CopiesOrdered' BY <1>4 DEF Inv, CopiesOrdered, InFlight
<1> QED BY <1>10, <1>11, <1>12, <1>13, <1>14, <1>15, <1>16, <1>17, <1>18, <1>19 DEF Inv

LEMMA RegisterEndInv ==
    ASSUME Inv, NEW t \in Threads, RegisterEnd(t)
    PROVE  Inv'
<1>1. th[t].pc = "peers" /\ th[t] \in Frames /\ FrameInv(t) /\ DataOK /\ th[t].kind = "reg"
  BY CallFacts DEF RegisterEnd, Inv, FramesInv, FrameInv
<1>2. /\ th' = [th EXCEPT ![t] = Idle]
      /\ \/ lost' = lost \cup {th[t].buf} /\ UNCHANGED reg
         \/ reg' = [reg EXCEPT ![Gpu(Channel(t))] = th[t].buf] /\ UNCHANGED lost
      /\ failures' = failures \/ failures' = failures + 1
      /\ UNCHANGED <<pool, tracker, block, channelVars, fatal, calls, registers>>
  BY DEF RegisterEnd
<1>3. /\ th[t].buf \in Buffers /\ th[t].buf[1] = Gpu(Channel(t)) /\ th[t].block = None
      /\ reg[Gpu(Channel(t))] = None /\ \A u \in Threads : u # t => th[u].pc = "idle"
  BY <1>1 DEF FrameInv, WithBuffer
<1>4. th'[t] = Idle /\ th' \in [Threads -> Frames] /\ \A u \in Threads : u # t => th'[u] = th[u]
  BY <1>1, <1>2, IdleType, OnlyOne
<1>5. \A u \in Threads : th'[u] = Idle BY <1>3, <1>4 DEF Inv, FramesInv, FrameInv
<1>6. FramesInv' BY <1>5, IdleFrame DEF FramesInv
<1>7. BlockInv'
  <2>1. \A u \in Threads : th'[u].block = None BY <1>5, IdleType
  <2>2. reg \in [Gpus -> Buffers \cup {None}] /\ th[t].buf # None BY <1>1, <1>3, Names DEF DataOK
  <2>3. \A h \in Gpus : reg[h] # None => reg'[h] # None BY <1>2, <2>2
  <2>4. ASSUME NEW b \in Blocks PROVE RegisteredIn(block[b].e)'
    <3>1. block[b].e \in Entries BY <1>1 DEF DataOK, Trackers
    <3>2. \A c \in DOMAIN block[b].e : Gpu(c) \in Gpus BY <3>1, EntriesFacts, Names
    <3> QED BY <1>2, <2>3, <3>2 DEF Inv, BlockInv, RegisteredIn
  <2> QED BY <2>1, <2>4 DEF BlockInv
<1>8. /\ registers' \in Nat /\ failures' \in Nat /\ fatal' \in BOOLEAN /\ (fatal => fatal')
      /\ UNCHANGED <<pool, tracker, block, channelVars, calls>>
  BY <1>1, <1>2 DEF DataOK
<1>9. \A c \in Channels : \A p \in InFlight(c) : p.block # None BY InFlightFacts, Names DEF Inv
<1>10. th'[t].pc \in WithoutBuffer /\ th'[t].block = None BY <1>4, IdleType DEF WithoutBuffer
<1>11. th[t].pc \in WithBuffer \ (Pushed \cup {"alloc"}) BY <1>1 DEF WithBuffer, Pushed
<1>12. \/ lost' = lost \cup {th[t].buf} /\ UNCHANGED reg
       \/ /\ reg[th[t].buf[1]] = None /\ reg' = [reg EXCEPT ![th[t].buf[1]] = th[t].buf]
          /\ UNCHANGED lost
  BY <1>2, <1>3
<1> QED BY <1>3, <1>4, <1>6, <1>7, <1>8, <1>9, <1>10, <1>11, <1>12, PutAwayStep

\* The entries that a push acquires.
LEMMA AcquiresFacts ==
    ASSUME completed \in [Channels -> Nat], NEW tr \in Trackers, NEW c \in Channels
    PROVE  /\ Acquires(tr, c) \in Entries
           /\ \A d \in Channels, v \in Nat :
                d # c /\ completed[d] < v /\ Covers(tr.e, d, v) =>
                  d \in Pending(tr) /\ Covers(Acquires(tr, c), d, v)
<1> DEFINE S == Pending(tr) \ {c}
           a == Restrict(tr.e, S)
<1>1. tr.e \in Entries BY DEF Trackers
<1>2. DOMAIN tr.e \in SUBSET Channels /\ \A x \in DOMAIN tr.e : tr.e[x] \in Nat BY <1>1, EntriesFacts
<1>3. S \subseteq DOMAIN tr.e BY DEF Pending
<1>4. DOMAIN a = S /\ \A x \in S : a[x] = tr.e[x] BY DEF Restrict
<1>5. a \in Entries
  <2>1. a \in [S -> Nat] BY <1>2, <1>3, <1>4 DEF Restrict
  <2>2. S \in SUBSET Channels BY <1>2, <1>3
  <2> HIDE DEF a, S
  <2> QED BY <2>1, <2>2, EntriesType
<1>6. ASSUME NEW d \in Channels, NEW v \in Nat, d # c, completed[d] < v, Covers(tr.e, d, v)
      PROVE  d \in Pending(tr) /\ Covers(a, d, v)
  <2>1. d \in DOMAIN tr.e /\ tr.e[d] >= v /\ tr.e[d] \in Nat /\ completed[d] \in Nat BY <1>2, <1>6 DEF Covers
  <2>2. d \in Pending(tr) BY <1>6, <2>1 DEF Pending
  <2> QED BY <1>4, <1>6, <2>1, <2>2 DEF Covers
<1> QED BY <1>5, <1>6 DEF Acquires

LEMMA PushInv ==
    ASSUME Inv, NEW t \in Threads, Push(t)
    PROVE  Inv'
<1> USE DEF channelVars, bounds
<1>1. th[t].pc = "push" /\ Channel(t) \in Channels BY CallFacts DEF Push
<1>2. PICK c0 \in Channels : c0 = Channel(t) BY <1>1
<1> DEFINE tr == Acquired(t)
           w == queued[c0] + 1
           b == th[t].block
           q0 == [v |-> w, call |-> th[t].call, block |-> b, buf |-> th[t].buf, deps |-> Acquires(tr, c0)]
           s == pending[c0]
           f == [th[t] EXCEPT !.v = w, !.loc = Empty,
                              !.pc = IF th[t].kind = "copy" /\ c0[2] = "c2g" THEN "add" ELSE "finish"]
<1>3. PICK q : q = q0 OBVIOUS
<1>4. /\ th[t].pc = "push" /\ th[t] \in Frames /\ FrameInv(t) /\ DataOK /\ th[t].kind \in {"copy", "util"}
      /\ th[t].call \in Nat /\ th[t].call <= calls
  BY CallFacts, FrameTypes DEF Push, Inv, FramesInv, FrameInv
<1>5. /\ c0 \in Channels /\ b \in Blocks /\ block[b] \in Trackers /\ Fits(block[b]) /\ th[t].plan # <<>>
      /\ th[t].buf \in Buffers /\ th[t].buf[1] = Gpu(c0) /\ th[t].loc \in Trackers
  BY <1>4, <1>2, CallFacts, FrameTypes DEF FrameInv, WithBuffer
<1>6. tr \in Trackers BY <1>5 DEF Acquired
<1>7. /\ queued \in [Channels -> Nat] /\ completed \in [Channels -> Nat] /\ pending \in [Channels -> Seq(Pushes)]
      /\ s \in Seq(Pushes) /\ w \in Nat /\ queued[c0] = completed[c0] + Len(s)
      /\ completed[c0] \in Nat /\ Len(s) \in Nat /\ DOMAIN s = 1 .. Len(s)
  <2>1. s \in Seq(Pushes) /\ queued[c0] \in Nat BY <1>4, <1>5 DEF DataOK
  <2>2. Len(s) \in Nat /\ DOMAIN s = 1 .. Len(s) BY <2>1, LenProperties
  <2>3. queued[c0] = completed[c0] + Len(s) BY DEF Inv, ChannelInv
  <2>4. queued \in [Channels -> Nat] /\ completed \in [Channels -> Nat] /\ pending \in [Channels -> Seq(Pushes)]
    BY <1>4 DEF DataOK
  <2> HIDE DEF s
  <2> QED BY <2>1, <2>2, <2>3, <2>4
<1>8. q \in Pushes /\ q.v = w /\ q.call = th[t].call /\ q.block = b /\ q.buf = th[t].buf
      /\ q.deps = Acquires(tr, c0)
  <2>1. Acquires(tr, c0) \in Entries BY <1>5, <1>6, <1>7, AcquiresFacts
  <2> HIDE DEF w, tr, b
  <2> QED BY <1>4, <1>5, <1>7, <1>3, <2>1 DEF Pushes
<1>9. /\ f \in Frames /\ f.pc \in {"add", "finish"} /\ f.kind = th[t].kind /\ f.block = b
      /\ f.buf = th[t].buf /\ f.plan = th[t].plan /\ f.loc = Empty /\ f.copy = th[t].copy
      /\ f.call = th[t].call /\ f.v = w
      /\ f.pc = "add" => th[t].kind = "copy"
      /\ f.pc = "finish" \/ (th[t].kind = "copy" /\ c0[2] = "c2g")
  <2> HIDE DEF w
  <2> QED BY <1>4, <1>7, EmptyFacts DEF Frames, WithBuffer, Pushed
<1>10. /\ OthersDone(tr, Gpu(c0)) /\ queued' = [queued EXCEPT ![c0] = w]
       /\ pending' = [pending EXCEPT ![c0] = Append(s, q)]
       /\ block' = IF th[t].kind = "util"
                   THEN [block EXCEPT ![b] = uvm_tracker_remove_completed(@)] ELSE block
       /\ th' = [th EXCEPT ![t] = f]
       /\ UNCHANGED <<pool, tracker, reg, lost, completed, failed, fatal, bounds>>
  BY <1>4, <1>5, <1>7, <1>2, <1>3 DEF Push, DataOK
<1> HIDE DEF f, w
<1>11. th'[t] = f /\ th' \in [Threads -> Frames] /\ \A u \in Threads : u # t => th'[u] = th[u]
  BY <1>4, <1>9, <1>10, OnlyOne
<1>12. /\ Append(s, q) \in Seq(Pushes) /\ Len(Append(s, q)) = Len(s) + 1
       /\ DOMAIN Append(s, q) = 1 .. Len(s) + 1
       /\ \A i \in 1 .. Len(s) : Append(s, q)[i] = s[i]
       /\ Append(s, q)[Len(s) + 1] = q
  <2>1. /\ Append(s, q) \in Seq(Pushes) /\ Len(Append(s, q)) = Len(s) + 1
        /\ \A i \in 1 .. Len(s) : Append(s, q)[i] = s[i] /\ Append(s, q)[Len(s) + 1] = q
    BY <1>7, <1>8, AppendProperties
  <2>2. Append(s, q)[Len(s) + 1] = q BY <1>7, <1>8, AppendProperties
  <2> QED BY <2>1, <2>2, LenProperties
<1> DEFINE z == Append(s, q)
<1> HIDE DEF z
<1>13. /\ pending'[c0] = z /\ pending' \in [Channels -> Seq(Pushes)]
       /\ \A c \in Channels : c # c0 => pending'[c] = pending[c]
       /\ queued' \in [Channels -> Nat] /\ queued'[c0] = w
       /\ \A c \in Channels : c # c0 => queued'[c] = queued[c]
  BY <1>5, <1>7, <1>10, <1>12 DEF z
<1>14. \A c \in Channels : InFlight(c)' = InFlight(c) \cup (IF c = c0 THEN {q} ELSE {})
  <2>1. ASSUME NEW c \in Channels, c # c0 PROVE InFlight(c)' = InFlight(c) BY <1>13, <2>1 DEF InFlight
  <2>2. InFlight(c0)' = InFlight(c0) \cup {q}
    <3>1. \A x : x \in Range(z) <=> x \in Range(s) \/ x = q
      <4>1. ASSUME NEW x, x \in Range(z) PROVE x \in Range(s) \/ x = q
        <5>1. PICK i \in DOMAIN z : x = z[i] BY <4>1 DEF Range
        <5>2. i \in 1 .. Len(s) \/ i = Len(s) + 1 BY <1>7, <1>12, <5>1 DEF z
        <5> QED BY <1>7, <1>12, <5>1, <5>2 DEF Range, z
      <4>2. ASSUME NEW x, x \in Range(s) PROVE x \in Range(z)
        <5>1. PICK i \in DOMAIN s : x = s[i] BY <4>2 DEF Range
        <5>2. i \in DOMAIN z /\ z[i] = s[i] BY <1>7, <1>12, <5>1 DEF z
        <5> QED BY <5>1, <5>2 DEF Range
      <4>3. q \in Range(z)
        <5>1. Len(s) + 1 \in DOMAIN z /\ z[Len(s) + 1] = q BY <1>7, <1>12 DEF z
        <5> QED BY <5>1 DEF Range
      <4> QED BY <4>1, <4>2, <4>3
    <3> QED BY <1>13, <3>1 DEF InFlight
  <2> QED BY <2>1, <2>2
<1>15. /\ block' \in [Blocks -> Trackers] /\ \A x \in Blocks : x # b => block'[x] = block[x]
       /\ Fits(block'[b]) /\ DOMAIN block'[b].e \subseteq DOMAIN block[b].e
       /\ \A c, v : c \in Channels /\ v \in Nat /\ completed[c] < v /\ Covers(block[b].e, c, v)
                      => Covers(block'[b].e, c, v)
  <2>1. CASE th[t].kind = "util"
    <3> DEFINE r == uvm_tracker_remove_completed(block[b])
    <3>1. /\ r \in Trackers /\ Fits(r) /\ DOMAIN r.e \subseteq DOMAIN block[b].e
          /\ \A c, v : c \in Channels /\ v \in Nat /\ completed[c] < v /\ Covers(block[b].e, c, v)
                         => Covers(r.e, c, v)
      BY <1>5, <1>7, RemoveFacts
    <3>2. block' = [block EXCEPT ![b] = r] BY <1>4, <1>5, <1>10, <2>1 DEF DataOK
    <3> HIDE DEF r
    <3>3. block'[b] = r BY <1>4, <1>5, <3>2 DEF DataOK
    <3> QED BY <1>4, <1>5, <3>1, <3>2, <3>3 DEF DataOK
  <2>2. CASE th[t].kind # "util" BY <1>4, <1>5, <1>10, <2>2 DEF DataOK
  <2> QED BY <2>1, <2>2
<1>16. \A c, p : c \in Channels /\ p \in InFlight(c) /\ BlockCovers(c, p) => BlockCovers(c, p)'
  <2> SUFFICES ASSUME NEW c \in Channels, NEW p \in InFlight(c), BlockCovers(c, p) PROVE BlockCovers(c, p)'
    OBVIOUS
  <2>1. p.v \in Nat /\ completed[c] < p.v /\ p.block \in Blocks BY InFlightFacts DEF Inv
  <2> QED BY <1>15, <2>1 DEF BlockCovers
<1>17. DataOK' BY <1>4, <1>10, <1>11, <1>13, <1>15 DEF DataOK
<1>18. FitInv' BY <1>10, <1>15 DEF Inv, FitInv, Fits, Size
<1>19. ChannelInv'
  <2> SUFFICES ASSUME NEW c \in Channels
               PROVE  /\ queued'[c] = completed[c] + Len(pending'[c])
                      /\ \A i \in DOMAIN pending'[c] : /\ pending'[c][i].v = completed[c] + i
                                                       /\ pending'[c][i].buf[1] = Gpu(c)
                                                       /\ pending'[c][i].call <= calls
    BY <1>10 DEF ChannelInv
  <2>1. CASE c # c0 BY <1>13, <2>1 DEF Inv, ChannelInv
  <2>2. CASE c = c0
    <3>1. queued'[c] = completed[c] + Len(pending'[c])
      <4>1. Len(z) = Len(s) + 1 BY <1>12 DEF z
      <4>2. w = completed[c0] + (Len(s) + 1)
        <5> HIDE DEF s
        <5> QED BY <1>7 DEF w
      <4> QED BY <1>13, <2>2, <4>1, <4>2
    <3>2. ASSUME NEW i \in 1 .. Len(s)
          PROVE  z[i].v = completed[c] + i /\ z[i].buf[1] = Gpu(c) /\ z[i].call <= calls
      BY <1>5, <1>7, <1>12, <2>2 DEF Inv, ChannelInv, z
    <3>3. /\ z[Len(s) + 1].v = completed[c] + (Len(s) + 1) /\ z[Len(s) + 1].buf[1] = Gpu(c)
          /\ z[Len(s) + 1].call <= calls
      <4>1. z[Len(s) + 1] = q BY <1>12 DEF z
      <4>2. q.v = completed[c] + (Len(s) + 1) BY <1>7, <1>8, <2>2 DEF w
      <4> QED BY <1>4, <1>5, <1>8, <2>2, <4>1, <4>2
    <3>4. DOMAIN z = 1 .. Len(s) + 1 BY <1>12 DEF z
    <3>5. \A i \in DOMAIN z : i \in 1 .. Len(s) \/ i = Len(s) + 1 BY <1>7, <3>4
    <3> QED BY <1>13, <2>2, <3>1, <3>2, <3>3, <3>5
  <2> QED BY <2>1, <2>2
<1>20. Channel(t)' = c0 BY <1>9, <1>11, <1>2 DEF Channel
<1>21. FrameInv(t)'
  <2>1. RegisteredIn(th[t].loc.e)' /\ RegisteredIn(th[t].copy.e)'
    BY <1>4, <1>9, <1>10, <1>11, EmptyFacts DEF FrameInv, RegisteredIn
  <2>2. th'[t].plan # <<>> /\ Registered(th[t].plan)' BY <1>4, <1>9, <1>10, <1>11, PlanFacts
  <2>3. th'[t].buf \in Buffers /\ th'[t].buf[1] = Gpu(Channel(t))' BY <1>5, <1>9, <1>11, <1>20
  <2> HIDE DEF b
  <2> QED BY <1>4, <1>5, <1>9, <1>10, <1>11, <2>1, <2>2, <2>3 DEF FrameInv, WithoutBuffer
<1>22. FramesInv' BY <1>4, <1>10, <1>11, <1>21, FramesStep DEF Inv
<1>23. BlockInv'
  <2>1. RegisteredIn(block[b].e) BY <1>5 DEF Inv, BlockInv
  <2>2. \A x \in Blocks : x = b => RegisteredIn(block[x].e)' BY <1>10, <1>15, <2>1 DEF RegisteredIn
  <2> QED BY <1>9, <1>10, <1>11, <1>15, <2>2, BlockStep DEF Inv
<1>24. PlaceInv' /\ CountInv' /\ \A x : InFree(x)' <=> InFree(x)
  <2>1. \A u \in Threads : th'[u].buf = th[u].buf BY <1>9, <1>11
  <2> QED BY <1>4, <1>10, <2>1, SamePlaces DEF Inv
<1>25. TrackerInv'
  <2>1. \A u \in Threads : th[u].pc = "alloc" => th'[u] = th[u] BY <1>4, <1>11
  <2> QED BY <1>10, <1>24, <2>1 DEF Inv, TrackerInv
<1>26. Current(t, c0, q)' BY <1>8, <1>9, <1>11, <1>20 DEF Current, Pushed
<1>27. StagedInv'
  <2>1. fatal' \/ \A c \in Channels : \A p \in InFlight(c) :
           \/ Covers(tracker'[p.buf].e, c, p.v)
           \/ \E u \in Threads : Owns(u, c, p)'
    <3>1. \A c \in Channels : \A p \in InFlight(c) : ~Owns(t, c, p) BY <1>4 DEF Owns, Current, Pushed
    <3> QED BY <1>10, <1>11, <3>1, StagedStep DEF Inv
  <2>2. Owns(t, c0, q)'
    <3>1. OwnPush(t, c0, q)' BY <1>4, <1>8, <1>9, <1>11, <1>20 DEF OwnPush
    <3> QED BY <1>8, <1>9, <1>11, <1>26, <3>1 DEF Owns
  <2> QED BY <1>10, <1>14, <2>1, <2>2 DEF StagedInv
<1>28. CoverInv'
  <2>1. ASSUME NEW c \in Channels, NEW p \in InFlight(c), p.block = th[t].block, CallCovers(t, c, p)
        PROVE  CallCovers(t, c, p)' /\ th'[t].block = p.block
    <3>1. BlockCovers(c, p) => BlockCovers(c, p)' BY <1>16
    <3>2. ~Current(t, c, p) BY <1>4 DEF Current, Pushed
    <3> QED BY <1>9, <1>11, <2>1, <3>1, <3>2 DEF CallCovers
  <2>2. fatal' \/ \A c \in Channels : \A p \in InFlight(c) :
           /\ \A u \in Threads : th'[u].block = p.block => CallCovers(u, c, p)'
           /\ (\A u \in Threads : th'[u].block # p.block) => BlockCovers(c, p)'
    BY <1>4, <1>9, <1>10, <1>11, <1>15, <2>1, CoverStep DEF Inv
  <2>3. CallCovers(t, c0, q)' BY <1>8, <1>9, <1>11, <1>26 DEF CallCovers
  <2>4. \A u \in Threads : th'[u].block = q.block <=> u = t
    <3>1. \A u \in Threads : th[u].block = b => u = t BY <1>5, Names DEF Inv, BlockInv
    <3> QED BY <1>8, <1>9, <1>11, <3>1
  <2> QED BY <1>10, <1>14, <2>2, <2>3, <2>4 DEF CoverInv
<1>29. CopiesOrdered'
  <2> SUFFICES ASSUME ~fatal, NEW c \in Channels, NEW d \in Channels, c # d,
                      NEW p \in InFlight(c)', NEW x \in InFlight(d)', p.block = x.block, p.call # x.call
               PROVE  /\ Gpu(c) = Gpu(d)
                      /\ Covers(p.deps, d, x.v) \/ Covers(x.deps, c, p.v)
    BY <1>10 DEF CopiesOrdered, Covers
  <2>1. ASSUME NEW e \in Channels, e # c0, NEW y \in InFlight(e), y.block = b, y.call # th[t].call
        PROVE  Gpu(e) = Gpu(c0) /\ Covers(q.deps, e, y.v)
    <3>1. y.v \in Nat /\ completed[e] < y.v BY InFlightFacts DEF Inv
    <3>2. CallCovers(t, e, y) BY <2>1 DEF Inv, CoverInv
    <3>3. Covers(tr.e, e, y.v)
      <4>1. CASE th[t].kind = "util" BY <2>1, <3>2, <4>1 DEF CallCovers, BlockCovers, Acquired
      <4>2. CASE th[t].kind = "copy" BY <1>4, <2>1, <3>2, <4>2 DEF CallCovers, Acquired
      <4> QED BY <1>4, <4>1, <4>2
    <3>4. e \in Pending(tr) /\ Covers(Acquires(tr, c0), e, y.v)
      BY <1>5, <1>6, <1>7, <2>1, <3>1, <3>3, AcquiresFacts
    <3>5. Gpu(e) = Gpu(c0) BY <1>10, <3>4 DEF OthersDone
    <3> QED BY <1>8, <3>4, <3>5
  <2>2. CASE p \in InFlight(c) /\ x \in InFlight(d)
    BY <2>2 DEF Inv, CopiesOrdered, Covers
  <2>3. CASE p \notin InFlight(c)
    <3>1. c = c0 /\ p = q BY <1>14, <2>3
    <3>2. x \in InFlight(d) BY <1>14, <3>1
    <3> QED BY <1>8, <2>1, <3>1, <3>2
  <2>4. CASE x \notin InFlight(d)
    <3>1. d = c0 /\ x = q BY <1>14, <2>4
    <3>2. p \in InFlight(c) BY <1>14, <3>1
    <3> QED BY <1>8, <2>1, <3>1, <3>2
  <2> QED BY <2>2, <2>3, <2>4
<1> QED BY <1>17, <1>18, <1>19, <1>22, <1>23, <1>24, <1>25, <1>27, <1>28, <1>29 DEF Inv

-----------------------------------------------------------------------------
(* The other steps.                                                        *)

LEMMA PlanTypes ==
    ASSUME NEW p \in Plans
    PROVE  p \in Seq(Channels) /\ p # <<>>
BY PlansAssumption

LEMMA StartInv ==
    ASSUME Inv, NEW t \in Threads, NEW b \in Blocks, NEW plan \in Plans, NEW kind \in {"copy", "util"},
           Start(t, b, plan, kind)
    PROVE  Inv'
<1> USE DEF channelVars, bounds
<1> DEFINE f == [Idle EXCEPT !.pc = IF kind = "util" THEN "take" ELSE "begin",
                             !.kind = kind, !.block = b, !.plan = plan, !.call = calls + 1]
<1>1. /\ DataOK /\ th[t].pc = "idle" /\ th[t] = Idle /\ calls' = calls + 1 /\ th' = [th EXCEPT ![t] = f]
      /\ UNCHANGED <<pool, tracker, block, reg, lost, channelVars, fatal, registers, failures>>
      /\ Registered(plan) /\ (\A u \in Threads : th[u].block # b) /\ ~Registering
  BY DEF Start, Inv, FramesInv, FrameInv
<1>2. calls \in Nat /\ plan \in Seq(Channels) /\ plan # <<>> BY <1>1, PlanTypes DEF DataOK
<1>3. /\ f \in Frames /\ f.pc = (IF kind = "util" THEN "take" ELSE "begin") /\ f.kind = kind
      /\ f.block = b /\ f.plan = plan /\ f.call = calls + 1 /\ f.buf = None /\ f.loc = Empty /\ f.copy = Empty
  <2> DEFINE i == Idle
  <2>1. i \in Frames /\ i.buf = None /\ i.loc = Empty /\ i.copy = Empty BY IdleType
  <2> HIDE DEF i
  <2>2. f = [i EXCEPT !.pc = IF kind = "util" THEN "take" ELSE "begin",
                      !.kind = kind, !.block = b, !.plan = plan, !.call = calls + 1]
    BY DEF i
  <2>3. f \in Frames
    <3>1. (IF kind = "util" THEN "take" ELSE "begin") \in WithoutBuffer BY DEF WithoutBuffer
    <3>2. b \in Blocks \cup {None} /\ calls + 1 \in Nat /\ kind \in {"copy", "util", "reg"} BY <1>2
    <3> QED BY <1>2, <2>1, <2>2, <3>1, <3>2 DEF Frames
  <2> HIDE DEF f
  <2> QED BY <2>1, <2>2, <2>3 DEF Frames
<1> HIDE DEF f
<1>4. th'[t] = f /\ th' \in [Threads -> Frames] /\ \A u \in Threads : u # t => th'[u] = th[u]
  BY <1>1, <1>3, OnlyOne
<1>5. th[t].buf = None /\ th[t].block = None /\ b # None BY <1>1, IdleType, Names
<1>6. DataOK' BY <1>1, <1>2, <1>4 DEF DataOK
<1>7. FitInv' BY <1>1 DEF Inv, FitInv, Fits, Size
<1>8. ChannelInv'
  <2> SUFFICES ASSUME NEW c \in Channels, NEW i \in DOMAIN pending[c] PROVE pending[c][i].call <= calls + 1
    BY <1>1 DEF Inv, ChannelInv
  <2>1. pending[c][i] \in InFlight(c) BY DEF InFlight, Range
  <2>2. pending[c][i].call \in Nat /\ pending[c][i].call <= calls BY <2>1, InFlightFacts DEF Inv
  <2> QED BY <1>2, <2>2
<1>9. FramesInv'
  <2> SUFFICES ASSUME NEW u \in Threads PROVE FrameInv(u)' BY DEF FramesInv
  <2>1. CASE u = t
    <3>1. RegisteredIn(th[t].loc.e)' /\ RegisteredIn(th[t].copy.e)'
      BY <1>3, <1>4, EmptyFacts DEF RegisteredIn
    <3>2. Registered(th[t].plan)' BY <1>1, <1>3, <1>4 DEF Registered
    <3> QED BY <1>1, <1>2, <1>3, <1>4, <2>1, <3>1, <3>2 DEF FrameInv, WithBuffer, WithoutBuffer, Pushed
  <2>2. CASE u # t
    <3>1. FrameInv(u) /\ th'[u] = th[u] /\ th[u].call \in Nat BY <1>1, <1>4, <2>2, FrameTypes DEF Inv, FramesInv
    <3>2. th[u].kind # "reg" BY <1>1, <3>1 DEF FrameInv, Registering
    <3>3. Channel(u)' = Channel(u) BY <3>1 DEF Channel
    <3>4. th[u].call <= calls => th[u].call <= calls' BY <1>1, <1>2, <3>1
    <3> QED BY <1>1, <3>1, <3>2, <3>3, <3>4 DEF FrameInv, Registered, RegisteredIn
  <2> QED BY <2>1, <2>2
<1>10. BlockInv'
  <2>1. \A x \in Blocks : RegisteredIn(block[x].e)' BY <1>1 DEF Inv, BlockInv, RegisteredIn
  <2>2. \A u, w \in Threads : th'[u].block # None /\ th'[u].block = th'[w].block => u = w
    BY <1>1, <1>3, <1>4 DEF Inv, BlockInv
  <2> QED BY <2>1, <2>2 DEF BlockInv
<1>11. PlaceInv' /\ CountInv' /\ \A x : InFree(x)' <=> InFree(x)
  <2>1. \A u \in Threads : th'[u].buf = th[u].buf BY <1>3, <1>4, <1>5
  <2> QED BY <1>1, <2>1, SamePlaces DEF Inv
<1>12. TrackerInv'
  <2>1. \A u \in Threads : th[u].pc = "alloc" => th'[u] = th[u] BY <1>1, <1>4
  <2> QED BY <1>1, <1>11, <2>1 DEF Inv, TrackerInv
<1>13. StagedInv'
  <2>1. \A c, p : ~Owns(t, c, p) BY <1>1 DEF Owns, Current, Pushed
  <2> QED BY <1>1, <1>4, <2>1, StagedStep DEF Inv
<1>14. CoverInv'
  <2> SUFFICES ASSUME ~fatal, NEW c \in Channels, NEW p \in InFlight(c)
               PROVE  /\ \A u \in Threads : th'[u].block = p.block => CallCovers(u, c, p)'
                      /\ (\A u \in Threads : th'[u].block # p.block) => BlockCovers(c, p)'
    <3>1. \A d \in Channels : InFlight(d)' = InFlight(d) BY <1>1 DEF InFlight
    <3> QED BY <1>1, <3>1 DEF CoverInv
  <2>1. BlockCovers(c, p)' <=> BlockCovers(c, p) BY <1>1 DEF BlockCovers
  <2>2. /\ p.call \in Nat /\ p.call <= calls /\ p.block \in Blocks /\ p.block # None
    BY InFlightFacts, Names DEF Inv
  <2>3. ASSUME NEW u \in Threads, th'[u].block = p.block PROVE CallCovers(u, c, p)'
    <3>1. CASE u = t
      <4>1. BlockCovers(c, p) BY <1>1, <1>3, <1>4, <2>3, <3>1 DEF Inv, CoverInv
      <4>2. p.call # th'[t].call BY <1>2, <1>3, <1>4, <2>2
      <4> QED BY <1>3, <1>4, <2>1, <3>1, <4>1, <4>2 DEF CallCovers
    <3>2. CASE u # t
      <4>1. th'[u] = th[u] /\ CallCovers(u, c, p) BY <1>4, <2>3, <3>2 DEF Inv, CoverInv
      <4>2. Current(u, c, p)' <=> Current(u, c, p) BY <4>1 DEF Current, Channel
      <4> QED BY <2>1, <4>1, <4>2 DEF CallCovers
    <3> QED BY <3>1, <3>2
  <2>4. ASSUME \A u \in Threads : th'[u].block # p.block PROVE BlockCovers(c, p)'
    <3>1. \A u \in Threads : th[u].block # p.block BY <1>4, <1>5, <2>2, <2>4
    <3> QED BY <2>1, <3>1 DEF Inv, CoverInv
  <2> QED BY <2>3, <2>4
<1>15. CopiesOrdered' BY <1>1 DEF Inv, CopiesOrdered, InFlight
<1> QED BY <1>6, <1>7, <1>8, <1>9, <1>10, <1>11, <1>12, <1>13, <1>14, <1>15 DEF Inv

LEMMA ExecuteInv ==
    ASSUME Inv, NEW c \in Channels, Execute(c)
    PROVE  Inv'
<1> USE DEF channelVars, bounds
<1> DEFINE s == pending[c]
<1>1. /\ DataOK /\ s # <<>> /\ completed' = [completed EXCEPT ![c] = Head(s).v]
      /\ pending' = [pending EXCEPT ![c] = Tail(s)]
      /\ UNCHANGED <<pool, tracker, block, th, reg, lost, queued, failed, fatal, bounds>>
  BY DEF Execute, Inv, DataOK
<1>2. /\ s \in Seq(Pushes) /\ completed[c] \in Nat /\ queued[c] \in Nat
  BY <1>1 DEF DataOK
<1>3. /\ Len(s) \in Nat /\ DOMAIN s = 1 .. Len(s) /\ Len(s) # 0
      /\ Tail(s) \in Seq(Pushes) /\ Len(Tail(s)) = Len(s) - 1 /\ DOMAIN Tail(s) = 1 .. Len(Tail(s))
      /\ \A i \in 1 .. Len(Tail(s)) : Tail(s)[i] = s[i + 1]
      /\ Head(s) = s[1]
  BY <1>1, <1>2, LenProperties, EmptySeq, HeadTailProperties
<1>4. /\ queued[c] = completed[c] + Len(s)
      /\ \A i \in DOMAIN s : s[i].v = completed[c] + i /\ s[i].buf[1] = Gpu(c) /\ s[i].call <= calls
  BY DEF Inv, ChannelInv
<1> DEFINE n == Len(s)
           z == Tail(s)
<1>5. /\ n \in Nat /\ n # 0 /\ DOMAIN s = 1 .. n /\ Len(z) = n - 1 /\ DOMAIN z = 1 .. (n - 1)
      /\ z \in Seq(Pushes)
  BY <1>3
<1>6. \A i \in 1 .. (n - 1) : z[i] = s[i + 1] BY <1>3
<1> HIDE DEF n, z
<1>7. Head(s).v = completed[c] + 1
  <2>1. 1 \in DOMAIN s BY <1>5
  <2> QED BY <1>3, <1>4, <2>1
<1>8. /\ pending' \in [Channels -> Seq(Pushes)] /\ pending'[c] = z
      /\ \A d \in Channels : d # c => pending'[d] = pending[d]
      /\ completed' \in [Channels -> Nat] /\ completed'[c] = completed[c] + 1
      /\ \A d \in Channels : d # c => completed'[d] = completed[d]
  BY <1>1, <1>2, <1>5, <1>7 DEF DataOK, z
<1>9. \A i \in DOMAIN z : i + 1 \in DOMAIN s /\ z[i] = s[i + 1] /\ i \in Int BY <1>5, <1>6
<1>10. \A d \in Channels : InFlight(d)' \subseteq InFlight(d)
  <2>1. \A d \in Channels : d # c => InFlight(d)' = InFlight(d) BY <1>8 DEF InFlight
  <2>2. InFlight(c)' \subseteq InFlight(c) BY <1>8, <1>9 DEF InFlight, Range
  <2> QED BY <2>1, <2>2
<1>11. DataOK' BY <1>1, <1>8 DEF DataOK
<1>12. ChannelInv'
  <2> SUFFICES ASSUME NEW d \in Channels
               PROVE  /\ queued[d] = completed'[d] + Len(pending'[d])
                      /\ \A i \in DOMAIN pending'[d] : /\ pending'[d][i].v = completed'[d] + i
                                                       /\ pending'[d][i].buf[1] = Gpu(d)
                                                       /\ pending'[d][i].call <= calls
    BY <1>1 DEF ChannelInv
  <2>1. CASE d # c BY <1>8, <2>1 DEF Inv, ChannelInv
  <2>2. CASE d = c
    <3>1. queued[c] = completed[c] + n BY <1>4 DEF n
    <3>2. queued[c] = (completed[c] + 1) + (n - 1) BY <1>2, <1>5, <3>1
    <3>3. ASSUME NEW i \in DOMAIN z
          PROVE  z[i].v = (completed[c] + 1) + i /\ z[i].buf[1] = Gpu(c) /\ z[i].call <= calls
      <4>1. /\ z[i] = s[i + 1] /\ i \in Int /\ s[i + 1].v = completed[c] + (i + 1)
            /\ s[i + 1].buf[1] = Gpu(c) /\ s[i + 1].call <= calls
        BY <1>4, <1>9
      <4>2. \A k \in Nat : k + (i + 1) = (k + 1) + i
        <5>1. i \in Int BY <4>1
        <5> QED BY <5>1
      <4> QED BY <1>2, <4>1, <4>2
    <3> QED BY <1>5, <1>8, <2>2, <3>2, <3>3
  <2> QED BY <2>1, <2>2
<1>13. FitInv' BY <1>1 DEF Inv, FitInv, Fits, Size
<1>14. FramesInv'
  BY <1>1 DEF Inv, FramesInv, FrameInv, Channel, Registered, RegisteredIn
<1>15. BlockInv' BY <1>1 DEF Inv, BlockInv, RegisteredIn
<1>16. PlaceInv' /\ CountInv' /\ \A x : InFree(x)' <=> InFree(x) BY <1>1, SamePlaces DEF Inv
<1>17. TrackerInv' BY <1>1, <1>16 DEF Inv, TrackerInv
<1>18. StagedInv'
  BY <1>1, <1>10 DEF Inv, StagedInv, Owns, Current, OwnPush, Channel
<1>19. CoverInv'
  BY <1>1, <1>10 DEF Inv, CoverInv, CallCovers, BlockCovers, Current, Channel
<1>20. CopiesOrdered' BY <1>1, <1>10 DEF Inv, CopiesOrdered
<1> QED BY <1>11, <1>12, <1>13, <1>14, <1>15, <1>16, <1>17, <1>18, <1>19, <1>20 DEF Inv

\* A step that changes nothing the invariant is about.
LEMMA QuietInv ==
    ASSUME Inv, UNCHANGED <<pool, tracker, block, th, reg, lost, queued, completed, pending, fatal, calls>>,
           failed' \in [Channels -> BOOLEAN], registers' \in Nat, failures' \in Nat
    PROVE  Inv'
<1>1. DataOK' BY DEF Inv, DataOK
<1>2. FitInv' BY DEF Inv, FitInv, Fits, Size
<1>3. ChannelInv' BY DEF Inv, ChannelInv
<1>4. FramesInv' BY DEF Inv, FramesInv, FrameInv, Channel, Registered, RegisteredIn
<1>5. BlockInv' BY DEF Inv, BlockInv, RegisteredIn
<1>6. PlaceInv' /\ CountInv' /\ \A x : InFree(x)' <=> InFree(x) BY SamePlaces DEF Inv
<1>7. TrackerInv' BY <1>6 DEF Inv, TrackerInv
<1>8. StagedInv' BY DEF Inv, StagedInv, Owns, Current, OwnPush, Channel, InFlight
<1>9. CoverInv' BY DEF Inv, CoverInv, CallCovers, BlockCovers, Current, Channel, InFlight
<1>10. CopiesOrdered' BY DEF Inv, CopiesOrdered, InFlight
<1> QED BY <1>1, <1>2, <1>3, <1>4, <1>5, <1>6, <1>7, <1>8, <1>9, <1>10 DEF Inv

LEMMA FailChannelInv ==
    ASSUME Inv, NEW c \in Channels, FailChannel(c)
    PROVE  Inv'
<1>1. /\ failed' \in [Channels -> BOOLEAN] /\ registers' \in Nat /\ failures' \in Nat
      /\ UNCHANGED <<pool, tracker, block, th, reg, lost, queued, completed, pending, fatal, calls>>
  BY DEF FailChannel, Inv, DataOK
<1> QED BY <1>1, QuietInv

\* No call is running: every push in flight is in the trackers of its buffer, which is
\* free, and of its block.
LEMMA AllIdleFacts ==
    ASSUME Inv, AllIdle
    PROVE  /\ \A u \in Threads : /\ th[u] = Idle /\ th[u].pc = "idle" /\ th[u].buf = None
                                 /\ th[u].block = None
           /\ \A b \in Buffers : \A c \in DOMAIN tracker[b].e : InFree(b)
           /\ fatal \/ \A c \in Channels : \A p \in InFlight(c) :
                Covers(tracker[p.buf].e, c, p.v) /\ InFree(p.buf) /\ BlockCovers(c, p)
<1>1. \A u \in Threads : th[u] = Idle /\ th[u].pc = "idle" /\ th[u].buf = None /\ th[u].block = None
  BY IdleType DEF AllIdle, Inv, FramesInv, FrameInv
<1>2. \A b \in Buffers : \A c \in DOMAIN tracker[b].e : InFree(b) BY <1>1 DEF Inv, TrackerInv
<1>3. ASSUME ~fatal, NEW c \in Channels, NEW p \in InFlight(c)
      PROVE  Covers(tracker[p.buf].e, c, p.v) /\ InFree(p.buf) /\ BlockCovers(c, p)
  <2>1. p.block \in Blocks /\ p.buf \in Buffers /\ p.block # None BY InFlightFacts, Names DEF Inv
  <2>2. Covers(tracker[p.buf].e, c, p.v)
    BY <1>1, <1>3 DEF Inv, StagedInv, Owns, Current, Pushed
  <2>3. BlockCovers(c, p) BY <1>1, <1>3, <2>1 DEF Inv, CoverInv
  <2> QED BY <1>2, <2>1, <2>2, <2>3 DEF Covers
<1> QED BY <1>1, <1>2, <1>3

LEMMA RegisterGpuInv ==
    ASSUME Inv, NEW t \in Threads, NEW g \in Gpus, RegisterGpu(t, g)
    PROVE  Inv'
<1> USE DEF channelVars, bounds
<1> DEFINE f == [Idle EXCEPT !.pc = "take", !.kind = "reg", !.plan = << <<g, "c2g">> >>]
<1>1. /\ DataOK /\ AllIdle /\ reg[g] = None /\ th' = [th EXCEPT ![t] = f] /\ registers' = registers + 1
      /\ UNCHANGED <<tracker, block, reg, lost, channelVars, fatal, calls, failures>>
      /\ \/ pool[g].on /\ UNCHANGED pool
         \/ /\ ~pool[g].on /\ InitialBuffers[g] <= Cardinality(Fresh(g))
            /\ pool' = [pool EXCEPT ![g] = [on |-> TRUE, free |-> NewBuffers(g, InitialBuffers[g]),
                                            num |-> InitialBuffers[g]]]
  BY DEF RegisterGpu, Inv
<1>2. /\ f \in Frames /\ f.pc = "take" /\ f.kind = "reg" /\ f.block = None /\ f.buf = None
      /\ f.plan = << <<g, "c2g">> >> /\ f.loc = Empty /\ f.copy = Empty
  <2> DEFINE i == Idle
             p == << <<g, "c2g">> >>
  <2>1. i \in Frames /\ i.buf = None /\ i.loc = Empty /\ i.copy = Empty /\ i.block = None BY IdleType
  <2>2. p \in Seq(Channels)
    <3>1. <<g, "c2g">> \in Channels BY DEF Channels, Types
    <3> QED BY <3>1
  <2> HIDE DEF i, p
  <2>3. f = [i EXCEPT !.pc = "take", !.kind = "reg", !.plan = p] BY DEF i, p
  <2> HIDE DEF f
  <2>4. f \in Frames /\ f.pc = "take" /\ f.kind = "reg" /\ f.block = None /\ f.buf = None
        /\ f.plan = p /\ f.loc = Empty /\ f.copy = Empty
    BY <2>1, <2>2, <2>3 DEF Frames, WithoutBuffer
  <2> QED BY <2>4 DEF p
<1> HIDE DEF f
<1>3. th'[t] = f /\ th' \in [Threads -> Frames] /\ \A u \in Threads : u # t => th'[u] = th[u]
  BY <1>1, <1>2, OnlyOne
<1>4. \A u \in Threads : /\ th[u] = Idle /\ th[u].buf = None /\ th[u].block = None
                         /\ th'[u].buf = None /\ th'[u].block = None
  BY <1>1, <1>2, <1>3, AllIdleFacts
<1>5. \A u \in Threads : th'[u].pc \in {"idle", "take"} BY <1>1, <1>2, <1>3, AllIdleFacts
<1>6. /\ PlaceInv' /\ CountInv' /\ pool' \in [Gpus -> Pools] /\ pool'[g].on
      /\ \A x \in Buffers : InFree(x) => InFree(x)'
  <2>1. CASE pool[g].on /\ UNCHANGED pool
    <3>1. \A u \in Threads : th'[u].buf = th[u].buf BY <1>4
    <3> QED BY <1>1, <2>1, <3>1, SamePlaces DEF Inv, DataOK
  <2>2. CASE ~pool[g].on
    <3>1. InitialBuffers[g] \in Nat BY ConstantsAssumption
    <3> QED BY <1>1, <1>4, <2>2, <3>1, CreatePool DEF Inv
  <2> QED BY <1>1, <2>1, <2>2
<1>7. DataOK' BY <1>1, <1>3, <1>6 DEF DataOK
<1>8. FitInv' BY <1>1 DEF Inv, FitInv, Fits, Size
<1>9. ChannelInv' BY <1>1 DEF Inv, ChannelInv
<1>10. FramesInv'
  <2> SUFFICES ASSUME NEW u \in Threads PROVE FrameInv(u)' BY DEF FramesInv
  <2>1. CASE u # t BY <1>3, <1>4, <2>1, IdleFrame
  <2>2. CASE u = t
    <3>1. RegisteredIn(th[t].loc.e)' /\ RegisteredIn(th[t].copy.e)'
      BY <1>2, <1>3, EmptyFacts DEF RegisteredIn
    <3>2. \A w \in Threads : w # t => th'[w].pc = "idle" BY <1>3, <1>4, IdleType
    <3>3. th'[t].plan # <<>> /\ Channel(t)' = <<g, "c2g">> BY <1>2, <1>3 DEF Channel
    <3>4. Gpu(Channel(t))' = g BY <3>3 DEF Gpu
    <3> QED BY <1>1, <1>2, <1>3, <1>6, <2>2, <3>1, <3>2, <3>3, <3>4
            DEF FrameInv, WithBuffer, WithoutBuffer, Pushed
  <2> QED BY <2>1, <2>2
<1>11. BlockInv' BY <1>1, <1>4 DEF Inv, BlockInv, RegisteredIn
<1>12. TrackerInv'
  <2>1. \A b \in Buffers : \A c \in DOMAIN tracker[b].e : InFree(b) /\ Gpu(c) = b[1]
    BY <1>1, AllIdleFacts DEF Inv, TrackerInv
  <2> QED BY <1>1, <1>6, <2>1 DEF TrackerInv
<1>13. \A c \in Channels : InFlight(c)' = InFlight(c) BY <1>1 DEF InFlight
<1>14. StagedInv' BY <1>1, <1>13, AllIdleFacts DEF StagedInv
<1>15. CoverInv'
  <2>1. \A c \in Channels : \A p \in InFlight(c) : p.block # None BY InFlightFacts, Names DEF Inv
  <2> QED BY <1>1, <1>4, <1>13, <2>1, AllIdleFacts DEF CoverInv, BlockCovers
<1>16. CopiesOrdered' BY <1>1, <1>13 DEF Inv, CopiesOrdered
<1> QED BY <1>6, <1>7, <1>8, <1>9, <1>10, <1>11, <1>12, <1>14, <1>15, <1>16 DEF Inv

LEMMA UnregisterGpuInv ==
    ASSUME Inv, NEW g \in Gpus, UnregisterGpu(g)
    PROVE  Inv'
<1> USE DEF channelVars, bounds
<1> DEFINE b == reg[g]
           r == uvm_tracker_remove_completed(tracker[b])
<1>1. /\ DataOK /\ AllIdle /\ b # None /\ (\A x \in Blocks : Settled(block[x]))
      /\ fatal' = (fatal \/ \E x \in Blocks : Broken(block[x]))
      /\ block' = [x \in Blocks |-> uvm_tracker_clear(block[x])]
      /\ tracker' = [tracker EXCEPT ![b] = uvm_tracker_remove_completed(@)]
      /\ pool' = PoolAdd(b) /\ reg' = [reg EXCEPT ![g] = None]
      /\ UNCHANGED <<th, lost, channelVars, bounds>>
  BY DEF UnregisterGpu, Inv, BlocksWaited
<1>2. b \in Buffers /\ completed \in [Channels -> Nat] /\ tracker[b] \in Trackers /\ Fits(tracker[b])
  BY <1>1 DEF DataOK, Inv, FitInv
<1>3. r \in Trackers /\ DOMAIN r.e \subseteq DOMAIN tracker[b].e /\ Fits(r) BY <1>2, RemoveFacts
<1>4. /\ tracker' \in [Buffers -> Trackers] /\ tracker'[b] = r
      /\ \A x \in Buffers : x # b => tracker'[x] = tracker[x]
  BY <1>1, <1>2, <1>3 DEF DataOK
<1> HIDE DEF r
<1>5. \A u \in Threads : th[u] = Idle /\ th[u].pc = "idle" /\ th[u].buf = None /\ th[u].block = None
  BY <1>1, AllIdleFacts
<1>6. /\ PlaceInv' /\ CountInv' /\ pool' \in [Gpus -> Pools]
      /\ \A x \in Buffers : InFree(x)' <=> InFree(x) \/ x = b
  BY <1>1, <1>5, GiveBackRegistered DEF Inv
<1>7. \A x \in Blocks : /\ block'[x] \in Trackers /\ block'[x].e = NoEntries /\ Fits(block'[x])
  BY <1>1, ClearFacts DEF DataOK, Inv, FitInv
<1>8. fatal' \in BOOLEAN BY <1>1
<1>9. reg' \in [Gpus -> Buffers \cup {None}] BY <1>1 DEF DataOK
<1>10. DataOK' BY <1>1, <1>4, <1>6, <1>7, <1>8, <1>9 DEF DataOK
<1>11. FitInv' BY <1>3, <1>4, <1>7 DEF Inv, FitInv, Fits, Size
<1>12. ChannelInv' BY <1>1 DEF Inv, ChannelInv
<1>13. FramesInv' BY <1>1, <1>5, IdleFrame DEF FramesInv
<1>14. BlockInv' BY <1>1, <1>5, <1>7, EmptyFacts DEF BlockInv, RegisteredIn
<1>15. TrackerInv'
  <2> SUFFICES ASSUME NEW x \in Buffers, NEW c \in DOMAIN tracker'[x].e PROVE Gpu(c) = x[1] /\ InFree(x)'
    BY DEF TrackerInv
  <2>1. c \in DOMAIN tracker[x].e BY <1>3, <1>4
  <2>2. Gpu(c) = x[1] /\ InFree(x) BY <1>1, <2>1, AllIdleFacts DEF Inv, TrackerInv
  <2> QED BY <1>6, <2>2
<1>16. \A c \in Channels : InFlight(c)' = InFlight(c) BY <1>1 DEF InFlight
<1>17. ASSUME ~fatal', NEW c \in Channels PROVE InFlight(c)' = {}
  <2> SUFFICES ASSUME NEW p \in InFlight(c) PROVE FALSE BY <1>16
  <2>1. p.block \in Blocks BY InFlightFacts DEF Inv
  <2>2. BlockCovers(c, p) BY <1>1, <1>17, AllIdleFacts
  <2>3. Done(block[p.block]) /\ block[p.block] \in Trackers BY <1>1, <1>17, <2>1 DEF Settled, DataOK
  <2> QED BY <2>2, <2>3, NotInFlight DEF Inv, BlockCovers
<1>18. StagedInv' BY <1>17 DEF StagedInv
<1>19. CoverInv' BY <1>17 DEF CoverInv
<1>20. CopiesOrdered' BY <1>17 DEF CopiesOrdered
<1> QED BY <1>6, <1>10, <1>11, <1>12, <1>13, <1>14, <1>15, <1>18, <1>19, <1>20 DEF Inv

LEMMA RemoveGpuInv ==
    ASSUME Inv, NEW g \in Gpus, RemoveGpu(g)
    PROVE  Inv'
<1> USE DEF channelVars, bounds
<1>1. /\ DataOK /\ AllIdle /\ reg[g] = None /\ (\A x \in FreeSet : Settled(tracker[x]))
      /\ fatal' = (fatal \/ \E x \in FreeSet : Broken(tracker[x]))
      /\ tracker' = [b \in Buffers |-> IF b[1] = g THEN Empty
                                       ELSE IF b \in FreeSet THEN uvm_tracker_clear(tracker[b]) ELSE tracker[b]]
      /\ pool' = [pool EXCEPT ![g] = [on |-> FALSE, free |-> <<>>, num |-> 0]]
      /\ queued' = [c \in Channels |-> IF Gpu(c) = g THEN 0 ELSE queued[c]]
      /\ completed' = [c \in Channels |-> IF Gpu(c) = g THEN 0 ELSE completed[c]]
      /\ failed' = [c \in Channels |-> Gpu(c) # g /\ failed[c]]
      /\ pending' = [c \in Channels |-> IF Gpu(c) = g THEN <<>> ELSE pending[c]]
      /\ lost' = {b \in lost : b[1] # g} /\ UNCHANGED <<block, th, reg, bounds>>
  BY DEF RemoveGpu, PoolSynced, Inv
<1>2. \A u \in Threads : th[u] = Idle /\ th[u].pc = "idle" /\ th[u].buf = None /\ th[u].block = None
  BY <1>1, AllIdleFacts
<1>3. /\ PlaceInv' /\ CountInv' /\ pool' \in [Gpus -> Pools]
      /\ \A x \in Buffers : x[1] # g => (InFree(x)' <=> InFree(x))
  BY <1>1, <1>2, DestroyPool DEF Inv
<1>4. ASSUME NEW x \in Buffers
      PROVE  /\ tracker'[x] \in Trackers /\ Fits(tracker'[x])
             /\ tracker'[x].e = NoEntries \/ (x[1] # g /\ tracker'[x].e = tracker[x].e)
  <2>1. tracker[x] \in Trackers /\ Fits(tracker[x]) BY <1>1 DEF DataOK, Inv, FitInv
  <2>2. /\ uvm_tracker_clear(tracker[x]) \in Trackers /\ uvm_tracker_clear(tracker[x]).e = NoEntries
        /\ Fits(uvm_tracker_clear(tracker[x]))
    BY <2>1, ClearFacts
  <2>3. \/ tracker'[x] = Empty \/ tracker'[x] = uvm_tracker_clear(tracker[x])
        \/ x[1] # g /\ tracker'[x] = tracker[x]
    BY <1>1
  <2> QED BY <2>1, <2>2, <2>3, EmptyFacts
<1>5. DataOK'
  <2>1. tracker' \in [Buffers -> Trackers] BY <1>1, <1>4
  <2>2. queued' \in [Channels -> Nat] /\ completed' \in [Channels -> Nat] BY <1>1 DEF DataOK
  <2>3. failed' \in [Channels -> BOOLEAN] BY <1>1
  <2>4. pending' \in [Channels -> Seq(Pushes)]
    <3>1. <<>> \in Seq(Pushes) BY EmptySeq
    <3> QED BY <1>1, <3>1 DEF DataOK
  <2>5. fatal' \in BOOLEAN /\ lost' \in SUBSET Buffers BY <1>1 DEF DataOK
  <2> QED BY <1>1, <1>3, <2>1, <2>2, <2>3, <2>4, <2>5 DEF DataOK
<1>6. FitInv' BY <1>1, <1>4 DEF Inv, FitInv, Fits, Size
<1>7. ChannelInv'
  <2> SUFFICES ASSUME NEW c \in Channels
               PROVE  /\ queued'[c] = completed'[c] + Len(pending'[c])
                      /\ \A i \in DOMAIN pending'[c] : /\ pending'[c][i].v = completed'[c] + i
                                                       /\ pending'[c][i].buf[1] = Gpu(c)
                                                       /\ pending'[c][i].call <= calls
    BY <1>1 DEF ChannelInv
  <2>1. CASE Gpu(c) # g BY <1>1, <2>1 DEF Inv, ChannelInv
  <2>2. CASE Gpu(c) = g
    <3>1. queued'[c] = 0 /\ completed'[c] = 0 /\ pending'[c] = <<>> BY <1>1, <2>2
    <3>2. Len(<<>>) = 0 /\ DOMAIN <<>> = {} OBVIOUS
    <3> QED BY <3>1, <3>2
  <2> QED BY <2>1, <2>2
<1>8. FramesInv' BY <1>1, <1>2, IdleFrame DEF FramesInv
<1>9. BlockInv' BY <1>1 DEF Inv, BlockInv, RegisteredIn
<1>10. TrackerInv'
  <2> SUFFICES ASSUME NEW x \in Buffers, NEW c \in DOMAIN tracker'[x].e PROVE Gpu(c) = x[1] /\ InFree(x)'
    BY DEF TrackerInv
  <2>1. x[1] # g /\ c \in DOMAIN tracker[x].e BY <1>4, EmptyFacts
  <2>2. Gpu(c) = x[1] /\ InFree(x) BY <1>1, <2>1, AllIdleFacts DEF Inv, TrackerInv
  <2> QED BY <1>3, <2>1, <2>2
<1>11. \A c \in Channels : InFlight(c)' \subseteq InFlight(c)
  <2> SUFFICES ASSUME NEW c \in Channels PROVE InFlight(c)' \subseteq InFlight(c) OBVIOUS
  <2>1. CASE Gpu(c) = g
    <3>1. pending'[c] = <<>> /\ DOMAIN <<>> = {} BY <1>1, <2>1
    <3> QED BY <3>1 DEF InFlight, Range
  <2>2. CASE Gpu(c) # g
    <3>1. pending'[c] = pending[c] BY <1>1, <2>2
    <3> QED BY <3>1 DEF InFlight
  <2> QED BY <2>1, <2>2
<1>12. ASSUME ~fatal', NEW c \in Channels PROVE InFlight(c)' = {}
  <2> SUFFICES ASSUME NEW p \in InFlight(c) PROVE FALSE BY <1>11
  <2>1. p.buf \in Buffers BY InFlightFacts DEF Inv
  <2>2. Covers(tracker[p.buf].e, c, p.v) /\ InFree(p.buf) BY <1>1, <1>12, AllIdleFacts
  <2>3. p.buf \in FreeSet BY <1>1, <2>1, <2>2, FreeSetFacts DEF Inv
  <2>4. Done(tracker[p.buf]) /\ tracker[p.buf] \in Trackers BY <1>1, <1>12, <2>1, <2>3 DEF Settled, DataOK
  <2> QED BY <2>2, <2>4, NotInFlight DEF Inv
<1>13. StagedInv' BY <1>12 DEF StagedInv
<1>14. CoverInv' BY <1>12 DEF CoverInv
<1>15. CopiesOrdered' BY <1>12 DEF CopiesOrdered
<1> QED BY <1>3, <1>5, <1>6, <1>7, <1>8, <1>9, <1>10, <1>13, <1>14, <1>15 DEF Inv

-----------------------------------------------------------------------------
(* The theorems.                                                           *)

LEMMA InitInv ==
    ASSUME Init
    PROVE  Inv
<1> USE DEF Init
<1>1. DataOK
  <2>1. <<>> \in Seq(Buffers) /\ <<>> \in Seq(Pushes) BY EmptySeq
  <2>2. [on |-> FALSE, free |-> <<>>, num |-> 0] \in Pools BY <2>1 DEF Pools
  <2> QED BY <2>1, <2>2, IdleType, EmptyFacts DEF DataOK
<1>2. FitInv BY EmptyFacts DEF FitInv
<1>3. \A c \in Channels : DOMAIN pending[c] = {} /\ Len(pending[c]) = 0 /\ InFlight(c) = {}
  BY DEF InFlight, Range
<1>4. ChannelInv BY <1>3 DEF ChannelInv
<1>5. FramesInv BY IdleFrame DEF FramesInv
<1>6. BlockInv BY IdleType, EmptyFacts DEF BlockInv, RegisteredIn
<1>7. \A g \in Gpus : /\ pool[g].free = <<>> /\ DOMAIN pool[g].free = {} /\ pool[g].num = 0 /\ reg[g] = None
  OBVIOUS
<1>8. PlaceInv BY <1>7, IdleType DEF PlaceInv, InFree
<1>9. \A g \in Gpus : Used(g) = {} BY <1>7, IdleType, Names DEF Used, InFree
<1>10. CountInv BY <1>7, <1>9, FS_EmptySet DEF CountInv
<1>11. TrackerInv BY EmptyFacts DEF TrackerInv
<1>12. StagedInv /\ CoverInv /\ CopiesOrdered BY <1>3 DEF StagedInv, CoverInv, CopiesOrdered
<1> QED BY <1>1, <1>2, <1>4, <1>5, <1>6, <1>8, <1>10, <1>11, <1>12 DEF Inv

LEMMA NextInv ==
    ASSUME Inv, [Next]_vars
    PROVE  Inv'
<1>1. ASSUME NEW t \in Threads, Step(t) PROVE Inv'
  BY <1>1, OverwriteInv, OverwriteWaitInv, PoolTakeInv, AllocReadyInv, AllocErrorInv, LocalWaitInv, PushInv,
     PushFailsInv, FinishInv, UtilFinishInv, AddPushInv, AddPushWaitInv, AddToBlockInv, AddToBlockWaitInv,
     RegisterEndInv DEF Step
<1>2. ASSUME NEW t \in Threads,
             \/ \E b \in Blocks, plan \in Plans, kind \in {"copy", "util"} : Start(t, b, plan, kind)
             \/ \E g \in Gpus : RegisterGpu(t, g)
      PROVE  Inv'
  BY <1>2, StartInv, RegisterGpuInv
<1>3. ASSUME NEW g \in Gpus, UnregisterGpu(g) \/ RemoveGpu(g) PROVE Inv'
  BY <1>3, UnregisterGpuInv, RemoveGpuInv
<1>4. ASSUME NEW c \in Channels, Execute(c) \/ FailChannel(c) PROVE Inv'
  BY <1>4, ExecuteInv, FailChannelInv
<1>5. ASSUME UNCHANGED vars PROVE Inv'
  <2>1. /\ failed' \in [Channels -> BOOLEAN] /\ registers' \in Nat /\ failures' \in Nat
        /\ UNCHANGED <<pool, tracker, block, th, reg, lost, queued, completed, pending, fatal, calls>>
    BY <1>5 DEF vars, channelVars, bounds, Inv, DataOK
  <2> QED BY <2>1, QuietInv
<1> QED BY <1>1, <1>2, <1>3, <1>4, <1>5 DEF Next

LEMMA Invariance == Spec => []Inv
<1>1. Init => Inv BY InitInv
<1>2. Inv /\ [Next]_vars => Inv' BY NextInv
<1> QED BY <1>1, <1>2, PTL DEF Spec

\* For any number of threads and of buffers: the CPU never touches a staging buffer that
\* a push of another call uses, and reads a result only after the push that wrote it
\* (uvm_conf_computing_dma_buffer_alloc and _free, conf_computing_copy_pages_finish).
THEOREM StagingCorrect == Spec => []StagingIdle
<1>1. ASSUME Inv PROVE StagingIdle
  <2> SUFFICES ASSUME ~fatal, NEW t \in Threads, Using(t), NEW c \in Channels, NEW p \in InFlight(c),
                      p.buf = th[t].buf
               PROVE  OwnPush(t, c, p)
    BY DEF StagingIdle
  <2>1. th[t].pc # "alloc" /\ p.buf \in Buffers /\ p.buf # None BY <1>1, InFlightFacts, Names DEF Using, Inv
  <2>2. ~InFree(p.buf) /\ \A u \in Threads : th[u].buf = p.buf => u = t BY <1>1, <2>1 DEF Inv, PlaceInv
  <2>3. ~Covers(tracker[p.buf].e, c, p.v) BY <1>1, <2>1, <2>2 DEF Inv, TrackerInv, Covers
  <2> QED BY <1>1, <2>2, <2>3 DEF Inv, StagedInv, Owns
<1> QED BY <1>1, Invariance, PTL

\* For any set of copies: the pushes in flight of two copies of a VA block are in one
\* channel, or one acquires the other with a semaphore of its own GPU
\* (block_copy_begin_push, push_acquire_tracker_entry).
THEOREM OrderedCorrect == Spec => []CopiesOrdered
<1>1. Inv => CopiesOrdered BY DEF Inv
<1> QED BY <1>1, Invariance, PTL

\* For any set of GPUs: no tracker of a block, a buffer or a call names a channel of a
\* GPU that was removed (uvm_va_block_unregister_gpu_locked, remove_gpus_from_gpu).
THEOREM DanglingCorrect == Spec => []NoDanglingChannel
<1>1. ASSUME Inv PROVE NoDanglingChannel
  <2>1. ASSUME NEW e \in Entries, RegisteredIn(e) PROVE \A c \in DOMAIN e : pool[Gpu(c)].on
    BY <1>1, <2>1, EntriesFacts, Names DEF RegisteredIn, Inv, PlaceInv
  <2>2. ASSUME NEW b \in Blocks PROVE \A c \in DOMAIN block[b].e : pool[Gpu(c)].on
    <3>1. block[b].e \in Entries /\ RegisteredIn(block[b].e) BY <1>1 DEF Inv, DataOK, Trackers, BlockInv
    <3> QED BY <2>1, <3>1
  <2>3. ASSUME NEW u \in Threads
        PROVE  (\A c \in DOMAIN th[u].loc.e : pool[Gpu(c)].on) /\ \A c \in DOMAIN th[u].copy.e : pool[Gpu(c)].on
    <3>1. /\ th[u].loc.e \in Entries /\ th[u].copy.e \in Entries
          /\ RegisteredIn(th[u].loc.e) /\ RegisteredIn(th[u].copy.e)
      BY <1>1, FrameTypes DEF Inv, Trackers, FramesInv, FrameInv
    <3> QED BY <2>1, <3>1
  <2>4. ASSUME NEW b \in Buffers, NEW c \in DOMAIN tracker[b].e PROVE pool[Gpu(c)].on
    <3>1. /\ Gpu(c) = b[1] /\ b[1] \in Gpus
          /\ InFree(b) \/ \E t \in Threads : th[t].pc = "alloc" /\ th[t].buf = b
      BY <1>1, Names DEF Inv, TrackerInv
    <3>2. CASE InFree(b) BY <1>1, <3>1, <3>2 DEF Inv, PlaceInv, InFree
    <3>3. ASSUME NEW t \in Threads, th[t].pc = "alloc", th[t].buf = b PROVE pool[b[1]].on
      BY <1>1, <3>3, CallFacts DEF Inv, FramesInv, FrameInv, WithBuffer
    <3> QED BY <3>1, <3>2, <3>3
  <2> QED BY <2>2, <2>3, <2>4 DEF NoDanglingChannel
<1> QED BY <1>1, Invariance, PTL

LEMMA DisjointUnion ==
    ASSUME NEW S, NEW T, IsFiniteSet(S), IsFiniteSet(T), S \cap T = {}
    PROVE  /\ IsFiniteSet(S \cup T) /\ Cardinality(S \cup T) \in Nat
           /\ Cardinality(S) \in Nat /\ Cardinality(T) \in Nat
           /\ Cardinality(S \cup T) = Cardinality(S) + Cardinality(T)
<1>1. Cardinality(S \cup T) = Cardinality(S) + Cardinality(T) - Cardinality(S \cap T) /\ IsFiniteSet(S \cup T)
  BY FS_Union
<1>2. Cardinality(S \cap T) = 0 BY FS_EmptySet
<1>3. Cardinality(S) \in Nat /\ Cardinality(T) \in Nat /\ Cardinality(S \cup T) \in Nat
  BY <1>1, FS_CardinalityType
<1> QED BY <1>1, <1>2, <1>3

\* The places that the buffers of a GPU can be in, and how many are in each.
LEMMA PlaceCounts ==
    ASSUME Inv, NEW g \in Gpus
    PROVE  LET free == Range(pool[g].free)
               threads == {t \in Threads : th[t].buf # None /\ th[t].buf[1] = g}
               held == {th[t].buf : t \in threads} \cup {b \in {reg[g]} : b # None}
               gone == {b \in lost : b[1] = g}
           IN  /\ Cardinality(free) = Len(pool[g].free)
               /\ Cardinality(held) = Cardinality(threads) + (IF reg[g] = None THEN 0 ELSE 1)
               /\ Cardinality(free \cup held \cup gone) = pool[g].num
               /\ pool[g].num = Cardinality(free) + Cardinality(held) + Cardinality(gone)
<1> DEFINE s == pool[g].free
           free == Range(s)
           threads == {t \in Threads : th[t].buf # None /\ th[t].buf[1] = g}
           taken == {th[t].buf : t \in threads}
           spare == {b \in {reg[g]} : b # None}
           held == taken \cup spare
           gone == {b \in lost : b[1] = g}
<1>1. DataOK /\ PlaceInv /\ CountInv BY DEF Inv
<1>2. /\ s \in Seq(Buffers) /\ Len(s) \in Nat /\ DOMAIN s = 1 .. Len(s)
      /\ \A i \in DOMAIN s : s[i] \in Buffers /\ s[i][1] = g
      /\ \A i, j \in DOMAIN s : s[i] = s[j] => i = j
  BY <1>1, PoolTypes DEF PlaceInv
<1>3. Cardinality(free) = Len(s) /\ IsFiniteSet(free)
  <2>1. s \in [1 .. Len(s) -> free]
    <3>1. s \in [DOMAIN s -> free] BY <1>2, SeqDef DEF Range
    <3> QED BY <1>2, <3>1
  <2>2. s \in Bijection(1 .. Len(s), free)
    BY <1>2, <2>1 DEF Bijection, Injection, Surjection, Range, IsInjective
  <2>3. IsFiniteSet(1 .. Len(s)) /\ Cardinality(1 .. Len(s)) = Len(s)
    <3>1. \A n \in Nat : IsFiniteSet(1 .. n) /\ Cardinality(1 .. n) = n BY FS_Interval
    <3> QED BY <1>2, <3>1
  <2> QED BY <2>2, <2>3, FS_Bijection DEF ExistsBijection
<1>4. IsFiniteSet(threads) /\ Cardinality(threads) \in Nat
  BY ConstantsAssumption, FS_Subset, FS_CardinalityType
<1>5. IsFiniteSet(taken) /\ Cardinality(taken) = Cardinality(threads)
  <2> DEFINE f == [t \in threads |-> th[t].buf]
  <2>1. \A t, u \in threads : th[t].buf = th[u].buf => t = u BY <1>1 DEF PlaceInv
  <2>2. f \in Bijection(threads, taken) BY <2>1 DEF Bijection, Injection, Surjection, IsInjective
  <2> QED BY <1>4, <2>2, FS_Bijection DEF ExistsBijection
<1>6. IsFiniteSet(spare) /\ Cardinality(spare) = (IF reg[g] = None THEN 0 ELSE 1)
  <2>1. CASE reg[g] = None
    <3>1. spare = {} BY <2>1
    <3> QED BY <2>1, <3>1, FS_EmptySet
  <2>2. CASE reg[g] # None
    <3>1. spare = {reg[g]} BY <2>2
    <3> QED BY <2>2, <3>1, FS_Singleton
  <2> QED BY <2>1, <2>2
<1>7. \A x \in free : x \in Buffers /\ x[1] = g /\ InFree(x) BY <1>2 DEF Range, InFree
<1>8. \A x \in Buffers : x[1] = g /\ InFree(x) => x \in free BY DEF InFree, Range
<1>9. \A x \in taken : /\ x \in Buffers /\ x[1] = g /\ ~InFree(x) /\ x \notin lost /\ reg[g] # x
                       /\ \E t \in Threads : th[t].buf = x
  BY <1>1, PlaceTypes DEF PlaceInv
<1>10. \A x \in spare : /\ x \in Buffers /\ x[1] = g /\ ~InFree(x) /\ x \notin lost /\ reg[g] = x
  BY <1>1, PlaceTypes DEF PlaceInv
<1>11. \A x \in gone : x \in Buffers /\ x[1] = g /\ ~InFree(x) /\ x \in lost BY <1>1, PlaceTypes DEF PlaceInv
<1>12. Used(g) = (free \cup held) \cup gone
  <2>1. \A x \in Used(g) : x \in (free \cup held) \cup gone
    <3> SUFFICES ASSUME NEW x \in Used(g) PROVE x \in (free \cup held) \cup gone OBVIOUS
    <3>1. /\ x \in Buffers /\ x[1] = g /\ x # None
          /\ InFree(x) \/ x \in lost \/ reg[g] = x \/ \E t \in Threads : th[t].buf = x
      BY Names DEF Used
    <3>2. CASE InFree(x) BY <1>8, <3>1, <3>2
    <3>3. CASE x \in lost BY <3>1, <3>3
    <3>4. CASE reg[g] = x BY <3>1, <3>4
    <3>5. ASSUME NEW t \in Threads, th[t].buf = x PROVE x \in taken BY <3>1, <3>5
    <3> QED BY <3>1, <3>2, <3>3, <3>4, <3>5
  <2>2. \A x \in (free \cup held) \cup gone : x \in Used(g) BY <1>7, <1>9, <1>10, <1>11 DEF Used
  <2> QED BY <2>1, <2>2
<1>13. taken \cap spare = {} BY <1>9, <1>10
<1>14. free \cap held = {} BY <1>7, <1>9, <1>10
<1>15. (free \cup held) \cap gone = {} BY <1>7, <1>9, <1>10, <1>11
<1>16. IsFiniteSet(gone)
  <2>1. gone \subseteq Used(g) /\ IsFiniteSet(Used(g)) BY <1>1, <1>12, FreshFacts
  <2> QED BY <2>1, FS_Subset
<1>17. pool[g].num = Cardinality((free \cup held) \cup gone) BY <1>1, <1>12 DEF CountInv
<1> HIDE DEF s, free, threads, taken, spare, gone
<1>18. Cardinality(held) = Cardinality(threads) + (IF reg[g] = None THEN 0 ELSE 1) /\ IsFiniteSet(held)
  <2>1. IsFiniteSet(held) /\ Cardinality(held) = Cardinality(taken) + Cardinality(spare)
    BY <1>5, <1>6, <1>13, DisjointUnion
  <2> QED BY <1>5, <1>6, <2>1
<1> HIDE DEF held
<1>19. IsFiniteSet(free \cup held) /\ Cardinality(free \cup held) = Cardinality(free) + Cardinality(held)
  BY <1>3, <1>14, <1>18, DisjointUnion
<1>20. Cardinality((free \cup held) \cup gone) = Cardinality(free \cup held) + Cardinality(gone)
  BY <1>15, <1>16, <1>19, DisjointUnion
<1>21. pool[g].num = Cardinality(free) + Cardinality(held) + Cardinality(gone) BY <1>17, <1>19, <1>20
<1> QED BY <1>3, <1>17, <1>18, <1>21 DEF s, free, threads, taken, spare, held, gone

LEMMA InvTypeOK ==
    ASSUME Inv
    PROVE  TypeOK
<1>1. ASSUME NEW g \in Gpus
      PROVE  pool[g].on \in BOOLEAN /\ pool[g].free \in Seq(Buffers) /\ pool[g].num \in 0 .. MaxBuffers
  <2>1. pool[g].on \in BOOLEAN /\ pool[g].free \in Seq(Buffers) /\ pool[g].num \in Nat BY PoolTypes DEF Inv
  <2>2. pool[g].num = Cardinality(Used(g)) /\ Cardinality(Used(g)) <= MaxBuffers BY FreshFacts DEF Inv, CountInv
  <2>3. pool[g].num \in 0 .. MaxBuffers BY <2>1, <2>2, ConstantsAssumption
  <2> QED BY <2>1, <2>3
<1>2. ASSUME NEW t \in Trackers, Fits(t)
      PROVE  t.max \in {0, 1} \cup MaxSizes /\ DOMAIN t.e \subseteq Channels /\ Size(t) <= t.max
  <2>1. DOMAIN t.e \in SUBSET Channels BY EntriesFacts DEF Trackers
  <2> QED BY <1>2, <2>1 DEF Fits
<1>3. \A b \in Buffers : tracker[b] \in Trackers /\ Fits(tracker[b]) BY DEF Inv, DataOK, FitInv
<1>4. \A b \in Blocks : block[b] \in Trackers /\ Fits(block[b]) BY DEF Inv, DataOK, FitInv
<1>5. lost \subseteq Buffers BY DEF Inv, DataOK
<1>6. ASSUME NEW c \in Channels PROVE completed[c] \in 0 .. queued[c]
  <2>1. completed[c] \in Nat /\ queued[c] \in Nat /\ pending[c] \in Seq(Pushes) BY DEF Inv, DataOK
  <2>2. Len(pending[c]) \in Nat BY <2>1, LenProperties
  <2>3. queued[c] = completed[c] + Len(pending[c]) BY DEF Inv, ChannelInv
  <2> QED BY <2>1, <2>2, <2>3
<1> QED BY <1>1, <1>2, <1>3, <1>4, <1>5, <1>6 DEF TypeOK

\* For any number of threads, GPUs and buffers: the state is well typed, a buffer is in one
\* place, the free list of a pool has no duplicates, and num_dma_buffers counts the free,
\* the used and the lost buffers (dma_buffer_pool_add, dma_buffer_pool_expand_locked and
\* the error paths of uvm_conf_computing_dma_buffer_alloc).
THEOREM BuffersCorrect == Spec => []BuffersAccounted
<1>1. ASSUME Inv PROVE BuffersAccounted BY <1>1, InvTypeOK, PlaceCounts DEF BuffersAccounted
<1> QED BY <1>1, Invariance, PTL
=============================================================================

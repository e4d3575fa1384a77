------------------------ MODULE UvmFaultBatchProofs -------------------------
(***************************************************************************)
(* Proofs about the batches of UvmFaultBatch, for every workload, batch    *)
(* size and number of uTLBs, instances and pages: coalescing represents    *)
(* each fault once and counts exactly, and a cancel ends the accesses that *)
(* the permissions refuse, all of them and no others.                      *)
(***************************************************************************)
EXTENDS UvmFaultBatch, FiniteSetTheorems, TLAPS

-----------------------------------------------------------------------------
(* The inductive invariant.                                                *)

\* The bottom half cancels from its lock of the VA space to the last flush.
ControlInv ==
    /\ pc \in {"idle", "replay", "wait", "cancel_lock"} => ~cancelling
    /\ pc \in {"cancel_flush", "cancel_wait", "cancel", "cancel_unlock", "cancel_end"} => cancelling
    /\ pc \in {"idle", "wait", "cancel_flush", "cancel_wait", "cancel_end"} => cache = <<>>
    /\ num_retries <= disturbances

\* Entry r stands for entry k.
StandsFor(r, k) ==
    /\ cache[r].ring = cache[k].ring
    /\ SameSource(cache[r].acc, cache[k].acc)
    /\ Entry(r).type >= Entry(k).type

\* One unfiltered entry of each list stands for all its entries, and is the most
\* intrusive of its mask.
CacheInv ==
    /\ \A k \in DOMAIN cache : cache[k].ring <= Len(cache)
    /\ \A k \in DOMAIN cache : \E r \in Unfiltered : StandsFor(r, k)
    /\ \A r, s \in Unfiltered : cache[r].ring = cache[s].ring => r = s
    /\ \A r \in Unfiltered :
         Entry(r).type \in cache[r].mask /\ \A t \in cache[r].mask : t <= Entry(r).type

OfUtlb(u) == {k \in Unfiltered : Entry(k).utlb = u}

\* The counters of uTLBs that no batch has used are zero, so that a fetch starts from
\* zero although it clears only those up to max_utlb_id.
UtlbInv == \A u \in Utlbs : u > max_utlb_id => utlbs[u].pending = 0

InBatch == pc \in {"fetch", "service", "cancel"}

\* What the fetch knows of the cache.  The last fault may have been filtered since.
CountInv ==
    InBatch =>
      /\ num_coalesced = Cardinality(Unfiltered)
      /\ \A u \in Utlbs : /\ utlbs[u].pending = Cardinality(OfUtlb(u))
                          /\ utlbs[u].pending > 0 => utlbs[u].last \in OfUtlb(u)
      /\ single_instance <=> \A k, l \in Unfiltered : Entry(k).inst = Entry(l).inst
      /\ last_fault = 0 <=> cache = <<>>

\* Pages are never mapped beyond their permission.
PermInv ==
    /\ \A p \in Pages : prot[p] <= perm[p]
    /\ pc = "service" => \A p \in ToService : Permitted(p, access_type[p])

\* The scan visits every unfiltered entry, the most intrusive of a page first.
OrderInv ==
    pc \in {"service", "cancel"} =>
      /\ \A m \in DOMAIN order : order[m] \in Unfiltered
      /\ \A k \in Unfiltered : \E m \in DOMAIN order : order[m] = k
      /\ \A m \in 1 .. Len(order) - 1 : Precedes(order[m], order[m + 1])

Refused(k) == Entry(k).type # PREFETCH /\ ~Permitted(Entry(k).page, Entry(k).type)

\* Fatal entries are refused, and so is what their cancel ends; those that have been
\* scanned and are refused are fatal.
FatalInv ==
    /\ pc = "fetch" => \A k \in DOMAIN cache : ~cache[k].fatal
    /\ pc \in {"service", "cancel"} =>
         \A k \in DOMAIN cache : cache[k].fatal =>
           Refused(k) /\ ~Permitted(Entry(k).page, IF cache[k].mode = "all" THEN READ ELSE WRITE)
    /\ pc = "service" =>
         \A m \in DOMAIN order : m < i /\ Refused(order[m]) => cache[order[m]].fatal
    /\ pc = "cancel" =>
         \A m \in DOMAIN order : Refused(order[m]) => cache[order[m]].fatal

\* Whatever a cancel has fetched has faulted since its flush.
FreshInv ==
    /\ cancelling /\ pc \in {"cancel_wait", "fetch", "service"} =>
         /\ \A m \in DOMAIN buffer : acc[buffer[m]] = "faulted"
         /\ \A k \in DOMAIN cache : acc[cache[k].acc] = "faulted"
    /\ pc = "cancel" => \A k \in DOMAIN cache : cache[k].fatal => acc[cache[k].acc] # "done"

Inv ==
    /\ TypeOK /\ ControlInv /\ CacheInv /\ UtlbInv /\ CountInv
    /\ PermInv /\ OrderInv /\ FatalInv /\ FreshInv

-----------------------------------------------------------------------------
(* Accesses, entries and permissions.                                      *)

LEMMA Sizes ==
    /\ MaxBatchSize \in Nat /\ MaxBatchSize > 0 /\ UpdatePutRatio \in Nat
    /\ MaxDisturbances \in Nat /\ Utlbs \subseteq Nat /\ 0 \in Utlbs /\ Pages \subseteq Nat
    /\ PREFETCH = 0 /\ READ = 1 /\ WRITE = 2 /\ ATOMIC = 3 /\ NotServiced = 4
    /\ AccessTypes = 0 .. 3
BY BatchAssumption DEF PREFETCH, READ, WRITE, ATOMIC, NotServiced, AccessTypes

\* A more intrusive access needs at least as much.
LEMMA ProtFacts ==
    /\ \A t \in AccessTypes : Prot(t) \in 1 .. 3
    /\ \A t, s \in AccessTypes : t <= s => Prot(t) <= Prot(s)
    /\ Prot(READ) = 1 /\ Prot(WRITE) = 2 /\ Prot(ATOMIC) = 3
<1>1. \A t \in AccessTypes : Prot(t) = IF t <= 1 THEN 1 ELSE t
  BY Sizes DEF Prot
<1> QED BY <1>1, Sizes

\* The greater and the lesser of two numbers.
LEMMA MaxIs ==
    ASSUME NEW S \in SUBSET Nat, NEW x \in S, \A y \in S : y <= x
    PROVE  Max(S) = x
<1>1. x \in S /\ \A y \in S : x >= y OBVIOUS
<1>2. \A z \in S : (\A y \in S : z >= y) => z = x OBVIOUS
<1> QED BY <1>1, <1>2 DEF Max

LEMMA MaxOfTwo ==
    ASSUME NEW x \in Nat, NEW y \in Nat
    PROVE  Max({x, y}) \in {x, y} /\ x <= Max({x, y}) /\ y <= Max({x, y})
<1>1. CASE x <= y
  <2>1. Max({x, y}) = y BY <1>1, MaxIs
  <2> QED BY <1>1, <2>1
<1>2. CASE ~ (x <= y)
  <2>1. Max({x, y}) = x BY <1>2, MaxIs
  <2> QED BY <1>2, <2>1
<1> QED BY <1>1, <1>2

LEMMA MinOfTwo ==
    ASSUME NEW x \in Nat, NEW y \in Nat
    PROVE  Min({x, y}) \in {x, y} /\ Min({x, y}) <= x /\ Min({x, y}) <= y
<1>1. \E z \in {x, y} : \A w \in {x, y} : z =< w
  <2>1. CASE x <= y BY <2>1
  <2>2. CASE ~ (x <= y) BY <2>2
  <2> QED BY <2>1, <2>2
<1>2. Min({x, y}) \in {x, y} /\ \A w \in {x, y} : Min({x, y}) =< w BY <1>1 DEF Min
<1> QED BY <1>2

LEMMA AccessFacts ==
    ASSUME Inv, NEW a \in Accesses
    PROVE  /\ work[a] \in Access /\ work[a].utlb \in Utlbs /\ work[a].page \in Pages
           /\ work[a].type \in AccessTypes /\ work[a].type \in Nat
<1>1. work \in [Accesses -> Access] BY BatchAssumption DEF Inv, TypeOK
<1>2. work[a] \in Access BY <1>1
<1>3. work[a].utlb \in Utlbs /\ work[a].page \in Pages /\ work[a].type \in AccessTypes
  BY <1>2 DEF Access
<1> QED BY <1>2, <1>3, Sizes

LEMMA CacheFacts ==
    ASSUME Inv
    PROVE  /\ cache \in Seq(EntryType) /\ Len(cache) \in Nat /\ DOMAIN cache = 1 .. Len(cache)
           /\ Unfiltered \subseteq 1 .. Len(cache) /\ IsFiniteSet(Unfiltered)
           /\ \A u \in Utlbs : OfUtlb(u) \subseteq Unfiltered /\ IsFiniteSet(OfUtlb(u))
<1>1. cache \in Seq(EntryType) BY DEF Inv, TypeOK
<1>2. Len(cache) \in Nat /\ DOMAIN cache = 1 .. Len(cache) BY <1>1
<1>3. IsFiniteSet(1 .. Len(cache)) BY <1>2, FS_Interval
<1>4. Unfiltered \subseteq 1 .. Len(cache) BY <1>2 DEF Unfiltered
<1>5. IsFiniteSet(Unfiltered) BY <1>3, <1>4, FS_Subset
<1>6. \A u \in Utlbs : OfUtlb(u) \in SUBSET Unfiltered BY DEF OfUtlb
<1>7. \A u \in Utlbs : IsFiniteSet(OfUtlb(u)) BY <1>5, <1>6, FS_Subset
<1> QED BY <1>1, <1>2, <1>4, <1>5, <1>6, <1>7

LEMMA EntryFacts ==
    ASSUME Inv, NEW k \in DOMAIN cache
    PROVE  /\ cache[k] \in EntryType /\ cache[k].acc \in Accesses
           /\ cache[k].mask \subseteq AccessTypes
           /\ cache[k].filtered \in BOOLEAN /\ cache[k].fatal \in BOOLEAN
           /\ cache[k].instances \in Nat \ {0} /\ cache[k].ring \in Nat \ {0}
           /\ cache[k].mode \in {"all", "write_and_atomic"}
           /\ Entry(k) = work[cache[k].acc]
           /\ Entry(k).utlb \in Utlbs /\ Entry(k).page \in Pages
           /\ Entry(k).type \in AccessTypes /\ Entry(k).type \in Nat
<1>1. cache[k] \in EntryType BY CacheFacts
<1>2. /\ cache[k].acc \in Accesses /\ cache[k].mask \subseteq AccessTypes
      /\ cache[k].filtered \in BOOLEAN /\ cache[k].fatal \in BOOLEAN
      /\ cache[k].instances \in Nat \ {0} /\ cache[k].ring \in Nat \ {0}
      /\ cache[k].mode \in {"all", "write_and_atomic"}
  BY <1>1 DEF EntryType
<1>3. Entry(k) = work[cache[k].acc] BY DEF Entry
<1> QED BY <1>1, <1>2, <1>3, AccessFacts

\* What a page permits.
LEMMA PermFacts ==
    ASSUME Inv, NEW p \in Pages
    PROVE  /\ perm[p] \in {0, 1, 3} /\ prot[p] \in 0 .. 3
           /\ \A t \in AccessTypes : Permitted(p, t) <=> Prot(t) <= perm[p]
           /\ \A t, s \in AccessTypes : t <= s /\ ~Permitted(p, t) => ~Permitted(p, s)
           /\ \A t \in AccessTypes : t > READ /\ ~Permitted(p, t) => ~Permitted(p, WRITE)
<1>1. perm[p] \in {0, 1, 3} /\ prot[p] \in 0 .. 3 BY DEF Inv, TypeOK, Perms, Prots
<1>2. \A t \in AccessTypes : Permitted(p, t) <=> Prot(t) <= perm[p] BY DEF Permitted
<1>3. WRITE \in AccessTypes BY Sizes
<1> QED BY <1>1, <1>2, <1>3, ProtFacts, Sizes

-----------------------------------------------------------------------------
(* The fetch.                                                              *)

\* The new entry at the end of the cache and its parts.
LEMMA NewEntryFacts ==
    ASSUME Inv, NEW a \in Accesses
    PROVE  /\ NewEntry(a) \in EntryType /\ NewEntry(a).acc = a /\ NewEntry(a).filtered = FALSE
           /\ NewEntry(a).mask = {work[a].type} /\ NewEntry(a).ring = Len(cache) + 1
           /\ NewEntry(a).fatal = FALSE /\ NewEntry(a).instances = 1
<1>1. work[a].type \in AccessTypes /\ Len(cache) + 1 \in Nat \ {0} BY AccessFacts, CacheFacts
<1>2. {work[a].type} \in SUBSET AccessTypes /\ FALSE \in BOOLEAN /\ 1 \in Nat \ {0} BY <1>1
<1> QED BY <1>1, <1>2 DEF NewEntry, EntryType

\* Sequences with one entry changed or added.
LEMMA SeqFacts ==
    ASSUME NEW s \in Seq(EntryType), NEW e \in EntryType
    PROVE  /\ Append(s, e) \in Seq(EntryType) /\ Len(Append(s, e)) = Len(s) + 1
           /\ \A k \in 1 .. Len(s) : Append(s, e)[k] = s[k]
           /\ Append(s, e)[Len(s) + 1] = e
           /\ \A l \in DOMAIN s :
                /\ [s EXCEPT ![l] = e] \in Seq(EntryType) /\ Len([s EXCEPT ![l] = e]) = Len(s)
                /\ [s EXCEPT ![l] = e][l] = e
                /\ \A k \in 1 .. Len(s) : k # l => [s EXCEPT ![l] = e][k] = s[k]
<1>1. Len(s) \in Nat /\ DOMAIN s = 1 .. Len(s) OBVIOUS
<1>2. /\ Append(s, e) \in Seq(EntryType) /\ Len(Append(s, e)) = Len(s) + 1
      /\ Append(s, e)[Len(s) + 1] = e
  OBVIOUS
<1>3. \A k \in 1 .. Len(s) : Append(s, e)[k] = s[k] OBVIOUS
<1>4. ASSUME NEW l \in DOMAIN s
      PROVE  /\ [s EXCEPT ![l] = e] \in Seq(EntryType) /\ Len([s EXCEPT ![l] = e]) = Len(s)
             /\ [s EXCEPT ![l] = e][l] = e
             /\ \A k \in 1 .. Len(s) : k # l => [s EXCEPT ![l] = e][k] = s[k]
  <2>1. [s EXCEPT ![l] = e] \in Seq(EntryType) OBVIOUS
  <2>2. Len([s EXCEPT ![l] = e]) = Len(s) OBVIOUS
  <2>3. [s EXCEPT ![l] = e][l] = e OBVIOUS
  <2>4. \A k \in 1 .. Len(s) : k # l => [s EXCEPT ![l] = e][k] = s[k] OBVIOUS
  <2> QED BY <2>1, <2>2, <2>3, <2>4
<1> QED BY <1>2, <1>3, <1>4

\* An entry that joins no list.
LEMMA NewFacts ==
    ASSUME Inv, NEW a \in Accesses, cache' = Append(cache, NewEntry(a))
    PROVE  /\ cache' \in Seq(EntryType) /\ Len(cache') = Len(cache) + 1
           /\ \A k \in 1 .. Len(cache) : cache'[k] = cache[k]
           /\ cache'[Len(cache) + 1] = NewEntry(a)
<1>1. cache \in Seq(EntryType) /\ NewEntry(a) \in EntryType BY CacheFacts, NewEntryFacts
<1> QED BY <1>1, SeqFacts

\* An entry that is filtered.
LEMMA DownFacts ==
    ASSUME Inv, NEW a \in Accesses, NEW l \in DOMAIN cache, cache' = Merged(a, l),
           work[a].type <= Entry(l).type
    PROVE  /\ cache' \in Seq(EntryType) /\ Len(cache') = Len(cache) + 1
           /\ \A k \in 1 .. Len(cache) : k # l => cache'[k] = cache[k]
           /\ cache'[l].acc = cache[l].acc /\ cache'[l].filtered = cache[l].filtered
           /\ cache'[l].ring = cache[l].ring /\ cache'[l].fatal = cache[l].fatal
           /\ cache'[l].mask = cache[l].mask \cup {work[a].type}
           /\ cache'[Len(cache) + 1].acc = a /\ cache'[Len(cache) + 1].filtered = TRUE
           /\ cache'[Len(cache) + 1].ring = cache[l].ring /\ cache'[Len(cache) + 1].fatal = FALSE
<1> DEFINE e == [cache[l] EXCEPT !.instances = @ + 1, !.mask = @ \cup {work[a].type}]
           new == [NewEntry(a) EXCEPT !.filtered = TRUE, !.ring = e.ring]
<1>1. work[a].type \in AccessTypes /\ work[a].type \in Nat /\ Entry(l).type \in Nat
  BY AccessFacts, EntryFacts
<1>2. /\ e \in EntryType /\ e.acc = cache[l].acc /\ e.filtered = cache[l].filtered
      /\ e.ring = cache[l].ring /\ e.fatal = cache[l].fatal
      /\ e.mask = cache[l].mask \cup {work[a].type}
  <2>1. cache[l] \in EntryType BY EntryFacts
  <2>2. /\ cache[l].instances + 1 \in Nat \ {0}
        /\ cache[l].mask \cup {work[a].type} \in SUBSET AccessTypes
    BY <1>1, EntryFacts
  <2> QED BY <2>1, <2>2 DEF EntryType
<1> HIDE DEF e
<1>3. /\ new \in EntryType /\ new.acc = a /\ new.filtered = TRUE /\ new.ring = cache[l].ring
      /\ new.fatal = FALSE
  <2>1. e.ring \in Nat \ {0} BY <1>2, EntryFacts
  <2>2. TRUE \in BOOLEAN OBVIOUS
  <2> QED BY <1>2, <2>1, <2>2, NewEntryFacts DEF EntryType
<1> HIDE DEF new
<1>4. cache' = Append([cache EXCEPT ![l] = e], new)
  BY <1>1 DEF Merged, e, new
<1>5. PICK base \in Seq(EntryType) :
        /\ base = [cache EXCEPT ![l] = e] /\ Len(base) = Len(cache) /\ base[l] = e
        /\ \A k \in 1 .. Len(cache) : k # l => base[k] = cache[k]
  <2>1. cache \in Seq(EntryType) /\ l \in DOMAIN cache /\ e \in EntryType BY <1>2, CacheFacts
  <2>2. /\ [cache EXCEPT ![l] = e] \in Seq(EntryType)
        /\ Len([cache EXCEPT ![l] = e]) = Len(cache) /\ [cache EXCEPT ![l] = e][l] = e
        /\ \A k \in 1 .. Len(cache) : k # l => [cache EXCEPT ![l] = e][k] = cache[k]
    BY <2>1, SeqFacts
  <2> QED BY <2>2
<1>6. /\ cache' \in Seq(EntryType) /\ Len(cache') = Len(cache) + 1
      /\ cache'[Len(cache) + 1] = new /\ \A k \in 1 .. Len(cache) : cache'[k] = base[k]
  BY <1>3, <1>4, <1>5, SeqFacts
<1>7. cache'[l] = e BY <1>5, <1>6, CacheFacts
<1> QED BY <1>2, <1>3, <1>5, <1>6, <1>7

\* An entry that takes over.
LEMMA UpFacts ==
    ASSUME Inv, NEW a \in Accesses, NEW l \in DOMAIN cache, cache' = Merged(a, l),
           work[a].type > Entry(l).type
    PROVE  /\ cache' \in Seq(EntryType) /\ Len(cache') = Len(cache) + 1
           /\ \A k \in 1 .. Len(cache) : k # l => cache'[k] = cache[k]
           /\ cache'[l].acc = cache[l].acc /\ cache'[l].filtered = TRUE
           /\ cache'[l].ring = cache[l].ring /\ cache'[l].fatal = cache[l].fatal
           /\ cache'[Len(cache) + 1].acc = a /\ cache'[Len(cache) + 1].filtered = FALSE
           /\ cache'[Len(cache) + 1].ring = cache[l].ring /\ cache'[Len(cache) + 1].fatal = FALSE
           /\ cache'[Len(cache) + 1].mask = cache[l].mask \cup {work[a].type}
<1> DEFINE e == [cache[l] EXCEPT !.instances = @ + 1, !.mask = @ \cup {work[a].type}]
           old == [e EXCEPT !.filtered = TRUE]
           new == [NewEntry(a) EXCEPT !.ring = e.ring, !.mask = e.mask, !.instances = e.instances]
<1>1. work[a].type \in AccessTypes /\ work[a].type \in Nat /\ Entry(l).type \in Nat
  BY AccessFacts, EntryFacts
<1>2. /\ e \in EntryType /\ e.acc = cache[l].acc /\ e.ring = cache[l].ring
      /\ e.fatal = cache[l].fatal /\ e.mask = cache[l].mask \cup {work[a].type}
  <2>1. cache[l] \in EntryType BY EntryFacts
  <2>2. /\ cache[l].instances + 1 \in Nat \ {0}
        /\ cache[l].mask \cup {work[a].type} \in SUBSET AccessTypes
    BY <1>1, EntryFacts
  <2> QED BY <2>1, <2>2 DEF EntryType
<1> HIDE DEF e
<1>3. /\ old \in EntryType /\ old.acc = cache[l].acc /\ old.filtered = TRUE
      /\ old.ring = cache[l].ring /\ old.fatal = cache[l].fatal
  <2>1. TRUE \in BOOLEAN OBVIOUS
  <2> QED BY <1>2, <2>1 DEF EntryType
<1>4. /\ new \in EntryType /\ new.acc = a /\ new.filtered = FALSE /\ new.ring = cache[l].ring
      /\ new.fatal = FALSE /\ new.mask = cache[l].mask \cup {work[a].type}
  <2>1. /\ e.ring \in Nat \ {0} /\ e.instances \in Nat \ {0} /\ e.mask \in SUBSET AccessTypes
    BY <1>2 DEF EntryType
  <2> QED BY <1>2, <2>1, NewEntryFacts DEF EntryType
<1> HIDE DEF old, new
<1>5. cache' = Append([cache EXCEPT ![l] = old], new)
  BY <1>1 DEF Merged, e, old, new
<1>6. PICK base \in Seq(EntryType) :
        /\ base = [cache EXCEPT ![l] = old] /\ Len(base) = Len(cache) /\ base[l] = old
        /\ \A k \in 1 .. Len(cache) : k # l => base[k] = cache[k]
  <2>1. cache \in Seq(EntryType) /\ l \in DOMAIN cache /\ old \in EntryType BY <1>3, CacheFacts
  <2>2. /\ [cache EXCEPT ![l] = old] \in Seq(EntryType)
        /\ Len([cache EXCEPT ![l] = old]) = Len(cache) /\ [cache EXCEPT ![l] = old][l] = old
        /\ \A k \in 1 .. Len(cache) : k # l => [cache EXCEPT ![l] = old][k] = cache[k]
    BY <2>1, SeqFacts
  <2> QED BY <2>2
<1>7. /\ cache' \in Seq(EntryType) /\ Len(cache') = Len(cache) + 1
      /\ cache'[Len(cache) + 1] = new /\ \A k \in 1 .. Len(cache) : cache'[k] = base[k]
  BY <1>4, <1>5, <1>6, SeqFacts
<1>8. cache'[l] = old BY <1>6, <1>7, CacheFacts
<1> QED BY <1>3, <1>4, <1>6, <1>7, <1>8

\* The accesses of the entries after a fetch.
LEMMA NewCache ==
    ASSUME Inv, NEW n \in Nat, n = Len(cache) + 1, NEW a \in Accesses,
           work' = work, cache' = Append(cache, NewEntry(a))
    PROVE  /\ CacheInv' /\ Unfiltered' = Unfiltered \cup {n}
           /\ \A k \in 1 .. Len(cache) : Entry(k)' = Entry(k)
           /\ Entry(n)' = work[a]
<1>1. /\ cache' \in Seq(EntryType) /\ Len(cache') = n /\ DOMAIN cache' = 1 .. n
      /\ \A k \in 1 .. Len(cache) : cache'[k] = cache[k]
      /\ cache'[n] = NewEntry(a)
  BY NewFacts
<1>2. Len(cache) \in Nat /\ DOMAIN cache = 1 .. Len(cache) /\ n \in Nat /\ n \in 1 .. n
  BY CacheFacts
<1>3. /\ cache'[n].acc = a /\ cache'[n].filtered = FALSE /\ cache'[n].ring = n
      /\ cache'[n].mask = {work[a].type}
  BY <1>1, NewEntryFacts
<1>4. /\ \A k \in 1 .. Len(cache) : Entry(k)' = Entry(k)
      /\ Entry(n)' = work[a]
  BY <1>1, <1>3 DEF Entry
<1>5. \A k \in 1 .. n : k = n \/ k \in 1 .. Len(cache) BY <1>2
<1>6. Unfiltered' = Unfiltered \cup {n}
  <2>1. \A k \in 1 .. Len(cache) : k \in 1 .. n BY <1>2
  <2> QED BY <1>1, <1>2, <1>3, <1>5, <2>1 DEF Unfiltered
<1>7. CacheInv /\ Unfiltered \subseteq 1 .. Len(cache) BY CacheFacts DEF Inv
<1>8. \A k \in 1 .. Len(cache) : cache[k].ring <= Len(cache) /\ cache[k].ring \in Nat
  BY <1>2, <1>7, EntryFacts DEF CacheInv
<1>9. work[a].type \in Nat BY AccessFacts
<1>10. \A k \in DOMAIN cache' : cache'[k].ring <= Len(cache')
  BY <1>1, <1>2, <1>3, <1>5, <1>8
<1>11. \A r, s \in Unfiltered' : cache'[r].ring = cache'[s].ring => r = s
  <2>1. \A k \in Unfiltered : cache'[k].ring = cache[k].ring /\ cache[k].ring # n
    BY <1>1, <1>2, <1>7, <1>8
  <2> QED BY <1>3, <1>6, <1>7, <2>1 DEF CacheInv
<1>12. \A r \in Unfiltered' : /\ Entry(r)'.type \in cache'[r].mask
                              /\ \A t \in cache'[r].mask : t <= Entry(r)'.type
  <2>1. \A r \in Unfiltered : Entry(r)' = Entry(r) /\ cache'[r] = cache[r] BY <1>1, <1>4, <1>7
  <2> QED BY <1>3, <1>4, <1>6, <1>7, <1>9, <2>1 DEF CacheInv
<1>13. \A k \in DOMAIN cache' : \E r \in Unfiltered' : StandsFor(r, k)'
  <2>1. ASSUME NEW k \in 1 .. Len(cache) PROVE \E r \in Unfiltered' : StandsFor(r, k)'
    <3>1. PICK r \in Unfiltered : StandsFor(r, k) BY <1>2, <1>7 DEF CacheInv
    <3>2. r \in 1 .. Len(cache) BY <1>7, <3>1
    <3>3. cache'[r] = cache[r] /\ cache'[k] = cache[k] BY <1>1, <3>2
    <3>4. StandsFor(r, k)' BY <3>1, <3>3 DEF StandsFor, SameSource, Entry
    <3> QED BY <1>6, <3>1, <3>4
  <2>2. StandsFor(n, n)' BY <1>4, <1>9 DEF StandsFor, SameSource
  <2> QED BY <1>1, <1>5, <1>6, <2>1, <2>2
<1>14. CacheInv' BY <1>10, <1>11, <1>12, <1>13 DEF CacheInv
<1> QED BY <1>4, <1>6, <1>14

LEMMA DownCache ==
    ASSUME Inv, NEW n \in Nat, n = Len(cache) + 1, NEW a \in Accesses, NEW l \in DOMAIN cache,
           work' = work, cache' = Merged(a, l), SameSource(a, cache[l].acc),
           work[a].type <= Entry(l).type
    PROVE  /\ CacheInv' /\ Unfiltered' = Unfiltered
           /\ \A k \in 1 .. Len(cache) : Entry(k)' = Entry(k)
<1>1. /\ cache' \in Seq(EntryType) /\ Len(cache') = n /\ DOMAIN cache' = 1 .. n
      /\ \A k \in 1 .. Len(cache) :
           /\ cache'[k].acc = cache[k].acc /\ cache'[k].filtered = cache[k].filtered
           /\ cache'[k].ring = cache[k].ring
           /\ cache'[k].mask = IF k = l THEN cache[k].mask \cup {work[a].type} ELSE cache[k].mask
      /\ cache'[n].acc = a /\ cache'[n].filtered = TRUE /\ cache'[n].ring = cache[l].ring
  <2>1. /\ cache' \in Seq(EntryType) /\ Len(cache') = Len(cache) + 1
        /\ \A k \in 1 .. Len(cache) : k # l => cache'[k] = cache[k]
        /\ cache'[l].acc = cache[l].acc /\ cache'[l].filtered = cache[l].filtered
        /\ cache'[l].ring = cache[l].ring
        /\ cache'[l].mask = cache[l].mask \cup {work[a].type}
        /\ cache'[n].acc = a /\ cache'[n].filtered = TRUE /\ cache'[n].ring = cache[l].ring
    BY DownFacts
  <2>2. ASSUME NEW k \in 1 .. Len(cache)
        PROVE  /\ cache'[k].acc = cache[k].acc /\ cache'[k].filtered = cache[k].filtered
               /\ cache'[k].ring = cache[k].ring
               /\ cache'[k].mask =
                    IF k = l THEN cache[k].mask \cup {work[a].type} ELSE cache[k].mask
    <3>1. CASE k = l BY <2>1, <3>1
    <3>2. CASE k # l BY <2>1, <3>2
    <3> QED BY <3>1, <3>2
  <2>3. Len(cache') = n /\ DOMAIN cache' = 1 .. n BY <2>1
  <2> QED BY <2>1, <2>2, <2>3, Zenon
<1>2. /\ Len(cache) \in Nat /\ DOMAIN cache = 1 .. Len(cache) /\ n \in Nat /\ n \in 1 .. n
      /\ l \in 1 .. Len(cache)
  BY CacheFacts
<1>3. /\ \A k \in 1 .. Len(cache) : Entry(k)' = Entry(k)
      /\ Entry(n)' = work[a]
  BY <1>1 DEF Entry
<1>4. \A k \in 1 .. n : k = n \/ k \in 1 .. Len(cache) BY <1>2
<1>5. Unfiltered' = Unfiltered
  <2>1. \A k \in 1 .. Len(cache) : k \in 1 .. n BY <1>2
  <2> QED BY <1>1, <1>2, <1>4, <2>1 DEF Unfiltered
<1>6. CacheInv /\ Unfiltered \subseteq 1 .. Len(cache) BY CacheFacts DEF Inv
<1>7. \A k \in 1 .. Len(cache) :
        /\ cache[k].ring <= Len(cache) /\ cache[k].ring \in Nat /\ Entry(k).type \in Nat
        /\ \A t \in cache[k].mask : t \in Nat
  <2> TAKE k \in 1 .. Len(cache)
  <2>1. k \in DOMAIN cache BY <1>2
  <2>2. cache[k].ring \in Nat /\ Entry(k).type \in Nat /\ cache[k].mask \subseteq AccessTypes
    BY <2>1, EntryFacts
  <2>3. \A t \in cache[k].mask : t \in Nat BY <2>2, Sizes
  <2>4. cache[k].ring <= Len(cache) BY <1>6, <2>1 DEF CacheInv
  <2> QED BY <2>2, <2>3, <2>4
<1>8. work[a].type \in Nat BY AccessFacts
<1>9. \A k \in DOMAIN cache' : cache'[k].ring <= Len(cache')
  <2> TAKE k \in DOMAIN cache'
  <2>1. CASE k = n
    <3>1. cache'[n].ring <= Len(cache) BY <1>1, <1>2, <1>7
    <3> QED BY <1>1, <1>2, <1>7, <2>1, <3>1
  <2>2. CASE k # n
    <3>1. k \in 1 .. Len(cache) /\ cache'[k].ring = cache[k].ring BY <1>1, <1>4, <2>2
    <3> QED BY <1>1, <1>2, <1>7, <3>1
  <2> QED BY <2>1, <2>2
<1>10. \A r, s \in Unfiltered' : cache'[r].ring = cache'[s].ring => r = s
  <2>1. \A r \in Unfiltered : cache'[r].ring = cache[r].ring BY <1>1, <1>6
  <2> QED BY <1>5, <1>6, <2>1 DEF CacheInv
<1>11. \A r \in Unfiltered' : /\ Entry(r)'.type \in cache'[r].mask
                              /\ \A t \in cache'[r].mask : t <= Entry(r)'.type
  <2> TAKE r \in Unfiltered'
  <2>1. r \in Unfiltered /\ r \in 1 .. Len(cache) BY <1>5, <1>6
  <2>2. /\ Entry(r).type \in cache[r].mask /\ \A t \in cache[r].mask : t <= Entry(r).type
    BY <1>6, <2>1 DEF CacheInv
  <2>3. Entry(r)' = Entry(r) BY <1>3, <2>1
  <2>4. CASE r = l
    <3>1. cache'[r].mask = cache[r].mask \cup {work[a].type} BY <1>1, <2>1, <2>4
    <3> QED BY <2>2, <2>3, <2>4, <3>1
  <2>5. CASE r # l
    <3>1. cache'[r].mask = cache[r].mask BY <1>1, <2>1, <2>5
    <3> QED BY <2>2, <2>3, <3>1
  <2> QED BY <2>4, <2>5
<1>12. \A k \in DOMAIN cache' : \E r \in Unfiltered' : StandsFor(r, k)'
  <2>1. ASSUME NEW k \in 1 .. Len(cache), NEW r \in Unfiltered, StandsFor(r, k)
        PROVE  StandsFor(r, k)'
    <3>1. /\ cache'[r].ring = cache[r].ring /\ cache'[k].ring = cache[k].ring
          /\ cache'[r].acc = cache[r].acc /\ cache'[k].acc = cache[k].acc
          /\ Entry(r)' = Entry(r) /\ Entry(k)' = Entry(k)
      BY <1>1, <1>3, <1>6, <2>1
    <3> QED BY <2>1, <3>1 DEF StandsFor, SameSource
  <2>2. PICK r \in Unfiltered : StandsFor(r, l) BY <1>2, <1>6 DEF CacheInv
  <2>3. StandsFor(r, n)'
    <3>1. /\ cache'[r].ring = cache[r].ring /\ cache'[r].acc = cache[r].acc
          /\ Entry(r)' = Entry(r) /\ Entry(r).type \in Nat
      BY <1>1, <1>3, <1>6, <1>7, <2>2
    <3>2. Entry(r)'.type >= Entry(n)'.type
      BY <1>2, <1>3, <1>7, <1>8, <2>2, <3>1 DEF StandsFor
    <3>3. SameSource(cache[r].acc, a) BY <2>2 DEF StandsFor, SameSource
    <3> QED BY <1>1, <2>2, <3>1, <3>2, <3>3 DEF StandsFor, SameSource
  <2>4. \A k \in 1 .. Len(cache) : \E s \in Unfiltered : StandsFor(s, k) BY <1>2, <1>6 DEF CacheInv
  <2> QED BY <1>1, <1>4, <1>5, <2>1, <2>2, <2>3, <2>4
<1>13. CacheInv' BY <1>9, <1>10, <1>11, <1>12 DEF CacheInv
<1> QED BY <1>3, <1>5, <1>13

LEMMA UpCache ==
    ASSUME Inv, NEW n \in Nat, n = Len(cache) + 1, NEW a \in Accesses, NEW l \in Unfiltered,
           work' = work, cache' = Merged(a, l), SameSource(a, cache[l].acc),
           work[a].type > Entry(l).type
    PROVE  /\ CacheInv' /\ Unfiltered' = (Unfiltered \ {l}) \cup {n}
           /\ \A k \in 1 .. Len(cache) : Entry(k)' = Entry(k)
           /\ Entry(n)' = work[a]
<1>1. /\ cache' \in Seq(EntryType) /\ Len(cache') = n /\ DOMAIN cache' = 1 .. n
      /\ \A k \in 1 .. Len(cache) :
           /\ cache'[k].acc = cache[k].acc /\ cache'[k].ring = cache[k].ring
           /\ k # l => cache'[k] = cache[k]
      /\ cache'[l].filtered = TRUE
      /\ cache'[n].acc = a /\ cache'[n].filtered = FALSE /\ cache'[n].ring = cache[l].ring
      /\ cache'[n].mask = cache[l].mask \cup {work[a].type}
  <2>1. l \in DOMAIN cache BY DEF Unfiltered
  <2>2. /\ cache' \in Seq(EntryType) /\ Len(cache') = Len(cache) + 1
        /\ \A k \in 1 .. Len(cache) : k # l => cache'[k] = cache[k]
        /\ cache'[l].acc = cache[l].acc /\ cache'[l].filtered = TRUE
        /\ cache'[l].ring = cache[l].ring
        /\ cache'[n].acc = a /\ cache'[n].filtered = FALSE /\ cache'[n].ring = cache[l].ring
        /\ cache'[n].mask = cache[l].mask \cup {work[a].type}
    BY <2>1, UpFacts
  <2>3. ASSUME NEW k \in 1 .. Len(cache)
        PROVE  /\ cache'[k].acc = cache[k].acc /\ cache'[k].ring = cache[k].ring
               /\ k # l => cache'[k] = cache[k]
    <3>1. CASE k = l BY <2>2, <3>1
    <3>2. CASE k # l BY <2>2, <3>2
    <3> QED BY <3>1, <3>2
  <2> QED BY <2>2, <2>3
<1>2. /\ Len(cache) \in Nat /\ DOMAIN cache = 1 .. Len(cache) /\ n \in Nat /\ n \in 1 .. n
      /\ l \in 1 .. Len(cache)
  BY CacheFacts
<1>3. n \notin 1 .. Len(cache) BY <1>2
<1>4. /\ \A k \in 1 .. Len(cache) : Entry(k)' = Entry(k)
      /\ Entry(n)' = work[a]
  BY <1>1 DEF Entry
<1>5. \A k \in 1 .. n : k = n \/ k \in 1 .. Len(cache) BY <1>2
<1>6. Unfiltered' = (Unfiltered \ {l}) \cup {n}
  <2>1. \A k \in 1 .. Len(cache) : k \in 1 .. n BY <1>2
  <2>2. \A k \in 1 .. n : k = n \/ (k \in 1 .. Len(cache) /\ k = l)
                          \/ (k \in 1 .. Len(cache) /\ k # l)
    BY <1>5
  <2>3. Unfiltered' = {k \in 1 .. n : ~cache'[k].filtered} BY <1>1 DEF Unfiltered
  <2>4. Unfiltered = {k \in 1 .. Len(cache) : ~cache[k].filtered} BY <1>2 DEF Unfiltered
  <2> QED BY <1>1, <1>2, <1>3, <2>1, <2>2, <2>3, <2>4
<1>7. CacheInv /\ Unfiltered \subseteq 1 .. Len(cache) BY CacheFacts DEF Inv
<1>8. \A k \in 1 .. Len(cache) :
        /\ cache[k].ring <= Len(cache) /\ cache[k].ring \in Nat /\ Entry(k).type \in Nat
        /\ \A t \in cache[k].mask : t \in Nat
  <2> TAKE k \in 1 .. Len(cache)
  <2>1. k \in DOMAIN cache BY <1>2
  <2>2. cache[k].ring \in Nat /\ Entry(k).type \in Nat /\ cache[k].mask \subseteq AccessTypes
    BY <2>1, EntryFacts
  <2>3. \A t \in cache[k].mask : t \in Nat BY <2>2, Sizes
  <2>4. cache[k].ring <= Len(cache) BY <1>7, <2>1 DEF CacheInv
  <2> QED BY <2>2, <2>3, <2>4
<1>9. work[a].type \in Nat BY AccessFacts
<1>10. \A k \in DOMAIN cache' : cache'[k].ring <= Len(cache')
  BY <1>1, <1>2, <1>5, <1>8
<1>11. \A r, s \in Unfiltered' : cache'[r].ring = cache'[s].ring => r = s
  <2>1. \A r \in Unfiltered \ {l} : cache'[r].ring = cache[r].ring /\ cache[r].ring # cache[l].ring
    BY <1>1, <1>7 DEF CacheInv
  <2> QED BY <1>1, <1>6, <1>7, <2>1 DEF CacheInv
<1>12. \A r \in Unfiltered' : /\ Entry(r)'.type \in cache'[r].mask
                              /\ \A t \in cache'[r].mask : t <= Entry(r)'.type
  <2>1. ASSUME NEW r \in Unfiltered \ {l}
        PROVE  /\ Entry(r)'.type \in cache'[r].mask
               /\ \A t \in cache'[r].mask : t <= Entry(r)'.type
    BY <1>1, <1>4, <1>7 DEF CacheInv
  <2>2. \A t \in cache[l].mask : t <= Entry(l).type BY <1>7 DEF CacheInv
  <2>3. /\ work[a].type \in cache'[n].mask
        /\ \A t \in cache'[n].mask : t <= work[a].type
    BY <1>1, <1>2, <1>8, <1>9, <2>2
  <2> QED BY <1>4, <1>6, <2>1, <2>3
<1>13. \A k \in DOMAIN cache' : \E r \in Unfiltered' : StandsFor(r, k)'
  <2>1. ASSUME NEW k \in 1 .. Len(cache) PROVE \E r \in Unfiltered' : StandsFor(r, k)'
    <3>1. PICK r \in Unfiltered : StandsFor(r, k) BY <1>2, <1>7 DEF CacheInv
    <3>2. /\ cache'[r].ring = cache[r].ring /\ cache'[k].ring = cache[k].ring
          /\ cache'[r].acc = cache[r].acc /\ cache'[k].acc = cache[k].acc
          /\ Entry(r)' = Entry(r) /\ Entry(k)' = Entry(k)
          /\ Entry(r).type \in Nat /\ Entry(k).type \in Nat
      BY <1>1, <1>4, <1>7, <1>8, <3>1
    <3>3. CASE r # l
      <4>1. StandsFor(r, k)' BY <3>1, <3>2 DEF StandsFor, SameSource
      <4> QED BY <1>6, <3>1, <3>3, <4>1
    <3>4. CASE r = l
      <4>1. Entry(n)'.type >= Entry(k)'.type
        BY <1>4, <1>9, <3>1, <3>2, <3>4 DEF StandsFor
      <4>2. SameSource(a, cache[k].acc) BY <3>1, <3>4 DEF StandsFor, SameSource
      <4>3. StandsFor(n, k)'
        BY <1>1, <3>1, <3>2, <3>4, <4>1, <4>2 DEF StandsFor, SameSource
      <4> QED BY <1>6, <4>3
    <3> QED BY <3>3, <3>4
  <2>2. StandsFor(n, n)' BY <1>4, <1>9 DEF StandsFor, SameSource
  <2> QED BY <1>1, <1>5, <1>6, <2>1, <2>2
<1>14. CacheInv' BY <1>10, <1>11, <1>12, <1>13 DEF CacheInv
<1> QED BY <1>4, <1>6, <1>14

-----------------------------------------------------------------------------
(* The counters of the fetch.                                              *)

LEMMA CardAdd ==
    ASSUME NEW S, IsFiniteSet(S), NEW x, x \notin S
    PROVE  Cardinality(S \cup {x}) = Cardinality(S) + 1
BY FS_AddElement

LEMMA CardSwap ==
    ASSUME NEW S, IsFiniteSet(S), NEW x, x \notin S, NEW y \in S
    PROVE  Cardinality((S \ {y}) \cup {x}) = Cardinality(S)
<1>1. IsFiniteSet(S \ {y}) /\ Cardinality(S \ {y}) = Cardinality(S) - 1 BY FS_RemoveElement
<1>2. Cardinality((S \ {y}) \cup {x}) = Cardinality(S) - 1 + 1 BY <1>1, CardAdd
<1>3. Cardinality(S) \in Nat BY FS_CardinalityType
<1> QED BY <1>2, <1>3

LEMMA FetchTypes ==
    ASSUME Inv
    PROVE  /\ utlbs \in [Utlbs -> [pending : Nat, last : Nat]]
           /\ last_fault \in 0 .. Len(cache) /\ num_coalesced \in 0 .. Len(cache)
           /\ single_instance \in BOOLEAN /\ max_utlb_id \in Utlbs
           /\ \A u \in Utlbs : utlbs[u].pending \in Nat /\ utlbs[u].last \in Nat
<1>1. utlbs \in [Utlbs -> [pending : Nat, last : Nat]] BY DEF Inv, TypeOK
<1> QED BY <1>1 DEF Inv, TypeOK

LEMMA NewCount ==
    ASSUME Inv, pc = "fetch", NEW n \in Nat, n = Len(cache) + 1, NEW a \in Accesses,
           work' = work, cache' = Append(cache, NewEntry(a)),
           utlbs' = [utlbs EXCEPT ![work[a].utlb] = [pending |-> @.pending + 1, last |-> n]],
           last_fault' = n, num_coalesced' = num_coalesced + 1,
           single_instance' = (single_instance /\
               (last_fault # 0 => work[a].inst = Entry(last_fault).inst))
    PROVE  CountInv'
<1> DEFINE v == work[a].utlb
<1>1. /\ Unfiltered' = Unfiltered \cup {n} /\ Entry(n)' = work[a]
      /\ \A k \in 1 .. Len(cache) : Entry(k)' = Entry(k)
  BY NewCache
<1>2. /\ Len(cache) \in Nat /\ Unfiltered \subseteq 1 .. Len(cache) /\ IsFiniteSet(Unfiltered)
      /\ DOMAIN cache = 1 .. Len(cache) /\ n \notin 1 .. Len(cache)
      /\ \A u \in Utlbs : OfUtlb(u) \subseteq Unfiltered /\ IsFiniteSet(OfUtlb(u))
  BY CacheFacts
<1>3. v \in Utlbs BY AccessFacts
<1>4. /\ num_coalesced = Cardinality(Unfiltered)
      /\ \A u \in Utlbs : /\ utlbs[u].pending = Cardinality(OfUtlb(u))
                          /\ utlbs[u].pending > 0 => utlbs[u].last \in OfUtlb(u)
      /\ single_instance <=> \A k, l \in Unfiltered : Entry(k).inst = Entry(l).inst
      /\ last_fault = 0 <=> cache = <<>>
  BY DEF Inv, CountInv, InBatch
<1>5. num_coalesced' = Cardinality(Unfiltered') BY <1>1, <1>2, <1>4, CardAdd
<1>6. \A k \in Unfiltered : Entry(k)' = Entry(k) BY <1>1, <1>2
<1>7. ASSUME NEW u \in Utlbs
      PROVE  /\ utlbs'[u].pending = Cardinality(OfUtlb(u)')
             /\ utlbs'[u].pending > 0 => utlbs'[u].last \in OfUtlb(u)'
  <2>1. CASE u = v
    <3>1. utlbs'[u] = [pending |-> utlbs[u].pending + 1, last |-> n] BY <1>3, <2>1, FetchTypes
    <3>2. OfUtlb(u)' = OfUtlb(u) \cup {n} BY <1>1, <1>6, <2>1 DEF OfUtlb
    <3>3. n \notin OfUtlb(u) BY <1>2
    <3>4. Cardinality(OfUtlb(u)') = Cardinality(OfUtlb(u)) + 1 BY <1>2, <3>2, <3>3, CardAdd
    <3> QED BY <1>4, <3>1, <3>2, <3>4
  <2>2. CASE u # v
    <3>1. utlbs'[u] = utlbs[u] BY <1>3, <2>2, FetchTypes
    <3>2. OfUtlb(u)' = OfUtlb(u) BY <1>1, <1>6, <2>2 DEF OfUtlb
    <3> QED BY <1>4, <3>1, <3>2
  <2> QED BY <2>1, <2>2
<1>8. single_instance' <=> \A k, l \in Unfiltered' : Entry(k)'.inst = Entry(l)'.inst
  <2>1. CASE last_fault = 0
    <3>1. Len(cache) = 0 BY <1>4, <2>1
    <3>2. Unfiltered = {} BY <1>2, <3>1
    <3>3. single_instance' <=> single_instance BY <2>1
    <3> QED BY <1>1, <1>4, <3>2, <3>3
  <2>2. CASE last_fault # 0
    <3>1. last_fault \in DOMAIN cache BY <1>2, <2>2, FetchTypes
    <3>2. PICK r \in Unfiltered : StandsFor(r, last_fault) BY <3>1 DEF Inv, CacheInv
    <3>3. Entry(last_fault).inst = Entry(r).inst BY <3>2 DEF StandsFor, SameSource, Entry
    <3>4. single_instance' <=> single_instance /\ work[a].inst = Entry(r).inst
      BY <2>2, <3>3
    <3>5. (\A k, l \in Unfiltered' : Entry(k)'.inst = Entry(l)'.inst) <=>
            /\ \A k, l \in Unfiltered : Entry(k).inst = Entry(l).inst
            /\ \A k \in Unfiltered : Entry(k).inst = work[a].inst
      BY <1>1, <1>6
    <3> QED BY <1>4, <3>2, <3>4, <3>5
  <2> QED BY <2>1, <2>2
<1>9. last_fault' = 0 <=> cache' = <<>>
  <2>1. cache' # <<>> BY NewFacts, CacheFacts
  <2> QED BY <1>2, <2>1
<1> QED BY <1>5, <1>7, <1>8, <1>9 DEF CountInv

LEMMA DownCount ==
    ASSUME Inv, pc = "fetch", NEW n \in Nat, n = Len(cache) + 1, NEW a \in Accesses,
           NEW l \in DOMAIN cache, work' = work, cache' = Merged(a, l),
           SameSource(a, cache[l].acc), work[a].type <= Entry(l).type,
           UNCHANGED <<utlbs, last_fault, num_coalesced, single_instance>>
    PROVE  CountInv'
<1>1. Unfiltered' = Unfiltered /\ \A k \in 1 .. Len(cache) : Entry(k)' = Entry(k) BY DownCache
<1>2. \A k \in Unfiltered : Entry(k)' = Entry(k) BY <1>1, CacheFacts
<1>3. \A u \in Utlbs : OfUtlb(u)' = OfUtlb(u) BY <1>1, <1>2 DEF OfUtlb
<1>4. /\ num_coalesced = Cardinality(Unfiltered)
      /\ \A u \in Utlbs : /\ utlbs[u].pending = Cardinality(OfUtlb(u))
                          /\ utlbs[u].pending > 0 => utlbs[u].last \in OfUtlb(u)
      /\ single_instance <=> \A k, m \in Unfiltered : Entry(k).inst = Entry(m).inst
      /\ last_fault = 0 <=> cache = <<>>
  BY DEF Inv, CountInv, InBatch
<1>5. cache # <<>> /\ cache' # <<>>
  <2>1. l \in 1 .. Len(cache) /\ Len(cache) \in Nat BY CacheFacts
  <2>2. cache' \in Seq(EntryType) /\ Len(cache') = Len(cache) + 1 BY DownFacts
  <2>3. Len(cache) > 0 /\ Len(cache') > 0 BY <2>1, <2>2
  <2> QED BY <2>3
<1>6. /\ num_coalesced' = Cardinality(Unfiltered')
      /\ \A u \in Utlbs : /\ utlbs'[u].pending = Cardinality(OfUtlb(u)')
                          /\ utlbs'[u].pending > 0 => utlbs'[u].last \in OfUtlb(u)'
  BY <1>1, <1>3, <1>4
<1>7. single_instance' <=> \A k, m \in Unfiltered' : Entry(k)'.inst = Entry(m)'.inst
  BY <1>1, <1>2, <1>4
<1> QED BY <1>4, <1>5, <1>6, <1>7 DEF CountInv

LEMMA UpCount ==
    ASSUME Inv, pc = "fetch", NEW n \in Nat, n = Len(cache) + 1, NEW a \in Accesses,
           NEW l \in OfUtlb(work[a].utlb), work' = work, cache' = Merged(a, l),
           SameSource(a, cache[l].acc), work[a].type > Entry(l).type,
           utlbs' = [utlbs EXCEPT ![work[a].utlb].last = n],
           UNCHANGED <<last_fault, num_coalesced, single_instance>>
    PROVE  CountInv'
<1> DEFINE v == work[a].utlb
<1>1. l \in Unfiltered /\ Entry(l).utlb = v BY DEF OfUtlb
<1>2. /\ Unfiltered' = (Unfiltered \ {l}) \cup {n} /\ Entry(n)' = work[a]
      /\ \A k \in 1 .. Len(cache) : Entry(k)' = Entry(k)
  BY <1>1, UpCache
<1>3. /\ Len(cache) \in Nat /\ Unfiltered \subseteq 1 .. Len(cache) /\ IsFiniteSet(Unfiltered)
      /\ DOMAIN cache = 1 .. Len(cache) /\ n \notin 1 .. Len(cache)
      /\ \A u \in Utlbs : OfUtlb(u) \subseteq Unfiltered /\ IsFiniteSet(OfUtlb(u))
  BY CacheFacts
<1>4. v \in Utlbs BY AccessFacts
<1>5. /\ num_coalesced = Cardinality(Unfiltered)
      /\ \A u \in Utlbs : /\ utlbs[u].pending = Cardinality(OfUtlb(u))
                          /\ utlbs[u].pending > 0 => utlbs[u].last \in OfUtlb(u)
      /\ single_instance <=> \A k, m \in Unfiltered : Entry(k).inst = Entry(m).inst
      /\ last_fault = 0 <=> cache = <<>>
  BY DEF Inv, CountInv, InBatch
<1>6. num_coalesced' = Cardinality(Unfiltered')
  <2>1. n \notin Unfiltered BY <1>3
  <2> QED BY <1>1, <1>2, <1>3, <1>5, <2>1, CardSwap
<1>7. \A k \in Unfiltered : Entry(k)' = Entry(k) BY <1>2, <1>3
<1>8. ASSUME NEW u \in Utlbs
      PROVE  /\ utlbs'[u].pending = Cardinality(OfUtlb(u)')
             /\ utlbs'[u].pending > 0 => utlbs'[u].last \in OfUtlb(u)'
  <2>1. CASE u = v
    <3>1. utlbs'[u].pending = utlbs[u].pending /\ utlbs'[u].last = n
      BY <1>4, <2>1, FetchTypes
    <3>2. OfUtlb(u)' = (OfUtlb(u) \ {l}) \cup {n} BY <1>2, <1>7, <2>1 DEF OfUtlb
    <3>3. n \notin OfUtlb(u) /\ l \in OfUtlb(u) BY <1>3, <2>1
    <3>4. Cardinality(OfUtlb(u)') = Cardinality(OfUtlb(u)) BY <1>3, <3>2, <3>3, CardSwap
    <3> QED BY <1>5, <3>1, <3>2, <3>4
  <2>2. CASE u # v
    <3>1. utlbs'[u] = utlbs[u] BY <1>4, <2>2, FetchTypes
    <3>2. OfUtlb(u)' = OfUtlb(u) BY <1>1, <1>2, <1>7, <2>2 DEF OfUtlb
    <3> QED BY <1>5, <3>1, <3>2
  <2> QED BY <2>1, <2>2
<1>9. single_instance' <=> \A k, m \in Unfiltered' : Entry(k)'.inst = Entry(m)'.inst
  <2>1. work[a].inst = Entry(l).inst BY DEF SameSource, Entry
  <2>2. (\A k, m \in Unfiltered' : Entry(k)'.inst = Entry(m)'.inst) <=>
          \A k, m \in Unfiltered : Entry(k).inst = Entry(m).inst
    <3>1. ASSUME \A k, m \in Unfiltered' : Entry(k)'.inst = Entry(m)'.inst,
                 NEW k \in Unfiltered
          PROVE  Entry(k).inst = work[a].inst
      <4>1. CASE k = l BY <2>1, <4>1
      <4>2. CASE k # l
        <5>1. k \in Unfiltered' /\ n \in Unfiltered' BY <1>2, <4>2
        <5>2. Entry(k)'.inst = Entry(n)'.inst BY <3>1, <5>1
        <5> QED BY <1>2, <1>7, <5>2
      <4> QED BY <4>1, <4>2
    <3>2. ASSUME \A k, m \in Unfiltered : Entry(k).inst = Entry(m).inst, NEW k \in Unfiltered'
          PROVE  Entry(k)'.inst = work[a].inst
      <4>1. CASE k = n BY <1>2, <4>1
      <4>2. CASE k # n
        <5>1. k \in Unfiltered BY <1>2, <4>2
        <5>2. Entry(k).inst = Entry(l).inst BY <1>1, <3>2, <5>1
        <5> QED BY <1>7, <2>1, <5>1, <5>2
      <4> QED BY <4>1, <4>2
    <3> QED BY <3>1, <3>2
  <2> QED BY <1>5, <2>2
<1>10. cache # <<>> /\ cache' # <<>>
  <2>1. l \in 1 .. Len(cache) /\ l \in DOMAIN cache BY <1>1, <1>3
  <2>2. cache' \in Seq(EntryType) /\ Len(cache') = Len(cache) + 1 BY <2>1, UpFacts
  <2>3. Len(cache) > 0 /\ Len(cache') > 0 BY <1>3, <2>1, <2>2
  <2> QED BY <2>3
<1> QED BY <1>5, <1>6, <1>8, <1>9, <1>10 DEF CountInv

\* What an iteration of the fetch does to the cache and its counters.
Fetched(a) ==
    /\ CacheInv' /\ CountInv'
    /\ cache' \in Seq(EntryType) /\ Len(cache') = Len(cache) + 1
    /\ \A k \in 1 .. Len(cache) :
         cache'[k].acc = cache[k].acc /\ cache'[k].fatal = cache[k].fatal
    /\ cache'[Len(cache) + 1].acc = a /\ cache'[Len(cache) + 1].fatal = FALSE
    /\ utlbs' \in [Utlbs -> [pending : Nat, last : Nat]]
    /\ \A u \in Utlbs : u # work[a].utlb => utlbs'[u] = utlbs[u]
    /\ last_fault' \in 0 .. Len(cache) + 1 /\ num_coalesced' \in 0 .. Len(cache) + 1
    /\ single_instance' \in BOOLEAN

LEMMA NewFetched ==
    ASSUME Inv, pc = "fetch", NEW a \in Accesses, work' = work, cache' = Append(cache, NewEntry(a)),
           utlbs' = [utlbs EXCEPT ![work[a].utlb] =
                       [pending |-> @.pending + 1, last |-> Len(cache) + 1]],
           last_fault' = Len(cache) + 1, num_coalesced' = num_coalesced + 1,
           single_instance' = (single_instance /\
               (last_fault # 0 => work[a].inst = Entry(last_fault).inst))
    PROVE  Fetched(a)
<1>1. PICK n \in Nat : n = Len(cache) + 1 BY CacheFacts
<1>2. CacheInv' BY <1>1, NewCache
<1>3. CountInv' BY <1>1, NewCount
<1>4. /\ cache' \in Seq(EntryType) /\ Len(cache') = Len(cache) + 1
      /\ \A k \in 1 .. Len(cache) : cache'[k].acc = cache[k].acc /\ cache'[k].fatal = cache[k].fatal
      /\ cache'[Len(cache) + 1].acc = a /\ cache'[Len(cache) + 1].fatal = FALSE
  BY NewFacts, NewEntryFacts
<1>5. /\ utlbs' \in [Utlbs -> [pending : Nat, last : Nat]]
      /\ \A u \in Utlbs : u # work[a].utlb => utlbs'[u] = utlbs[u]
  <2>1. work[a].utlb \in Utlbs BY AccessFacts
  <2>2. [pending |-> utlbs[work[a].utlb].pending + 1, last |-> Len(cache) + 1]
          \in [pending : Nat, last : Nat]
    BY <1>1, <2>1, FetchTypes
  <2> QED BY <2>1, <2>2, FetchTypes
<1>6. last_fault' \in 0 .. Len(cache) + 1 /\ num_coalesced' \in 0 .. Len(cache) + 1
  BY <1>1, CacheFacts, FetchTypes
<1>7. single_instance' \in BOOLEAN OBVIOUS
<1> QED BY <1>2, <1>3, <1>4, <1>5, <1>6, <1>7 DEF Fetched

LEMMA DownFetched ==
    ASSUME Inv, pc = "fetch", NEW a \in Accesses, NEW l \in DOMAIN cache,
           work' = work, cache' = Merged(a, l),
           SameSource(a, cache[l].acc), work[a].type <= Entry(l).type,
           UNCHANGED <<utlbs, last_fault, num_coalesced, single_instance>>
    PROVE  Fetched(a)
<1>1. PICK n \in Nat : n = Len(cache) + 1 BY CacheFacts
<1>2. CacheInv' BY <1>1, DownCache
<1>3. CountInv' BY <1>1, DownCount
<1>4. /\ cache' \in Seq(EntryType) /\ Len(cache') = Len(cache) + 1
      /\ cache'[Len(cache) + 1].acc = a /\ cache'[Len(cache) + 1].fatal = FALSE
  BY DownFacts
<1>5. \A k \in 1 .. Len(cache) : cache'[k].acc = cache[k].acc /\ cache'[k].fatal = cache[k].fatal
  BY DownFacts
<1>6. last_fault' \in 0 .. Len(cache) + 1 /\ num_coalesced' \in 0 .. Len(cache) + 1
  BY <1>1, CacheFacts, FetchTypes
<1>7. utlbs' \in [Utlbs -> [pending : Nat, last : Nat]] /\ single_instance' \in BOOLEAN
  BY FetchTypes
<1> QED BY <1>2, <1>3, <1>4, <1>5, <1>6, <1>7 DEF Fetched

LEMMA UpFetched ==
    ASSUME Inv, pc = "fetch", NEW a \in Accesses, NEW l \in OfUtlb(work[a].utlb),
           work' = work, cache' = Merged(a, l),
           SameSource(a, cache[l].acc), work[a].type > Entry(l).type,
           utlbs' = [utlbs EXCEPT ![work[a].utlb].last = Len(cache) + 1],
           UNCHANGED <<last_fault, num_coalesced, single_instance>>
    PROVE  Fetched(a)
<1>1. PICK n \in Nat : n = Len(cache) + 1 BY CacheFacts
<1>2. l \in Unfiltered /\ l \in DOMAIN cache BY DEF OfUtlb, Unfiltered
<1>3. CacheInv' BY <1>1, <1>2, UpCache
<1>4. CountInv' BY <1>1, UpCount
<1>5. /\ cache' \in Seq(EntryType) /\ Len(cache') = Len(cache) + 1
      /\ cache'[Len(cache) + 1].acc = a /\ cache'[Len(cache) + 1].fatal = FALSE
  BY <1>2, UpFacts
<1>6. \A k \in 1 .. Len(cache) : cache'[k].acc = cache[k].acc /\ cache'[k].fatal = cache[k].fatal
  BY <1>2, UpFacts
<1>7. last_fault' \in 0 .. Len(cache) + 1 /\ num_coalesced' \in 0 .. Len(cache) + 1
  BY <1>1, CacheFacts, FetchTypes
<1>8. single_instance' \in BOOLEAN BY FetchTypes
<1>9. /\ utlbs' \in [Utlbs -> [pending : Nat, last : Nat]]
      /\ \A u \in Utlbs : u # work[a].utlb => utlbs'[u] = utlbs[u]
  <2>1. work[a].utlb \in Utlbs BY AccessFacts
  <2>2. [utlbs[work[a].utlb] EXCEPT !.last = Len(cache) + 1] \in [pending : Nat, last : Nat]
    BY <1>1, <2>1, FetchTypes
  <2>3. utlbs' = [utlbs EXCEPT ![work[a].utlb] =
                    [utlbs[work[a].utlb] EXCEPT !.last = Len(cache) + 1]]
    OBVIOUS
  <2> QED BY <2>1, <2>2, <2>3, FetchTypes
<1> QED BY <1>3, <1>4, <1>5, <1>6, <1>7, <1>8, <1>9 DEF Fetched

LEMMA FetchEntryFetched ==
    ASSUME Inv, FetchEntry
    PROVE  Head(buffer) \in Accesses /\ Fetched(Head(buffer))
<1>1. pc = "fetch" /\ work' = work BY DEF FetchEntry
<1>2. Head(buffer) \in Accesses
  <2>1. buffer \in Seq(Accesses) /\ Len(buffer) > 0 BY DEF Inv, TypeOK, FetchEntry
  <2> QED BY <2>1
<1>3. PICK a \in Accesses : a = Head(buffer) BY <1>2
<1> DEFINE v == work[a].utlb
           hit == cache # <<>> /\ IsLastTlbFault(a)
           again == cache # <<>> /\ ~IsLastTlbFault(a) /\ IsLastFault(a)
<1>4. v \in Utlbs /\ work[a].type \in Nat BY AccessFacts
<1>5. CASE hit
  <2>1. /\ cache' = Merged(a, utlbs[v].last)
        /\ utlbs' = IF work[a].type > Entry(utlbs[v].last).type
                    THEN [utlbs EXCEPT ![v].last = Len(cache) + 1] ELSE utlbs
        /\ UNCHANGED <<last_fault, num_coalesced, single_instance>>
    BY <1>3, <1>5 DEF FetchEntry
  <2>2. utlbs[v].last \in OfUtlb(v) /\ SameSource(a, cache[utlbs[v].last].acc)
    <3>1. utlbs[v].pending > 0 /\ SameSource(a, cache[utlbs[v].last].acc)
      BY <1>5 DEF IsLastTlbFault
    <3>2. utlbs[v].pending > 0 => utlbs[v].last \in OfUtlb(v)
      BY <1>1, <1>4 DEF Inv, CountInv, InBatch
    <3> QED BY <3>1, <3>2
  <2>3. PICK l \in OfUtlb(v) : l = utlbs[v].last BY <2>2
  <2>4. l \in DOMAIN cache BY DEF OfUtlb, Unfiltered
  <2>5. SameSource(a, cache[l].acc) /\ cache' = Merged(a, l) BY <2>1, <2>2, <2>3
  <2>6. Entry(l).type \in Nat BY <2>4, EntryFacts
  <2>7. CASE work[a].type > Entry(l).type
    <3>1. utlbs' = [utlbs EXCEPT ![v].last = Len(cache) + 1] BY <2>1, <2>3, <2>7
    <3>2. Fetched(a) BY <1>1, <2>1, <2>5, <2>7, <3>1, UpFetched
    <3> QED BY <1>3, <3>2
  <2>8. CASE work[a].type <= Entry(l).type
    <3>1. utlbs' = utlbs BY <1>4, <2>1, <2>3, <2>6, <2>8
    <3>2. Fetched(a) BY <1>1, <2>1, <2>4, <2>5, <2>8, <3>1, DownFetched
    <3> QED BY <1>3, <3>2
  <2> QED BY <1>4, <2>6, <2>7, <2>8
<1>6. CASE again
  <2>1. /\ cache' = Merged(a, last_fault)
        /\ UNCHANGED <<utlbs, last_fault, num_coalesced, single_instance>>
    BY <1>3, <1>6 DEF FetchEntry
  <2>2. /\ last_fault # 0 /\ SameSource(a, cache[last_fault].acc)
        /\ work[a].type <= Entry(last_fault).type
    BY <1>6 DEF IsLastFault
  <2>3. last_fault \in DOMAIN cache BY <2>2, CacheFacts, FetchTypes
  <2>4. Fetched(a) BY <1>1, <2>1, <2>2, <2>3, DownFetched
  <2> QED BY <1>3, <2>4
<1>7. CASE ~hit /\ ~again
  <2>1. /\ cache' = Append(cache, NewEntry(a))
        /\ utlbs' = [utlbs EXCEPT ![v] = [pending |-> @.pending + 1, last |-> Len(cache) + 1]]
        /\ last_fault' = Len(cache) + 1
        /\ num_coalesced' = num_coalesced + 1
        /\ single_instance' = (single_instance /\
               (last_fault # 0 => work[a].inst = Entry(last_fault).inst))
    BY <1>3, <1>7 DEF FetchEntry
  <2>2. Fetched(a) BY <1>1, <2>1, NewFetched
  <2> QED BY <1>3, <2>2
<1> QED BY <1>5, <1>6, <1>7

LEMMA FetchEntryInv == Inv /\ FetchEntry => Inv'
<1> SUFFICES ASSUME Inv, FetchEntry PROVE Inv'
  OBVIOUS
<1>1. /\ pc = "fetch" /\ pc' = "fetch" /\ cached_put > 0 /\ RoomInBatch
      /\ buffer' = Tail(buffer) /\ cached_put' = cached_put - 1
      /\ UNCHANGED <<work, acc, perm, prot, pc, cancelling, serviceVars, disturbances>>
  BY DEF FetchEntry
<1>2. buffer \in Seq(Accesses) /\ cached_put \in 0 .. Len(buffer) /\ Len(buffer) > 0
  BY <1>1 DEF Inv, TypeOK
<1>3. PICK a \in Accesses : a = Head(buffer) /\ Fetched(a) BY FetchEntryFetched
<1>4. /\ Len(cache) \in Nat /\ DOMAIN cache = 1 .. Len(cache)
      /\ cache' \in Seq(EntryType) /\ Len(cache') = Len(cache) + 1
      /\ DOMAIN cache' = 1 .. Len(cache) + 1
      /\ \A k \in 1 .. Len(cache) :
           cache'[k].acc = cache[k].acc /\ cache'[k].fatal = cache[k].fatal
      /\ cache'[Len(cache) + 1].acc = a /\ cache'[Len(cache) + 1].fatal = FALSE
  BY <1>3, CacheFacts DEF Fetched
<1>5. /\ max_utlb_id' \in Utlbs /\ max_utlb_id <= max_utlb_id' /\ work[a].utlb <= max_utlb_id'
      /\ max_utlb_id \in Nat /\ max_utlb_id' \in Nat /\ work[a].utlb \in Nat
  <2>1. max_utlb_id' = Max({max_utlb_id, work[a].utlb}) BY <1>3 DEF FetchEntry
  <2>2. max_utlb_id \in Utlbs /\ work[a].utlb \in Utlbs BY AccessFacts, FetchTypes
  <2>3. max_utlb_id \in Nat /\ work[a].utlb \in Nat BY <2>2, Sizes
  <2> QED BY <2>1, <2>2, <2>3, MaxOfTwo, Sizes
<1>6. TypeOK'
  <2>1. buffer' \in Seq(Accesses) /\ cached_put' \in 0 .. Len(buffer') BY <1>1, <1>2
  <2>2. cancelling' \/ Len(cache') <= MaxBatchSize
    BY <1>1, <1>4, Sizes DEF RoomInBatch
  <2>3. /\ last_fault' \in 0 .. Len(cache') /\ num_coalesced' \in 0 .. Len(cache')
        /\ utlbs' \in [Utlbs -> [pending : Nat, last : Nat]] /\ single_instance' \in BOOLEAN
    BY <1>3, <1>4 DEF Fetched
  <2> QED BY <1>1, <1>4, <1>5, <2>1, <2>2, <2>3 DEF Inv, TypeOK, serviceVars
<1>7. ControlInv' BY <1>1 DEF Inv, ControlInv, serviceVars
<1>8. CacheInv' /\ CountInv' BY <1>3 DEF Fetched
<1>9. UtlbInv'
  <2>1. ASSUME NEW u \in Utlbs, u > max_utlb_id' PROVE utlbs'[u].pending = 0
    <3>1. u \in Nat BY Sizes
    <3>2. u # work[a].utlb /\ u > max_utlb_id BY <1>5, <2>1, <3>1
    <3>3. utlbs'[u] = utlbs[u] BY <1>3, <3>2 DEF Fetched
    <3> QED BY <3>2, <3>3 DEF Inv, UtlbInv
  <2> QED BY <2>1 DEF UtlbInv
<1>10. PermInv' BY <1>1 DEF Inv, PermInv
<1>11. OrderInv' BY <1>1 DEF OrderInv
<1>12. FatalInv'
  <2>1. \A k \in DOMAIN cache' : ~cache'[k].fatal
    <3>1. \A k \in DOMAIN cache : ~cache[k].fatal BY <1>1 DEF Inv, FatalInv
    <3> QED BY <1>4, <3>1
  <2> QED BY <1>1, <2>1 DEF FatalInv
<1>13. FreshInv'
  <2>1. ASSUME cancelling
        PROVE  /\ \A m \in DOMAIN buffer' : acc[buffer'[m]] = "faulted"
               /\ \A k \in DOMAIN cache' : acc[cache'[k].acc] = "faulted"
    <3>1. /\ \A m \in DOMAIN buffer : acc[buffer[m]] = "faulted"
          /\ \A k \in DOMAIN cache : acc[cache[k].acc] = "faulted"
      BY <1>1, <2>1 DEF Inv, FreshInv
    <3>2. acc[a] = "faulted" BY <1>2, <1>3, <3>1
    <3>3. \A m \in DOMAIN buffer' : m + 1 \in DOMAIN buffer /\ buffer'[m] = buffer[m + 1]
      BY <1>1, <1>2
    <3> QED BY <1>4, <3>1, <3>2, <3>3
  <2> QED BY <1>1, <2>1 DEF FreshInv
<1> QED BY <1>6, <1>7, <1>8, <1>9, <1>10, <1>11, <1>12, <1>13 DEF Inv

-----------------------------------------------------------------------------
(* Steps that leave the batch as it is.                                    *)

LEMMA CacheFrame ==
    ASSUME Inv, work' = work, cache' = cache
    PROVE  /\ CacheInv' /\ Unfiltered' = Unfiltered
           /\ \A k : Entry(k)' = Entry(k)
           /\ \A u : OfUtlb(u)' = OfUtlb(u)
<1>1. Unfiltered' = Unfiltered BY DEF Unfiltered
<1>2. \A k : Entry(k)' = Entry(k) BY DEF Entry
<1>3. \A u : OfUtlb(u)' = OfUtlb(u) BY <1>1, <1>2 DEF OfUtlb
<1>4. CacheInv' BY DEF Inv, CacheInv, Unfiltered, StandsFor, SameSource, Entry
<1> QED BY <1>1, <1>2, <1>3, <1>4

LEMMA FetchFrame ==
    ASSUME Inv, work' = work, UNCHANGED fetchVars, InBatch' => InBatch
    PROVE  UtlbInv' /\ CountInv'
<1>1. cache' = cache BY DEF fetchVars
<1>2. /\ Unfiltered' = Unfiltered /\ \A k : Entry(k)' = Entry(k)
      /\ \A u : OfUtlb(u)' = OfUtlb(u)
  BY <1>1, CacheFrame
<1>3. UtlbInv' BY DEF Inv, UtlbInv, fetchVars
<1>4. CountInv'
  <2> SUFFICES ASSUME InBatch' PROVE CountInv'
    BY DEF CountInv
  <2>1. /\ num_coalesced = Cardinality(Unfiltered)
        /\ \A u \in Utlbs : /\ utlbs[u].pending = Cardinality(OfUtlb(u))
                            /\ utlbs[u].pending > 0 => utlbs[u].last \in OfUtlb(u)
        /\ single_instance <=> \A k, l \in Unfiltered : Entry(k).inst = Entry(l).inst
        /\ last_fault = 0 <=> cache = <<>>
    BY DEF Inv, CountInv
  <2> QED BY <1>2, <2>1 DEF CountInv, fetchVars
<1> QED BY <1>3, <1>4

LEMMA OrderFrame ==
    ASSUME Inv, work' = work, cache' = cache, order' = order,
           pc' \in {"service", "cancel"} => pc \in {"service", "cancel"}
    PROVE  OrderInv'
<1>1. Unfiltered' = Unfiltered /\ \A k : Entry(k)' = Entry(k) BY CacheFrame
<1>2. \A k, l : Precedes(k, l)' = Precedes(k, l) BY <1>1 DEF Precedes
<1> SUFFICES ASSUME pc' \in {"service", "cancel"} PROVE OrderInv'
  BY DEF OrderInv
<1>3. /\ \A m \in DOMAIN order : order[m] \in Unfiltered
      /\ \A k \in Unfiltered : \E m \in DOMAIN order : order[m] = k
      /\ \A m \in 1 .. Len(order) - 1 : Precedes(order[m], order[m + 1])
  BY DEF Inv, OrderInv
<1> QED BY <1>1, <1>2, <1>3 DEF OrderInv

\* An empty batch.
LEMMA EmptyCache ==
    ASSUME cache' = <<>>
    PROVE  /\ CacheInv' /\ DOMAIN cache' = {} /\ Unfiltered' = {} /\ Len(cache') = 0
           /\ \A u : OfUtlb(u)' = {}
<1>1. DOMAIN cache' = {} /\ Len(cache') = 0 OBVIOUS
<1>2. Unfiltered' = {} BY <1>1 DEF Unfiltered
<1>3. \A u : OfUtlb(u)' = {} BY <1>2 DEF OfUtlb
<1>4. CacheInv' BY <1>1, <1>2 DEF CacheInv
<1> QED BY <1>1, <1>2, <1>3, <1>4

States == {"new", "replayed", "faulted", "done", "killed"}

LEMMA ReplayedFacts ==
    ASSUME NEW f \in [Accesses -> States]
    PROVE  /\ Replayed(f) \in [Accesses -> States]
           /\ \A a \in Accesses :
                /\ Replayed(f)[a] = "done" => f[a] = "done" \/ work[a].type = PREFETCH
                /\ Replayed(f)[a] = "killed" <=> f[a] = "killed"
<1>1. ASSUME NEW a \in Accesses
      PROVE  Replayed(f)[a] = IF f[a] # "faulted" THEN f[a]
                              ELSE IF work[a].type = PREFETCH THEN "done" ELSE "replayed"
  BY DEF Replayed
<1>2. \A a \in Accesses : Replayed(f)[a] \in States BY <1>1 DEF States
<1>3. Replayed(f) = [a \in Accesses |-> Replayed(f)[a]] BY DEF Replayed
<1>4. Replayed(f) \in [Accesses -> States] BY <1>2, <1>3
<1> QED BY <1>1, <1>4

-----------------------------------------------------------------------------
(* The GPU and the process.                                                *)

LEMMA GpuAccessInv ==
    ASSUME Inv, NEW a \in Accesses, GpuAccess(a)
    PROVE  Inv'
<1>1. /\ acc[a] \in {"new", "replayed"}
      /\ UNCHANGED <<work, perm, prot, cached_put, pc, cancelling, fetchVars, serviceVars,
                     disturbances>>
  BY DEF GpuAccess
<1>2. cache' = cache /\ order' = order /\ i' = i BY <1>1 DEF fetchVars, serviceVars
<1>3. /\ buffer \in Seq(Accesses) /\ cached_put \in 0 .. Len(buffer) /\ acc \in [Accesses -> States]
  BY DEF Inv, TypeOK, States
<1>4. \/ /\ Prot(work[a].type) <= prot[work[a].page]
         /\ acc' = [acc EXCEPT ![a] = "done"] /\ buffer' = buffer
      \/ acc' = [acc EXCEPT ![a] = "faulted"] /\ buffer' = Append(buffer, a)
  BY DEF GpuAccess
<1>5. /\ buffer' \in Seq(Accesses) /\ cached_put \in 0 .. Len(buffer')
      /\ acc' \in [Accesses -> States] /\ \A b \in Accesses : b # a => acc'[b] = acc[b]
  <2>1. Append(buffer, a) \in Seq(Accesses) /\ Len(Append(buffer, a)) = Len(buffer) + 1 BY <1>3
  <2>2. buffer' \in Seq(Accesses) /\ cached_put \in 0 .. Len(buffer') BY <1>3, <1>4, <2>1
  <2>3. acc' \in [Accesses -> States] BY <1>3, <1>4 DEF States
  <2> QED BY <1>3, <1>4, <2>2, <2>3
<1>6. TypeOK'
  BY <1>1, <1>5 DEF Inv, TypeOK, States, fetchVars, serviceVars
<1>7. ControlInv' BY <1>1, <1>2 DEF Inv, ControlInv, serviceVars
<1>8. CacheInv' BY <1>1, <1>2, CacheFrame
<1>9. UtlbInv' /\ CountInv' BY <1>1, FetchFrame DEF InBatch
<1>10. PermInv' BY <1>1 DEF Inv, PermInv, ToService, Permitted, serviceVars
<1>11. OrderInv' BY <1>1, <1>2, OrderFrame
<1>12. FatalInv' BY <1>1, <1>2 DEF Inv, FatalInv, Refused, Permitted, Entry
<1>13. FreshInv'
  <2>1. ASSUME cancelling, pc \in {"cancel_wait", "fetch", "service"}
        PROVE  /\ \A m \in DOMAIN buffer' : acc'[buffer'[m]] = "faulted"
               /\ \A k \in DOMAIN cache : acc'[cache[k].acc] = "faulted"
    <3>1. /\ \A m \in DOMAIN buffer : acc[buffer[m]] = "faulted"
          /\ \A k \in DOMAIN cache : acc[cache[k].acc] = "faulted"
      BY <2>1 DEF Inv, FreshInv
    <3>2. \A b \in Accesses : acc[b] = "faulted" => acc'[b] = "faulted" BY <1>1, <1>5
    <3>3. \A m \in DOMAIN buffer : buffer[m] \in Accesses /\ acc'[buffer[m]] = "faulted"
      BY <1>3, <3>1, <3>2
    <3>4. \A k \in DOMAIN cache : acc'[cache[k].acc] = "faulted" BY <3>1, <3>2, EntryFacts
    <3>5. CASE buffer' = buffer BY <3>3, <3>4, <3>5
    <3>6. CASE acc' = [acc EXCEPT ![a] = "faulted"] /\ buffer' = Append(buffer, a)
      <4>1. \A m \in DOMAIN buffer' : \/ m \in DOMAIN buffer /\ buffer'[m] = buffer[m]
                                      \/ buffer'[m] = a
        BY <1>3, <3>6
      <4>2. acc'[a] = "faulted" BY <1>3, <3>6
      <4> QED BY <3>3, <3>4, <4>1, <4>2
    <3> QED BY <1>4, <3>5, <3>6
  <2>2. ASSUME pc = "cancel", NEW k \in DOMAIN cache, cache[k].fatal
        PROVE  acc'[cache[k].acc] # "done"
    <3>1. cache[k].acc \in Accesses /\ Entry(k) = work[cache[k].acc] /\ Entry(k).page \in Pages
          /\ Entry(k).type \in AccessTypes
      BY EntryFacts
    <3>2. acc[cache[k].acc] # "done" BY <2>2 DEF Inv, FreshInv
    <3>3. CASE cache[k].acc # a BY <1>5, <3>1, <3>2, <3>3
    <3>4. CASE cache[k].acc = a
      <4>1. ~Permitted(Entry(k).page, Entry(k).type) BY <2>2 DEF Inv, FatalInv, Refused
      <4>2. ~ (Prot(Entry(k).type) <= perm[Entry(k).page]) BY <3>1, <4>1, PermFacts
      <4>3. /\ prot[Entry(k).page] <= perm[Entry(k).page] /\ prot[Entry(k).page] \in Nat
            /\ perm[Entry(k).page] \in Nat /\ Prot(Entry(k).type) \in Nat
        BY <3>1, PermFacts, ProtFacts DEF Inv, PermInv
      <4>4. ~ (Prot(Entry(k).type) <= prot[Entry(k).page]) BY <4>2, <4>3
      <4>5. acc' = [acc EXCEPT ![a] = "faulted"] BY <1>4, <3>1, <3>4, <4>4
      <4> QED BY <1>3, <3>4, <4>5
    <3> QED BY <3>3, <3>4
  <2> QED BY <1>1, <1>2, <2>1, <2>2 DEF FreshInv
<1> QED BY <1>6, <1>7, <1>8, <1>9, <1>10, <1>11, <1>12, <1>13 DEF Inv

LEMMA SetPermissionInv ==
    ASSUME Inv, NEW p \in Pages, NEW q \in Perms, SetPermission(p, q)
    PROVE  Inv'
<1>1. /\ Unlocked /\ disturbances < MaxDisturbances
      /\ perm' = [perm EXCEPT ![p] = q] /\ prot' = [prot EXCEPT ![p] = Min({@, q})]
      /\ disturbances' = disturbances + 1
      /\ UNCHANGED <<work, acc, buffer, cached_put, pc, cancelling, fetchVars, serviceVars>>
  BY DEF SetPermission
<1>2. cache' = cache /\ order' = order BY <1>1 DEF fetchVars, serviceVars
<1>3. pc \notin {"service", "cancel"} BY <1>1 DEF Unlocked
<1>4. /\ perm \in [Pages -> Perms] /\ prot \in [Pages -> Prots]
      /\ disturbances \in 0 .. MaxDisturbances /\ num_retries \in Nat
  BY DEF Inv, TypeOK
<1>5. /\ q \in Nat /\ prot[p] \in 0 .. 3 BY <1>4 DEF Perms, Prots
<1>6. Min({prot[p], q}) \in {prot[p], q} /\ Min({prot[p], q}) <= q BY <1>5, MinOfTwo
<1>7. perm' \in [Pages -> Perms] /\ prot' \in [Pages -> Prots]
  <2>1. Min({prot[p], q}) \in Prots BY <1>5, <1>6 DEF Perms, Prots
  <2> QED BY <1>1, <1>4, <2>1
<1>8. disturbances' \in 0 .. MaxDisturbances BY <1>1, <1>4, Sizes
<1>9. TypeOK' BY <1>1, <1>7, <1>8 DEF Inv, TypeOK, fetchVars, serviceVars
<1>10. ControlInv'
  <2>1. num_retries' <= disturbances' BY <1>1, <1>4 DEF Inv, ControlInv, serviceVars
  <2> QED BY <1>1, <1>2, <2>1 DEF Inv, ControlInv
<1>11. CacheInv' BY <1>1, <1>2, CacheFrame
<1>12. UtlbInv' /\ CountInv' BY <1>1, FetchFrame DEF InBatch
<1>13. PermInv'
  <2>1. ASSUME NEW r \in Pages PROVE prot'[r] <= perm'[r]
    <3>1. CASE r = p BY <1>1, <1>4, <1>6, <3>1
    <3>2. CASE r # p
      <4>1. prot'[r] = prot[r] /\ perm'[r] = perm[r] BY <1>1, <1>4, <3>2
      <4> QED BY <4>1 DEF Inv, PermInv
    <3> QED BY <3>1, <3>2
  <2> QED BY <1>1, <1>3, <2>1 DEF PermInv
<1>14. OrderInv' BY <1>1, <1>2, OrderFrame
<1>15. FatalInv' BY <1>1, <1>2, <1>3 DEF Inv, FatalInv
<1>16. FreshInv' BY <1>1, <1>2 DEF Inv, FreshInv
<1> QED BY <1>9, <1>10, <1>11, <1>12, <1>13, <1>14, <1>15, <1>16 DEF Inv

-----------------------------------------------------------------------------
(* Batches begin and end.                                                  *)

\* The head of the fetch: all the counters are zero.
LEMMA BeginFetchInv ==
    ASSUME Inv, BeginFetch("fetch"), cancelling => pc = "cancel_wait",
           UNCHANGED <<gpuVars, cancelling, order, i, access_type, num_retries, disturbances>>
    PROVE  Inv'
<1>1. /\ cached_put' \in {Len(buffer), cached_put} /\ utlbs' = ClearedUtlbs
      /\ max_utlb_id' = 0 /\ cache' = <<>> /\ last_fault' = 0 /\ num_coalesced' = 0
      /\ single_instance' = TRUE /\ fatal' = FALSE /\ num_duplicates' = 0 /\ pc' = "fetch"
      /\ work' = work /\ acc' = acc /\ buffer' = buffer /\ perm' = perm /\ prot' = prot
  BY DEF BeginFetch, gpuVars
<1>2. /\ CacheInv' /\ DOMAIN cache' = {} /\ Unfiltered' = {} /\ Len(cache') = 0
      /\ \A u : OfUtlb(u)' = {}
  BY <1>1, EmptyCache
<1>3. /\ utlbs' \in [Utlbs -> [pending : Nat, last : Nat]]
      /\ \A u \in Utlbs : utlbs'[u].pending = 0
  <2>1. ASSUME NEW u \in Utlbs
        PROVE  ClearedUtlbs[u] \in [pending : Nat, last : Nat] /\ ClearedUtlbs[u].pending = 0
    <3>1. u \in Nat /\ max_utlb_id \in Nat BY FetchTypes, Sizes
    <3>2. CASE u <= max_utlb_id
      <4>1. ClearedUtlbs[u] = [pending |-> 0, last |-> 0] BY <3>2 DEF ClearedUtlbs
      <4> QED BY <4>1
    <3>3. CASE ~ (u <= max_utlb_id)
      <4>1. ClearedUtlbs[u] = utlbs[u] BY <3>3 DEF ClearedUtlbs
      <4>2. utlbs[u].pending = 0 BY <3>1, <3>3 DEF Inv, UtlbInv
      <4> QED BY <4>1, <4>2, FetchTypes
    <3> QED BY <3>2, <3>3
  <2>2. ClearedUtlbs = [u \in Utlbs |-> ClearedUtlbs[u]] BY DEF ClearedUtlbs
  <2> QED BY <1>1, <2>1, <2>2
<1>4. TypeOK'
  <2>1. buffer \in Seq(Accesses) /\ cached_put \in 0 .. Len(buffer) BY DEF Inv, TypeOK
  <2>2. cached_put' \in 0 .. Len(buffer') BY <1>1, <2>1
  <2>3. cache' \in Seq(EntryType) /\ Len(cache') <= MaxBatchSize BY <1>1, <1>2, Sizes
  <2>4. /\ last_fault' \in 0 .. Len(cache') /\ num_coalesced' \in 0 .. Len(cache')
        /\ max_utlb_id' \in Utlbs /\ num_duplicates' \in Nat
    BY <1>1, <1>2, Sizes
  <2> QED BY <1>1, <1>3, <2>1, <2>2, <2>3, <2>4 DEF Inv, TypeOK
<1>5. ControlInv' BY <1>1 DEF Inv, ControlInv
<1>6. UtlbInv' BY <1>3 DEF UtlbInv
<1>7. CountInv'
  <2>1. Cardinality({}) = 0 BY FS_EmptySet
  <2>2. ASSUME NEW u \in Utlbs
        PROVE  /\ utlbs'[u].pending = Cardinality(OfUtlb(u)')
               /\ utlbs'[u].pending > 0 => utlbs'[u].last \in OfUtlb(u)'
    <3>1. OfUtlb(u)' = {} /\ utlbs'[u].pending = 0 BY <1>2, <1>3
    <3> QED BY <2>1, <3>1
  <2> QED BY <1>1, <1>2, <2>1, <2>2 DEF CountInv
<1>8. PermInv' BY <1>1 DEF Inv, PermInv
<1>9. OrderInv' BY <1>1 DEF OrderInv
<1>10. FatalInv' BY <1>1, <1>2 DEF FatalInv
<1>11. FreshInv' BY <1>1, <1>2 DEF Inv, FreshInv
<1> QED BY <1>2, <1>4, <1>5, <1>6, <1>7, <1>8, <1>9, <1>10, <1>11 DEF Inv

LEMMA StartBatchInv == Inv /\ StartBatch => Inv'
<1> SUFFICES ASSUME Inv, StartBatch PROVE Inv'
  OBVIOUS
<1>1. /\ BeginFetch("fetch") /\ pc = "idle"
      /\ UNCHANGED <<gpuVars, cancelling, order, i, access_type, num_retries, disturbances>>
  BY DEF StartBatch
<1>2. ~cancelling BY <1>1 DEF Inv, ControlInv
<1> QED BY <1>1, <1>2, BeginFetchInv

LEMMA CancelFetchInv == Inv /\ CancelFetch => Inv'
<1> SUFFICES ASSUME Inv, CancelFetch PROVE Inv'
  OBVIOUS
<1>1. /\ BeginFetch("fetch") /\ pc = "cancel_wait"
      /\ UNCHANGED <<gpuVars, cancelling, order, i, access_type, num_retries, disturbances>>
  BY DEF CancelFetch
<1> QED BY <1>1, BeginFetchInv

\* The batch is given up.
LEMMA ForgetInv ==
    ASSUME Inv, ForgetBatch, work' = work, perm' = perm, prot' = prot, disturbances' = disturbances,
           acc' \in [Accesses -> States], buffer' \in Seq(Accesses),
           cached_put' \in 0 .. Len(buffer'),
           \/ pc' \in {"idle", "wait"} /\ cancelling' = FALSE
           \/ pc' \in {"cancel_flush", "cancel_end"} /\ cancelling' = TRUE
    PROVE  Inv'
<1>1. /\ cache' = <<>> /\ last_fault' = 0 /\ num_coalesced' = 0 /\ single_instance' = TRUE
      /\ order' = <<>> /\ i' = 1 /\ fatal' = FALSE
      /\ access_type' = [p \in Pages |-> NotServiced]
      /\ num_retries' = 0 /\ num_duplicates' = 0
      /\ utlbs' = utlbs /\ max_utlb_id' = max_utlb_id
  BY DEF ForgetBatch
<1>2. CacheInv' /\ DOMAIN cache' = {} /\ Unfiltered' = {} /\ Len(cache') = 0
  BY <1>1, EmptyCache
<1>3. TypeOK'
  <2>1. /\ cache' \in Seq(EntryType) /\ Len(cache') <= MaxBatchSize
        /\ last_fault' \in 0 .. Len(cache') /\ num_coalesced' \in 0 .. Len(cache')
    BY <1>1, <1>2, Sizes
  <2>2. /\ order' \in Seq(Nat \ {0}) /\ i' \in 1 .. Len(order') + 1
        /\ access_type' \in [Pages -> AccessTypes \cup {NotServiced}]
        /\ num_retries' \in 0 .. MaxDisturbances /\ num_duplicates' \in Nat
    BY <1>1, Sizes
  <2> QED BY <1>1, <2>1, <2>2 DEF Inv, TypeOK, States
<1>4. ControlInv'
  <2>1. num_retries' <= disturbances' BY <1>1, Sizes DEF Inv, TypeOK
  <2> QED BY <1>1, <2>1 DEF ControlInv
<1>5. UtlbInv' BY <1>1 DEF Inv, UtlbInv
<1>6. CountInv' BY DEF CountInv, InBatch
<1>7. PermInv' BY DEF Inv, PermInv
<1>8. OrderInv' BY DEF OrderInv
<1>9. FatalInv' BY DEF FatalInv
<1>10. FreshInv' BY DEF FreshInv
<1> QED BY <1>2, <1>3, <1>4, <1>5, <1>6, <1>7, <1>8, <1>9, <1>10 DEF Inv

LEMMA ReplayBatchInv == Inv /\ ReplayBatch => Inv'
<1> SUFFICES ASSUME Inv, ReplayBatch PROVE Inv'
  OBVIOUS
<1>1. /\ pc = "replay" /\ pc' = "wait" /\ ForgetBatch /\ cached_put' = 0
      /\ acc' = Replayed(acc)
      /\ buffer' = <<>> \/ buffer' = SubSeq(buffer, cached_put + 1, Len(buffer))
      /\ UNCHANGED <<work, perm, prot, cancelling, disturbances>>
  BY DEF ReplayBatch
<1>2. cancelling' = FALSE BY <1>1 DEF Inv, TypeOK, ControlInv
<1>3. acc' \in [Accesses -> States] BY <1>1, ReplayedFacts DEF Inv, TypeOK, States
<1>4. buffer' \in Seq(Accesses) /\ cached_put' \in 0 .. Len(buffer')
  <2>1. buffer \in Seq(Accesses) /\ cached_put \in 0 .. Len(buffer) BY DEF Inv, TypeOK
  <2>2. SubSeq(buffer, cached_put + 1, Len(buffer)) \in Seq(Accesses)
    <3>1. \A m \in cached_put + 1 .. Len(buffer) : buffer[m] \in Accesses BY <2>1
    <3> QED BY <2>1, <3>1
  <2>3. CASE buffer' = <<>> BY <1>1, <2>3
  <2>4. CASE buffer' = SubSeq(buffer, cached_put + 1, Len(buffer))
    <3>1. buffer' \in Seq(Accesses) BY <2>2, <2>4
    <3> QED BY <1>1, <3>1
  <2> QED BY <1>1, <2>3, <2>4
<1> QED BY <1>1, <1>2, <1>3, <1>4, ForgetInv

LEMMA CancelLockInv == Inv /\ CancelLock => Inv'
<1> SUFFICES ASSUME Inv, CancelLock PROVE Inv'
  OBVIOUS
<1>1. /\ pc' = "cancel_flush" /\ cancelling' = TRUE /\ ForgetBatch
      /\ UNCHANGED <<work, acc, buffer, perm, prot, cached_put, disturbances>>
  BY DEF CancelLock, gpuVars
<1>2. /\ acc' \in [Accesses -> States] /\ buffer' \in Seq(Accesses)
      /\ cached_put' \in 0 .. Len(buffer')
  BY <1>1 DEF Inv, TypeOK, States
<1> QED BY <1>1, <1>2, ForgetInv

LEMMA CancelUnlockInv == Inv /\ CancelUnlock => Inv'
<1> SUFFICES ASSUME Inv, CancelUnlock PROVE Inv'
  OBVIOUS
<1>1. /\ pc' = "cancel_end" /\ pc \in {"cancel_unlock", "cancel"} /\ ForgetBatch
      /\ UNCHANGED <<work, acc, buffer, perm, prot, cached_put, cancelling, disturbances>>
  BY DEF CancelUnlock, gpuVars
<1>2. cancelling' = TRUE BY <1>1 DEF Inv, TypeOK, ControlInv
<1>3. /\ acc' \in [Accesses -> States] /\ buffer' \in Seq(Accesses)
      /\ cached_put' \in 0 .. Len(buffer')
  BY <1>1 DEF Inv, TypeOK, States
<1> QED BY <1>1, <1>2, <1>3, ForgetInv

\* Steps between two batches, with or without a flush.
LEMMA BetweenInv ==
    ASSUME Inv, UNCHANGED <<work, perm, prot, fetchVars, serviceVars, disturbances>>,
           cache = <<>>, acc' \in [Accesses -> States], buffer' \in Seq(Accesses),
           cached_put' \in 0 .. Len(buffer'),
           \/ pc' = "idle" /\ cancelling' = FALSE
           \/ pc' = "cancel_wait" /\ cancelling' = TRUE /\ buffer' = <<>>
    PROVE  Inv'
<1>1. cache' = <<>> BY DEF fetchVars
<1>2. TypeOK'
  <2>1. cancelling' \/ Len(cache') <= MaxBatchSize BY <1>1, Sizes
  <2>2. /\ cache' \in Seq(EntryType)
        /\ last_fault' \in 0 .. Len(cache')
        /\ utlbs' \in [Utlbs -> [pending : Nat, last : Nat]]
        /\ max_utlb_id' \in Utlbs /\ num_coalesced' \in 0 .. Len(cache')
        /\ single_instance' \in BOOLEAN
    BY DEF Inv, TypeOK, fetchVars
  <2> QED BY <2>1, <2>2 DEF Inv, TypeOK, States, serviceVars
<1>3. ControlInv' BY <1>1 DEF Inv, ControlInv, serviceVars
<1>4. CacheInv' /\ DOMAIN cache' = {} BY <1>1, EmptyCache
<1>5. UtlbInv' BY DEF Inv, UtlbInv, fetchVars
<1>6. CountInv' BY DEF CountInv, InBatch
<1>7. PermInv' BY DEF Inv, PermInv
<1>8. OrderInv' BY DEF OrderInv
<1>9. FatalInv' BY DEF FatalInv
<1>10. FreshInv'
  <2>1. cancelling' => DOMAIN buffer' = {} OBVIOUS
  <2> QED BY <1>4, <2>1 DEF FreshInv
<1> QED BY <1>2, <1>3, <1>4, <1>5, <1>6, <1>7, <1>8, <1>9, <1>10 DEF Inv

LEMMA ReplayWaitInv == Inv /\ ReplayWait => Inv'
<1> SUFFICES ASSUME Inv, ReplayWait PROVE Inv'
  OBVIOUS
<1>1. /\ pc = "wait" /\ pc' = "idle"
      /\ UNCHANGED <<work, acc, buffer, perm, prot, cached_put, cancelling, fetchVars, serviceVars,
                     disturbances>>
  BY DEF ReplayWait, gpuVars
<1>2. cache = <<>> /\ cancelling' = FALSE BY <1>1 DEF Inv, TypeOK, ControlInv
<1>3. /\ acc' \in [Accesses -> States] /\ buffer' \in Seq(Accesses)
      /\ cached_put' \in 0 .. Len(buffer')
  BY <1>1 DEF Inv, TypeOK, States
<1> QED BY <1>1, <1>2, <1>3, BetweenInv

LEMMA FlushFacts ==
    ASSUME Inv, FlushAll
    PROVE  /\ acc' \in [Accesses -> States] /\ buffer' = <<>> /\ buffer' \in Seq(Accesses)
           /\ cached_put' \in 0 .. Len(buffer')
<1>1. acc' = Replayed(acc) /\ buffer' = <<>> /\ cached_put' = 0 BY DEF FlushAll
<1>2. acc' \in [Accesses -> States] BY <1>1, ReplayedFacts DEF Inv, TypeOK, States
<1> QED BY <1>1, <1>2

LEMMA CancelFlushInv == Inv /\ CancelFlush => Inv'
<1> SUFFICES ASSUME Inv, CancelFlush PROVE Inv'
  OBVIOUS
<1>1. /\ pc = "cancel_flush" /\ pc' = "cancel_wait" /\ FlushAll /\ cancelling' = cancelling
      /\ UNCHANGED <<work, perm, prot, fetchVars, serviceVars, disturbances>>
  BY DEF CancelFlush
<1>2. cache = <<>> /\ cancelling' = TRUE BY <1>1 DEF Inv, TypeOK, ControlInv
<1> QED BY <1>1, <1>2, FlushFacts, BetweenInv

LEMMA CancelEndInv == Inv /\ CancelEnd => Inv'
<1> SUFFICES ASSUME Inv, CancelEnd PROVE Inv'
  OBVIOUS
<1>1. /\ pc = "cancel_end" /\ pc' = "idle" /\ FlushAll /\ cancelling' = FALSE
      /\ UNCHANGED <<work, perm, prot, fetchVars, serviceVars, disturbances>>
  BY DEF CancelEnd
<1>2. cache = <<>> BY <1>1 DEF Inv, ControlInv
<1> QED BY <1>1, <1>2, FlushFacts, BetweenInv

-----------------------------------------------------------------------------
(* The preprocessing and the scan.                                         *)

\* ordered_fault_cache is a permutation of the unfiltered entries.
LEMMA OrdersFacts ==
    ASSUME Inv, NEW s \in Orders
    PROVE  /\ s \in Seq(Nat \ {0}) /\ Len(s) \in Nat /\ DOMAIN s = 1 .. Len(s)
           /\ \A m \in DOMAIN s : s[m] \in Unfiltered
           /\ \A k \in Unfiltered : \E m \in DOMAIN s : s[m] = k
           /\ \A m \in 1 .. Len(s) - 1 : Precedes(s[m], s[m + 1])
<1> DEFINE D == 1 .. Cardinality(Unfiltered)
<1>1. Cardinality(Unfiltered) \in Nat /\ IsFiniteSet(Unfiltered)
  BY CacheFacts, FS_CardinalityType
<1>2. /\ s \in [D -> Unfiltered] /\ \A x, y \in D : x # y => s[x] # s[y]
      /\ \A m \in 1 .. Len(s) - 1 : Precedes(s[m], s[m + 1])
  BY DEF Orders, SetToSeqs
<1>3. Cardinality(D) = Cardinality(Unfiltered)
  <2>1. Cardinality(1 .. Cardinality(Unfiltered)) =
          IF 1 > Cardinality(Unfiltered) THEN 0 ELSE Cardinality(Unfiltered) - 1 + 1
    BY <1>1, FS_Interval
  <2> QED BY <1>1, <2>1
<1>4. s \in Injection(D, Unfiltered) BY <1>2 DEF Injection, IsInjective
<1>5. s \in Surjection(D, Unfiltered) BY <1>1, <1>3, <1>4, FS_Injection
<1>6. \A k \in Unfiltered : \E m \in D : s[m] = k BY <1>5 DEF Surjection
<1>7. Unfiltered \subseteq Nat \ {0} BY CacheFacts
<1>8. /\ s \in Seq(Nat \ {0}) /\ Len(s) \in Nat /\ DOMAIN s = 1 .. Len(s)
  <2>1. s \in [D -> Nat \ {0}] BY <1>2, <1>7
  <2>2. s \in Seq(Nat \ {0}) BY <1>1, <2>1
  <2> QED BY <2>2
<1>9. DOMAIN s = D BY <1>2
<1>10. \A m \in DOMAIN s : s[m] \in Unfiltered BY <1>2, <1>9
<1>11. \A k \in Unfiltered : \E m \in DOMAIN s : s[m] = k BY <1>6, <1>9
<1> QED BY <1>2, <1>8, <1>10, <1>11

LEMMA PreprocessInv == Inv /\ Preprocess => Inv'
<1> SUFFICES ASSUME Inv, Preprocess PROVE Inv'
  OBVIOUS
<1>1. /\ pc = "fetch" /\ order' \in Orders /\ i' = 1 /\ num_retries' = 0
      /\ access_type' = [p \in Pages |-> NotServiced]
      /\ pc' = IF cache = <<>> THEN "cancel_unlock" ELSE "service"
      /\ cache = <<>> => cancelling
      /\ UNCHANGED <<work, acc, buffer, perm, prot, cached_put, cancelling, fetchVars, fatal,
                     num_duplicates, disturbances>>
  BY DEF Preprocess, gpuVars
<1>2. cache' = cache BY <1>1 DEF fetchVars
<1>3. CacheInv' /\ Unfiltered' = Unfiltered /\ \A k : Entry(k)' = Entry(k)
  BY <1>1, <1>2, CacheFrame
<1>4. /\ order' \in Seq(Nat \ {0}) /\ Len(order') \in Nat /\ DOMAIN order' = 1 .. Len(order')
      /\ \A m \in DOMAIN order' : order'[m] \in Unfiltered
      /\ \A k \in Unfiltered : \E m \in DOMAIN order' : order'[m] = k
      /\ \A m \in 1 .. Len(order') - 1 : Precedes(order'[m], order'[m + 1])
  BY <1>1, OrdersFacts
<1>5. TypeOK'
  <2>1. /\ i' \in 1 .. Len(order') + 1 /\ num_retries' \in 0 .. MaxDisturbances
        /\ access_type' \in [Pages -> AccessTypes \cup {NotServiced}]
    BY <1>1, <1>4, Sizes
  <2> QED BY <1>1, <1>4, <2>1 DEF Inv, TypeOK, fetchVars
<1>6. ControlInv'
  <2>1. num_retries' <= disturbances' BY <1>1, Sizes DEF Inv, TypeOK
  <2> QED BY <1>1, <1>2, <2>1 DEF Inv, ControlInv
<1>7. UtlbInv' /\ CountInv' BY <1>1, FetchFrame DEF InBatch
<1>8. PermInv'
  <2>1. ToService' = {} BY <1>1 DEF ToService
  <2> QED BY <1>1, <2>1 DEF Inv, PermInv
<1>9. OrderInv'
  <2>1. \A k, l : Precedes(k, l)' <=> Precedes(k, l) BY <1>3 DEF Precedes
  <2> QED BY <1>3, <1>4, <2>1 DEF OrderInv
<1>10. FatalInv'
  <2>1. \A k \in DOMAIN cache' : ~cache'[k].fatal BY <1>1, <1>2 DEF Inv, FatalInv
  <2>2. \A m \in DOMAIN order' : ~ (m < i') BY <1>1, <1>4
  <2> QED BY <1>1, <2>1, <2>2 DEF FatalInv
<1>11. FreshInv' BY <1>1, <1>2 DEF Inv, FreshInv
<1> QED BY <1>3, <1>5, <1>6, <1>7, <1>8, <1>9, <1>10, <1>11 DEF Inv

\* The position of the scan.
LEMMA ScanFacts ==
    ASSUME Inv, pc \in {"service", "cancel"}
    PROVE  /\ order \in Seq(Nat \ {0}) /\ Len(order) \in Nat /\ DOMAIN order = 1 .. Len(order)
           /\ i \in 1 .. Len(order) + 1
           /\ \A m \in DOMAIN order : order[m] \in Unfiltered /\ order[m] \in DOMAIN cache
           /\ \A k \in Unfiltered : \E m \in DOMAIN order : order[m] = k
           /\ \A m \in 1 .. Len(order) - 1 : Precedes(order[m], order[m + 1])
<1>1. order \in Seq(Nat \ {0}) /\ i \in 1 .. Len(order) + 1 BY DEF Inv, TypeOK
<1>2. /\ \A m \in DOMAIN order : order[m] \in Unfiltered
      /\ \A k \in Unfiltered : \E m \in DOMAIN order : order[m] = k
      /\ \A m \in 1 .. Len(order) - 1 : Precedes(order[m], order[m + 1])
  BY DEF Inv, OrderInv
<1>3. \A k \in Unfiltered : k \in DOMAIN cache BY DEF Unfiltered
<1> QED BY <1>1, <1>2, <1>3

\* What check_fault_access_permissions() finds fatal is refused, and so is what the
\* cancel mode ends; what is serviced is permitted.
LEMMA CheckFacts ==
    ASSUME Inv, NEW k \in DOMAIN cache
    PROVE  LET c == CheckAccess(k)
               p == Entry(k).page
           IN  /\ c.type \in AccessTypes \cup {NotServiced}
               /\ c.mode \in {"all", "write_and_atomic"} /\ c.fatal \in BOOLEAN
               /\ c.fatal <=> Refused(k)
               /\ c.fatal => ~Permitted(p, IF c.mode = "all" THEN READ ELSE WRITE)
               /\ c.type # NotServiced => c.type \in AccessTypes /\ Permitted(p, c.type)
<1> DEFINE t == Entry(k).type
           p == Entry(k).page
           reads == READ \in cache[k].mask
<1>1. p \in Pages /\ t \in AccessTypes /\ t \in 0 .. 3 BY EntryFacts, Sizes
<1>2. READ \in AccessTypes /\ TRUE \in BOOLEAN /\ FALSE \in BOOLEAN BY Sizes
<1>3. CASE Permitted(p, t)
  <2>1. CheckAccess(k) = [type |-> t, fatal |-> FALSE, mode |-> "all"]
    BY <1>3 DEF CheckAccess
  <2> QED BY <1>1, <1>3, <2>1 DEF Refused
<1>4. CASE ~Permitted(p, t) /\ t = PREFETCH
  <2>1. CheckAccess(k) = [type |-> NotServiced, fatal |-> FALSE, mode |-> "all"]
    BY <1>4, Sizes DEF CheckAccess
  <2> QED BY <1>4, <2>1 DEF Refused
<1>5. CASE ~Permitted(p, t) /\ t = READ
  <2>1. CheckAccess(k) = [type |-> NotServiced, fatal |-> TRUE, mode |-> "all"]
    BY <1>5, Sizes DEF CheckAccess
  <2> QED BY <1>5, <2>1, Sizes DEF Refused
<1>6. CASE ~Permitted(p, t) /\ t # PREFETCH /\ t # READ
  <2>1. CheckAccess(k) =
          [type |-> IF reads /\ Permitted(p, READ) THEN READ ELSE NotServiced,
           fatal |-> TRUE,
           mode |-> IF reads /\ ~Permitted(p, READ) THEN "all" ELSE "write_and_atomic"]
    BY <1>6 DEF CheckAccess
  <2>2. ~Permitted(p, WRITE)
    <3>1. t > READ BY <1>1, <1>6, Sizes
    <3> QED BY <1>1, <1>6, <3>1, PermFacts
  <2> QED BY <1>2, <1>6, <2>1, <2>2 DEF Refused
<1> QED BY <1>3, <1>4, <1>5, <1>6

\* An entry that is waived is not refused: the one before it is at least as intrusive.
LEMMA WaivedFacts ==
    ASSUME Inv, pc = "service", i <= Len(order), Waived
    PROVE  ~Refused(order[i])
<1>1. i > 1 /\ Entry(order[i]).page = Entry(order[i - 1]).page /\ ~cache[order[i - 1]].fatal
  BY DEF Waived, IsDuplicate
<1>2. i - 1 \in DOMAIN order /\ i \in DOMAIN order /\ i - 1 \in 1 .. Len(order) - 1 /\ i \in Nat
  BY <1>1, ScanFacts
<1>3. PICK j \in DOMAIN order : j = i - 1 BY <1>2
<1>4. order[j] \in DOMAIN cache /\ order[i] \in DOMAIN cache /\ Precedes(order[j], order[i])
  <2>1. j \in 1 .. Len(order) - 1 /\ j + 1 = i BY <1>2, <1>3
  <2>2. Precedes(order[j], order[j + 1]) BY <2>1, ScanFacts
  <2> QED BY <1>2, <2>1, <2>2, ScanFacts
<1>5. /\ Entry(order[j]).page \in Pages /\ Entry(order[j]).type \in AccessTypes
      /\ Entry(order[i]).type \in AccessTypes
  BY <1>4, EntryFacts
<1>6. Entry(order[j]).page = Entry(order[i]).page /\ Entry(order[j]).page \in Nat
  BY <1>1, <1>3, <1>5, Sizes
<1>7. Entry(order[i]).type <= Entry(order[j]).type
  BY <1>4, <1>5, <1>6, Sizes DEF Precedes
<1> SUFFICES ASSUME Refused(order[i]) PROVE FALSE
  OBVIOUS
<1>8. Entry(order[i]).type # PREFETCH /\ ~Permitted(Entry(order[j]).page, Entry(order[i]).type)
  BY <1>6 DEF Refused
<1>9. ~Permitted(Entry(order[j]).page, Entry(order[j]).type) BY <1>5, <1>7, <1>8, PermFacts
<1>10. Entry(order[j]).type # PREFETCH BY <1>5, <1>7, <1>8, Sizes
<1>11. Refused(order[j]) BY <1>9, <1>10 DEF Refused
<1>12. j < i BY <1>2, <1>3
<1>13. cache[order[j]].fatal BY <1>11, <1>12 DEF Inv, FatalInv
<1> QED BY <1>1, <1>3, <1>13

\* A step that only marks entries as fatal.
LEMMA MarkFrame ==
    ASSUME Inv, work' = work, order' = order, pc' = pc, cache' \in Seq(EntryType),
           Len(cache') = Len(cache),
           \A k \in DOMAIN cache : /\ cache'[k].acc = cache[k].acc
                                   /\ cache'[k].filtered = cache[k].filtered
                                   /\ cache'[k].mask = cache[k].mask
                                   /\ cache'[k].ring = cache[k].ring,
           UNCHANGED <<utlbs, max_utlb_id, last_fault, num_coalesced, single_instance>>
    PROVE  /\ DOMAIN cache' = DOMAIN cache /\ Unfiltered' = Unfiltered
           /\ \A k \in DOMAIN cache : Entry(k)' = Entry(k)
           /\ CacheInv' /\ UtlbInv' /\ CountInv' /\ OrderInv'
<1>1. DOMAIN cache' = DOMAIN cache BY CacheFacts
<1>2. Unfiltered' = Unfiltered BY <1>1 DEF Unfiltered
<1>3. \A k \in DOMAIN cache : Entry(k)' = Entry(k) BY DEF Entry
<1>4. \A k \in Unfiltered : k \in DOMAIN cache BY DEF Unfiltered
<1>5. \A r, k \in DOMAIN cache : StandsFor(r, k)' <=> StandsFor(r, k)
  BY <1>3 DEF StandsFor, SameSource
<1>6. CacheInv'
  <2>1. \A k \in DOMAIN cache' : cache'[k].ring <= Len(cache') BY <1>1 DEF Inv, CacheInv
  <2>2. \A k \in DOMAIN cache' : \E r \in Unfiltered' : StandsFor(r, k)'
    BY <1>1, <1>2, <1>4, <1>5 DEF Inv, CacheInv
  <2>3. \A r, s \in Unfiltered' : cache'[r].ring = cache'[s].ring => r = s
    BY <1>2, <1>4 DEF Inv, CacheInv
  <2>4. \A r \in Unfiltered' :
          Entry(r)'.type \in cache'[r].mask /\ \A t \in cache'[r].mask : t <= Entry(r)'.type
    BY <1>2, <1>3, <1>4 DEF Inv, CacheInv
  <2> QED BY <2>1, <2>2, <2>3, <2>4 DEF CacheInv
<1>7. UtlbInv' BY DEF Inv, UtlbInv
<1>8. CountInv'
  <2> SUFFICES ASSUME InBatch PROVE CountInv'
    BY DEF CountInv, InBatch
  <2>1. /\ num_coalesced = Cardinality(Unfiltered)
        /\ \A u \in Utlbs : /\ utlbs[u].pending = Cardinality(OfUtlb(u))
                            /\ utlbs[u].pending > 0 => utlbs[u].last \in OfUtlb(u)
        /\ single_instance <=> \A k, l \in Unfiltered : Entry(k).inst = Entry(l).inst
        /\ last_fault = 0 <=> cache = <<>>
    BY DEF Inv, CountInv
  <2>2. \A u \in Utlbs : OfUtlb(u)' = OfUtlb(u) BY <1>2, <1>3, <1>4 DEF OfUtlb
  <2>3. cache' = <<>> <=> cache = <<>> BY CacheFacts
  <2>4. (\A k, l \in Unfiltered' : Entry(k)'.inst = Entry(l)'.inst) <=>
          \A k, l \in Unfiltered : Entry(k).inst = Entry(l).inst
    BY <1>2, <1>3, <1>4
  <2>5. \A u \in Utlbs : /\ utlbs'[u].pending = Cardinality(OfUtlb(u)')
                         /\ utlbs'[u].pending > 0 => utlbs'[u].last \in OfUtlb(u)'
    BY <2>1, <2>2
  <2>6. num_coalesced' = Cardinality(Unfiltered') BY <1>2, <2>1
  <2> QED BY <2>1, <2>3, <2>4, <2>5, <2>6 DEF CountInv
<1>9. OrderInv'
  <2> SUFFICES ASSUME pc \in {"service", "cancel"} PROVE OrderInv'
    BY DEF OrderInv
  <2>1. \A k, l \in DOMAIN cache : Precedes(k, l)' <=> Precedes(k, l) BY <1>3 DEF Precedes
  <2>2. \A m \in 1 .. Len(order) - 1 : order[m] \in DOMAIN cache /\ order[m + 1] \in DOMAIN cache
    BY ScanFacts
  <2>3. \A m \in 1 .. Len(order') - 1 : Precedes(order[m], order[m + 1])'
    BY <2>1, <2>2, ScanFacts
  <2> QED BY <1>2, <2>3, ScanFacts DEF OrderInv
<1> QED BY <1>1, <1>2, <1>3, <1>6, <1>7, <1>8, <1>9

LEMMA ServiceEntryInv == Inv /\ ServiceEntry => Inv'
<1> SUFFICES ASSUME Inv, ServiceEntry PROVE Inv'
  OBVIOUS
<1> DEFINE c == CheckAccess(order[i])
           serviced == ~Waived /\ c.type # NotServiced
<1>1. /\ pc = "service" /\ i <= Len(order) /\ CountDuplicates /\ i' = i + 1
      /\ IF ~Waived /\ c.fatal
         THEN /\ cache' = [cache EXCEPT ![order[i]].fatal = TRUE, ![order[i]].mode = c.mode]
              /\ fatal' = TRUE
         ELSE UNCHANGED <<cache, fatal>>
      /\ \/ serviced /\ access_type' = [access_type EXCEPT ![Entry(order[i]).page] = c.type]
         \/ access_type' = access_type
      /\ \/ disturbances' = disturbances
         \/ disturbances < MaxDisturbances /\ disturbances' = disturbances + 1
      /\ UNCHANGED <<work, acc, buffer, perm, prot, cached_put, pc, cancelling, last_fault, utlbs,
                     max_utlb_id, num_coalesced, single_instance, order, num_retries>>
  BY DEF ServiceEntry, gpuVars
<1>2. i \in DOMAIN order /\ i \in Nat /\ Len(order) \in Nat BY <1>1, ScanFacts
<1>3. PICK k \in DOMAIN cache : k = order[i] BY <1>1, <1>2, ScanFacts
<1>4. Entry(k).page \in Pages /\ cache[k] \in EntryType BY EntryFacts
<1>5. /\ c.type \in AccessTypes \cup {NotServiced}
      /\ c.mode \in {"all", "write_and_atomic"} /\ c.fatal \in BOOLEAN
      /\ c.fatal <=> Refused(k)
      /\ c.fatal => ~Permitted(Entry(k).page, IF c.mode = "all" THEN READ ELSE WRITE)
      /\ c.type # NotServiced => c.type \in AccessTypes /\ Permitted(Entry(k).page, c.type)
  BY <1>3, CheckFacts
<1>6. Waived => ~Refused(k) BY <1>1, <1>3, WaivedFacts
<1> HIDE DEF c
<1>7. /\ cache' \in Seq(EntryType) /\ Len(cache') = Len(cache)
      /\ \A l \in DOMAIN cache : l # k => cache'[l] = cache[l]
      /\ cache'[k].acc = cache[k].acc /\ cache'[k].filtered = cache[k].filtered
      /\ cache'[k].mask = cache[k].mask /\ cache'[k].ring = cache[k].ring
      /\ IF Refused(k) THEN cache'[k].fatal = TRUE /\ cache'[k].mode = c.mode
         ELSE cache'[k].fatal = cache[k].fatal /\ cache'[k].mode = cache[k].mode
  <2>1. CASE ~Refused(k)
    <3>1. cache' = cache BY <1>1, <1>5, <2>1
    <3> QED BY <2>1, <3>1, CacheFacts
  <2>2. CASE Refused(k)
    <3> DEFINE e == [cache[k] EXCEPT !.fatal = TRUE, !.mode = c.mode]
    <3>1. cache' = [cache EXCEPT ![k] = e]
      BY <1>1, <1>3, <1>5, <1>6, <2>2
    <3>2. /\ e \in EntryType /\ e.acc = cache[k].acc /\ e.filtered = cache[k].filtered
          /\ e.mask = cache[k].mask /\ e.ring = cache[k].ring /\ e.fatal = TRUE /\ e.mode = c.mode
      <4>1. TRUE \in BOOLEAN OBVIOUS
      <4> QED BY <1>4, <1>5, <4>1 DEF EntryType
    <3> HIDE DEF e
    <3>3. /\ cache' \in Seq(EntryType) /\ Len(cache') = Len(cache) /\ cache'[k] = e
          /\ \A l \in 1 .. Len(cache) : l # k => cache'[l] = cache[l]
      BY <3>1, <3>2, SeqFacts, CacheFacts
    <3> QED BY <2>2, <3>2, <3>3, CacheFacts
  <2> QED BY <2>1, <2>2
<1>8. /\ DOMAIN cache' = DOMAIN cache /\ Unfiltered' = Unfiltered
      /\ \A l \in DOMAIN cache : Entry(l)' = Entry(l)
      /\ CacheInv' /\ UtlbInv' /\ CountInv' /\ OrderInv'
  <2>1. \A l \in DOMAIN cache : /\ cache'[l].acc = cache[l].acc
                                /\ cache'[l].filtered = cache[l].filtered
                                /\ cache'[l].mask = cache[l].mask
                                /\ cache'[l].ring = cache[l].ring
    BY <1>7
  <2> QED BY <1>1, <1>7, <2>1, MarkFrame
<1>9. \A l \in DOMAIN cache : Refused(l)' <=> Refused(l)
  BY <1>1, <1>8 DEF Refused, Permitted
<1>10. access_type \in [Pages -> AccessTypes \cup {NotServiced}] BY DEF Inv, TypeOK
<1>11. TypeOK'
  <2>1. num_duplicates' \in Nat
    <3>1. num_duplicates \in Nat BY DEF Inv, TypeOK
    <3>2. PICK n \in Nat \ {0} : n = cache[order[i]].instances BY <1>3, EntryFacts
    <3>3. num_duplicates' \in {num_duplicates, num_duplicates + n, num_duplicates + (n - 1)}
      BY <1>1, <3>1, <3>2 DEF CountDuplicates
    <3> QED BY <3>1, <3>2, <3>3
  <2>2. access_type' \in [Pages -> AccessTypes \cup {NotServiced}] BY <1>1, <1>5, <1>10
  <2>3. fatal' \in BOOLEAN BY <1>1 DEF Inv, TypeOK
  <2>4. i' \in 1 .. Len(order') + 1 BY <1>1, <1>2
  <2>5. disturbances' \in 0 .. MaxDisturbances
    <3>1. disturbances \in 0 .. MaxDisturbances BY DEF Inv, TypeOK
    <3> QED BY <1>1, <3>1, Sizes
  <2> QED BY <1>1, <1>7, <2>1, <2>2, <2>3, <2>4, <2>5 DEF Inv, TypeOK
<1>12. ControlInv'
  <2>1. num_retries \in Nat /\ disturbances \in Nat /\ num_retries <= disturbances
    BY Sizes DEF Inv, TypeOK, ControlInv
  <2>2. num_retries' <= disturbances' BY <1>1, <2>1
  <2> QED BY <1>1, <2>2 DEF Inv, ControlInv
<1>13. PermInv'
  <2>1. ASSUME NEW q \in Pages, access_type'[q] # NotServiced
        PROVE  Permitted(q, access_type'[q])
    <3>1. CASE access_type'[q] = access_type[q]
      <4>1. q \in ToService BY <2>1, <3>1 DEF ToService
      <4> QED BY <1>1, <3>1, <4>1 DEF Inv, PermInv
    <3>2. CASE access_type'[q] # access_type[q]
      <4>1. serviced /\ access_type' = [access_type EXCEPT ![Entry(order[i]).page] = c.type]
        BY <1>1, <3>2
      <4>2. q = Entry(k).page /\ access_type'[q] = c.type BY <1>3, <1>4, <1>10, <3>2, <4>1
      <4> QED BY <1>5, <4>1, <4>2
    <3> QED BY <3>1, <3>2
  <2>2. \A q \in ToService' : Permitted(q, access_type[q])' BY <1>1, <2>1 DEF ToService, Permitted
  <2>3. \A q \in Pages : prot'[q] <= perm'[q] BY <1>1 DEF Inv, PermInv
  <2> QED BY <2>2, <2>3 DEF PermInv
<1>14. FatalInv'
  <2>1. ASSUME NEW l \in DOMAIN cache, cache'[l].fatal
        PROVE  /\ Refused(l)
               /\ ~Permitted(Entry(l).page, IF cache'[l].mode = "all" THEN READ ELSE WRITE)
    <3>1. CASE l = k /\ Refused(k)
      <4>1. c.fatal /\ cache'[l].mode = c.mode BY <1>5, <1>7, <3>1
      <4> QED BY <1>5, <3>1, <4>1
    <3>2. CASE l # k \/ ~Refused(k)
      <4>1. cache'[l].fatal = cache[l].fatal /\ cache'[l].mode = cache[l].mode BY <1>7, <3>2
      <4> QED BY <1>1, <2>1, <4>1 DEF Inv, FatalInv
    <3> QED BY <3>1, <3>2
  <2>2. ASSUME NEW m \in DOMAIN order, m < i', Refused(order[m])
        PROVE  cache'[order[m]].fatal
    <3>1. m \in Nat /\ order[m] \in DOMAIN cache BY <1>1, ScanFacts
    <3>2. CASE order[m] = k BY <1>7, <2>2, <3>2
    <3>3. CASE order[m] # k
      <4>1. m < i BY <1>1, <1>2, <1>3, <2>2, <3>1, <3>3
      <4>2. cache[order[m]].fatal BY <1>1, <2>2, <4>1 DEF Inv, FatalInv
      <4> QED BY <1>7, <3>1, <3>3, <4>2
    <3> QED BY <3>2, <3>3
  <2>3. \A l \in DOMAIN cache' : cache'[l].fatal =>
          /\ Refused(l)'
          /\ ~Permitted(Entry(l).page, IF cache[l].mode = "all" THEN READ ELSE WRITE)'
    BY <1>1, <1>8, <1>9, <2>1 DEF Permitted
  <2>4. \A m \in DOMAIN order' : m < i' /\ Refused(order[m])' => cache'[order'[m]].fatal
    BY <1>1, <1>9, <2>2, ScanFacts
  <2> QED BY <1>1, <2>3, <2>4 DEF FatalInv, Refused
<1>15. FreshInv'
  <2>1. \A l \in DOMAIN cache : cache'[l].acc = cache[l].acc BY <1>7
  <2> QED BY <1>1, <1>8, <2>1 DEF Inv, FreshInv
<1> QED BY <1>8, <1>11, <1>12, <1>13, <1>14, <1>15 DEF Inv

LEMMA BlockServicedInv == Inv /\ BlockServiced => Inv'
<1> SUFFICES ASSUME Inv, BlockServiced PROVE Inv'
  OBVIOUS
<1>1. /\ pc = "service" /\ i > Len(order) /\ i' = 1
      /\ prot' = [p \in Pages |-> IF p \in ToService THEN Max({prot[p], Prot(access_type[p])})
                                  ELSE prot[p]]
      /\ pc' = IF cancelling THEN "cancel" ELSE IF fatal THEN "cancel_lock" ELSE "replay"
      /\ UNCHANGED <<work, acc, buffer, perm, cached_put, cancelling, fetchVars, order, fatal,
                     access_type, num_retries, num_duplicates, disturbances>>
  BY DEF BlockServiced
<1>2. cache' = cache BY <1>1 DEF fetchVars
<1>3. CacheInv' /\ \A k : Entry(k)' = Entry(k) BY <1>1, <1>2, CacheFrame
<1>4. ASSUME NEW p \in Pages PROVE prot'[p] \in Prots /\ prot'[p] <= perm[p]
  <2>1. prot[p] \in 0 .. 3 /\ prot[p] <= perm[p] /\ perm[p] \in {0, 1, 3}
    BY PermFacts DEF Inv, PermInv
  <2>2. CASE p \in ToService
    <3>1. access_type[p] \in AccessTypes BY <2>2 DEF Inv, TypeOK, ToService
    <3>2. Prot(access_type[p]) \in 1 .. 3 /\ Prot(access_type[p]) <= perm[p]
      BY <1>1, <2>2, <3>1, PermFacts, ProtFacts DEF Inv, PermInv
    <3>3. Max({prot[p], Prot(access_type[p])}) \in {prot[p], Prot(access_type[p])}
      BY <2>1, <3>2, MaxOfTwo
    <3>4. prot'[p] = Max({prot[p], Prot(access_type[p])}) BY <1>1, <2>2
    <3>5. CASE prot'[p] = prot[p] BY <2>1, <3>5 DEF Prots
    <3>6. CASE prot'[p] = Prot(access_type[p]) BY <3>2, <3>6 DEF Prots
    <3> QED BY <3>3, <3>4, <3>5, <3>6
  <2>3. CASE p \notin ToService BY <1>1, <2>1, <2>3 DEF Prots
  <2> QED BY <2>2, <2>3
<1>5. TypeOK'
  <2>1. prot' \in [Pages -> Prots] BY <1>1, <1>4
  <2>2. i' \in 1 .. Len(order') + 1 BY <1>1, ScanFacts
  <2> QED BY <1>1, <2>1, <2>2 DEF Inv, TypeOK, fetchVars
<1>6. ControlInv' BY <1>1, <1>2 DEF Inv, ControlInv
<1>7. UtlbInv' /\ CountInv' BY <1>1, FetchFrame DEF InBatch
<1>8. PermInv' BY <1>1, <1>4 DEF PermInv
<1>9. OrderInv' BY <1>1, <1>2, OrderFrame
<1>10. FatalInv'
  <2>1. \A k : Refused(k)' <=> Refused(k) BY <1>1, <1>3 DEF Refused, Permitted
  <2>2. \A k \in DOMAIN cache : cache[k].fatal =>
          Refused(k) /\ ~Permitted(Entry(k).page, IF cache[k].mode = "all" THEN READ ELSE WRITE)
    BY <1>1 DEF Inv, FatalInv
  <2>3. \A m \in DOMAIN order : Refused(order[m]) => cache[order[m]].fatal
    <3>1. \A m \in DOMAIN order : m < i BY <1>1, ScanFacts
    <3> QED BY <1>1, <3>1 DEF Inv, FatalInv
  <2>4. \A k \in DOMAIN cache : cache[k].fatal =>
          Refused(k)' /\ ~Permitted(Entry(k).page, IF cache[k].mode = "all" THEN READ ELSE WRITE)'
    BY <1>1, <1>2, <1>3, <2>1, <2>2 DEF Permitted
  <2>5. \A m \in DOMAIN order' : Refused(order[m])' => cache'[order'[m]].fatal
    BY <1>1, <1>2, <2>1, <2>3
  <2> QED BY <1>1, <1>2, <2>4, <2>5 DEF FatalInv
<1>11. FreshInv'
  <2>1. cancelling => \A k \in DOMAIN cache : acc[cache[k].acc] # "done"
    BY <1>1 DEF Inv, FreshInv
  <2> QED BY <1>1, <1>2, <2>1 DEF FreshInv
<1> QED BY <1>3, <1>5, <1>6, <1>7, <1>8, <1>9, <1>10, <1>11 DEF Inv

LEMMA BlockRetryInv == Inv /\ BlockRetry => Inv'
<1> SUFFICES ASSUME Inv, BlockRetry PROVE Inv'
  OBVIOUS
<1>1. /\ pc = "service" /\ disturbances < MaxDisturbances /\ disturbances' = disturbances + 1
      /\ num_retries' = num_retries + 1 /\ i' = 1
      /\ access_type' = [p \in Pages |-> NotServiced]
      /\ UNCHANGED <<work, acc, buffer, perm, prot, cached_put, pc, cancelling, fetchVars, order,
                     fatal, num_duplicates>>
  BY DEF BlockRetry, gpuVars
<1>2. cache' = cache BY <1>1 DEF fetchVars
<1>3. CacheInv' /\ \A k : Entry(k)' = Entry(k) BY <1>1, <1>2, CacheFrame
<1>4. /\ num_retries \in Nat /\ num_retries <= disturbances
      /\ disturbances \in 0 .. MaxDisturbances
  BY DEF Inv, TypeOK, ControlInv
<1>5. TypeOK'
  <2>1. i' \in 1 .. Len(order') + 1 BY <1>1, ScanFacts
  <2>2. num_retries' \in 0 .. MaxDisturbances /\ disturbances' \in 0 .. MaxDisturbances
    BY <1>1, <1>4, Sizes
  <2>3. access_type' \in [Pages -> AccessTypes \cup {NotServiced}] BY <1>1
  <2> QED BY <1>1, <2>1, <2>2, <2>3 DEF Inv, TypeOK, fetchVars
<1>6. ControlInv'
  <2>1. num_retries' <= disturbances' BY <1>1, <1>4, Sizes
  <2> QED BY <1>1, <1>2, <2>1 DEF Inv, ControlInv
<1>7. UtlbInv' /\ CountInv' BY <1>1, FetchFrame DEF InBatch
<1>8. PermInv'
  <2>1. ToService' = {} BY <1>1 DEF ToService
  <2> QED BY <1>1, <2>1 DEF Inv, PermInv
<1>9. OrderInv' BY <1>1, <1>2, OrderFrame
<1>10. FatalInv'
  <2>1. \A m \in DOMAIN order' : ~ (m < i') BY <1>1, ScanFacts
  <2>2. \A k \in DOMAIN cache : cache[k].fatal =>
          Refused(k) /\ ~Permitted(Entry(k).page, IF cache[k].mode = "all" THEN READ ELSE WRITE)
    BY <1>1 DEF Inv, FatalInv
  <2>3. \A k \in DOMAIN cache : cache[k].fatal =>
          Refused(k)' /\ ~Permitted(Entry(k).page, IF cache[k].mode = "all" THEN READ ELSE WRITE)'
    BY <1>1, <1>2, <1>3, <2>2 DEF Permitted, Refused
  <2> QED BY <1>1, <1>2, <2>1, <2>3 DEF FatalInv
<1>11. FreshInv' BY <1>1, <1>2 DEF Inv, FreshInv
<1> QED BY <1>3, <1>5, <1>6, <1>7, <1>8, <1>9, <1>10, <1>11 DEF Inv

\* What a cancel ends.
LEMMA CancelFacts ==
    ASSUME Inv, Cancel
    PROVE  /\ acc' \in [Accesses -> States]
           /\ \A a \in Accesses :
                /\ acc'[a] = "done" => acc[a] = "done" \/ work[a].type = PREFETCH
                /\ acc[a] # "killed" /\ acc'[a] = "killed" =>
                     cache[order[i]].fatal /\ Hit(order[i], a)
<1> DEFINE f == [a \in Accesses |-> IF Hit(order[i], a) THEN "killed" ELSE acc[a]]
<1>1. acc \in [Accesses -> States] BY DEF Inv, TypeOK, States
<1>2. acc' = IF cache[order[i]].fatal THEN Replayed(f) ELSE acc BY DEF Cancel
<1>3. f \in [Accesses -> States] BY <1>1 DEF States
<1>4. \A a \in Accesses : /\ f[a] = "done" => acc[a] = "done"
                          /\ f[a] = "killed" => acc[a] = "killed" \/ Hit(order[i], a)
  OBVIOUS
<1> HIDE DEF f
<1>5. /\ Replayed(f) \in [Accesses -> States]
      /\ \A a \in Accesses :
           /\ Replayed(f)[a] = "done" => f[a] = "done" \/ work[a].type = PREFETCH
           /\ Replayed(f)[a] = "killed" <=> f[a] = "killed"
  BY <1>3, ReplayedFacts
<1>6. CASE cache[order[i]].fatal BY <1>2, <1>4, <1>5, <1>6
<1>7. CASE ~cache[order[i]].fatal BY <1>1, <1>2, <1>7
<1> QED BY <1>6, <1>7

LEMMA CancelInv == Inv /\ Cancel => Inv'
<1> SUFFICES ASSUME Inv, Cancel PROVE Inv'
  OBVIOUS
<1>1. /\ pc = "cancel" /\ i <= Len(order) /\ i' = i + 1
      /\ UNCHANGED <<work, buffer, perm, prot, cached_put, pc, cancelling, fetchVars, order, fatal,
                     access_type, num_retries, num_duplicates, disturbances>>
  BY DEF Cancel
<1>2. cache' = cache BY <1>1 DEF fetchVars
<1>3. CacheInv' /\ \A k : Entry(k)' = Entry(k) BY <1>1, <1>2, CacheFrame
<1>4. TypeOK'
  <2>1. i' \in 1 .. Len(order') + 1 BY <1>1, ScanFacts
  <2>2. acc' \in [Accesses -> States] BY CancelFacts
  <2> QED BY <1>1, <2>1, <2>2 DEF Inv, TypeOK, States, fetchVars
<1>5. ControlInv' BY <1>1, <1>2 DEF Inv, ControlInv
<1>6. UtlbInv' /\ CountInv' BY <1>1, FetchFrame DEF InBatch
<1>7. PermInv' BY <1>1 DEF Inv, PermInv
<1>8. OrderInv' BY <1>1, <1>2, OrderFrame
<1>9. FatalInv' BY <1>1, <1>2, <1>3 DEF Inv, FatalInv, Refused, Permitted
<1>10. FreshInv'
  <2>1. ASSUME NEW k \in DOMAIN cache, cache[k].fatal PROVE acc'[cache[k].acc] # "done"
    <3>1. acc[cache[k].acc] # "done" BY <1>1, <2>1 DEF Inv, FreshInv
    <3>2. cache[k].acc \in Accesses /\ Entry(k) = work[cache[k].acc] BY EntryFacts
    <3>3. Entry(k).type # PREFETCH BY <1>1, <2>1 DEF Inv, FatalInv, Refused
    <3> QED BY <3>1, <3>2, <3>3, CancelFacts
  <2> QED BY <1>1, <1>2, <2>1 DEF FreshInv
<1> QED BY <1>3, <1>4, <1>5, <1>6, <1>7, <1>8, <1>9, <1>10 DEF Inv

-----------------------------------------------------------------------------
(* The invariant holds always.                                             *)

LEMMA InitInv == Init => Inv
<1> SUFFICES ASSUME Init PROVE Inv
  OBVIOUS
<1> USE DEF Init
<1>1. Len(cache) = 0 /\ Len(buffer) = 0 /\ Len(order) = 0 /\ DOMAIN cache = {} OBVIOUS
<1>2. TypeOK
  <2>1. acc \in [Accesses -> {"new", "replayed", "faulted", "done", "killed"}] OBVIOUS
  <2>2. prot \in [Pages -> Prots] BY DEF Prots
  <2>3. /\ cache \in Seq(EntryType) /\ Len(cache) <= MaxBatchSize
        /\ last_fault \in 0 .. Len(cache) /\ num_coalesced \in 0 .. Len(cache)
        /\ order \in Seq(Nat \ {0}) /\ i \in 1 .. Len(order) + 1
        /\ buffer \in Seq(Accesses) /\ cached_put \in 0 .. Len(buffer)
    BY <1>1, Sizes
  <2>4. utlbs \in [Utlbs -> [pending : Nat, last : Nat]] OBVIOUS
  <2>5. access_type \in [Pages -> AccessTypes \cup {NotServiced}] OBVIOUS
  <2>6. /\ num_retries \in 0 .. MaxDisturbances /\ disturbances \in 0 .. MaxDisturbances
        /\ max_utlb_id \in Utlbs
    BY Sizes
  <2> QED BY <2>1, <2>2, <2>3, <2>4, <2>5, <2>6 DEF TypeOK
<1>3. ControlInv BY DEF ControlInv
<1>4. Unfiltered = {} BY <1>1 DEF Unfiltered
<1>5. CacheInv BY <1>1, <1>4 DEF CacheInv
<1>6. UtlbInv BY DEF UtlbInv
<1>7. CountInv BY DEF CountInv, InBatch
<1>8. PermInv
  <2>1. \A p \in Pages : prot[p] <= perm[p] BY DEF Perms
  <2> QED BY <2>1 DEF PermInv
<1>9. OrderInv BY DEF OrderInv
<1>10. FatalInv BY DEF FatalInv
<1>11. FreshInv BY DEF FreshInv
<1> QED BY <1>2, <1>3, <1>5, <1>6, <1>7, <1>8, <1>9, <1>10, <1>11 DEF Inv

LEMMA StutterInv == Inv /\ UNCHANGED vars => Inv'
<1> SUFFICES ASSUME Inv, UNCHANGED vars PROVE Inv'
  OBVIOUS
<1>1. UNCHANGED <<work, acc, buffer, perm, prot, cached_put, pc, cancelling, fetchVars, serviceVars,
                  disturbances>>
  BY DEF vars, gpuVars
<1>2. cache' = cache /\ order' = order /\ i' = i BY <1>1 DEF fetchVars, serviceVars
<1>3. TypeOK' BY <1>1 DEF Inv, TypeOK, fetchVars, serviceVars
<1>4. ControlInv' BY <1>1, <1>2 DEF Inv, ControlInv, serviceVars
<1>5. CacheInv' BY <1>1, <1>2, CacheFrame
<1>6. UtlbInv' /\ CountInv' BY <1>1, FetchFrame DEF InBatch
<1>7. PermInv' BY <1>1 DEF Inv, PermInv, ToService, Permitted, serviceVars
<1>8. OrderInv' BY <1>1, <1>2, OrderFrame
<1>9. FatalInv' BY <1>1, <1>2 DEF Inv, FatalInv, Refused, Permitted, Entry
<1>10. FreshInv' BY <1>1, <1>2 DEF Inv, FreshInv
<1> QED BY <1>3, <1>4, <1>5, <1>6, <1>7, <1>8, <1>9, <1>10 DEF Inv

LEMMA NextInv == Inv /\ [Next]_vars => Inv'
<1> SUFFICES ASSUME Inv, [Next]_vars PROVE Inv'
  OBVIOUS
<1>1. CASE \E a \in Accesses : GpuAccess(a) BY <1>1, GpuAccessInv
<1>2. CASE \E p \in Pages, q \in Perms : SetPermission(p, q) BY <1>2, SetPermissionInv
<1>3. CASE BottomHalf
  BY <1>3, StartBatchInv, FetchEntryInv, PreprocessInv, ServiceEntryInv, BlockServicedInv,
     BlockRetryInv, ReplayBatchInv, ReplayWaitInv, CancelLockInv, CancelFlushInv, CancelFetchInv,
     CancelInv, CancelUnlockInv, CancelEndInv
     DEF BottomHalf
<1>4. CASE UNCHANGED vars BY <1>4, StutterInv
<1> QED BY <1>1, <1>2, <1>3, <1>4 DEF Next

LEMMA InvAlways == Spec => []Inv
BY InitInv, NextInv, PTL DEF Spec

-----------------------------------------------------------------------------
(* The theorems.                                                           *)

LEMMA OneValue ==
    ASSUME NEW S, IsFiniteSet(S)
    PROVE  Cardinality(S) <= 1 <=> \A x, y \in S : x = y
<1>1. Cardinality(S) \in Nat BY FS_CardinalityType
<1>2. CASE S = {}
  <2>1. Cardinality(S) = 0 BY <1>2, FS_EmptySet
  <2> QED BY <1>2, <2>1
<1>3. CASE S # {}
  <2>1. Cardinality(S) # 0 BY <1>3, FS_EmptySet
  <2>2. Cardinality(S) <= 1 <=> Cardinality(S) = 1 BY <1>1, <2>1
  <2>3. Cardinality(S) = 1 <=> \E x : S = {x} BY FS_Singleton
  <2>4. (\E x : S = {x}) <=> \A x, y \in S : x = y
    <3>1. ASSUME \A x, y \in S : x = y PROVE \E x : S = {x}
      <4>1. PICK x \in S : TRUE BY <1>3
      <4>2. S = {x} BY <3>1, <4>1
      <4> QED BY <4>2
    <3> QED BY <3>1
  <2> QED BY <2>2, <2>3, <2>4
<1> QED BY <1>2, <1>3

LEMMA InstancesCounted ==
    ASSUME Inv
    PROVE  Cardinality({Entry(k).inst : k \in Unfiltered}) <= 1
             <=> \A k, l \in Unfiltered : Entry(k).inst = Entry(l).inst
<1> DEFINE T == {Entry(k).inst : k \in Unfiltered}
           f == [k \in Unfiltered |-> Entry(k).inst]
<1>1. f \in Surjection(Unfiltered, T) BY DEF Surjection
<1>2. IsFiniteSet(Unfiltered) BY CacheFacts
<1>3. IsFiniteSet(T) BY <1>1, <1>2, FS_Surjection
<1>4. Cardinality(T) <= 1 <=> \A x, y \in T : x = y BY <1>3, OneValue
<1>5. (\A x, y \in T : x = y) <=> \A k, l \in Unfiltered : Entry(k).inst = Entry(l).inst
  OBVIOUS
<1> QED BY <1>4, <1>5

LEMMA RepresentedOnce == Inv => Represented
<1> SUFFICES ASSUME Inv, NEW k \in DOMAIN cache
             PROVE  \E r \in Unfiltered :
                      /\ \A s \in Unfiltered : cache[s].ring = cache[k].ring => s = r
                      /\ cache[r].ring = cache[k].ring
                      /\ SameSource(cache[r].acc, cache[k].acc)
                      /\ Entry(r).type >= Entry(k).type
                      /\ Entry(r).type = Max(cache[r].mask)
  BY DEF Represented
<1>1. PICK r \in Unfiltered : StandsFor(r, k) BY DEF Inv, CacheInv
<1>2. \A s \in Unfiltered : cache[s].ring = cache[k].ring => s = r
  BY <1>1 DEF Inv, CacheInv, StandsFor
<1>3. Entry(r).type = Max(cache[r].mask)
  <2>1. r \in DOMAIN cache BY DEF Unfiltered
  <2>2. Entry(r).type \in cache[r].mask /\ \A t \in cache[r].mask : t <= Entry(r).type
    BY DEF Inv, CacheInv
  <2>3. cache[r].mask \in SUBSET Nat BY <2>1, EntryFacts, Sizes
  <2> QED BY <2>2, <2>3, MaxIs
<1> QED BY <1>1, <1>2, <1>3 DEF StandsFor

LEMMA CountsAgree == Inv => CountsExact
<1> SUFFICES ASSUME Inv, InBatch PROVE CountsExact
  BY DEF CountsExact, InBatch
<1>1. /\ num_coalesced = Cardinality(Unfiltered)
      /\ \A u \in Utlbs : utlbs[u].pending = Cardinality(OfUtlb(u))
      /\ single_instance <=> \A k, l \in Unfiltered : Entry(k).inst = Entry(l).inst
  BY DEF Inv, CountInv
<1>2. \A u \in Utlbs : utlbs[u].pending = Cardinality({k \in Unfiltered : Entry(k).utlb = u})
  BY <1>1 DEF OfUtlb
<1> QED BY <1>1, <1>2, InstancesCounted DEF CountsExact

(***************************************************************************)
(* fetch_fault_buffer_entries() leaves an exact batch, whatever the faults *)
(* and the order in which they arrive: each one is represented once, by a  *)
(* fault of its instance and page that is at least as intrusive, and the   *)
(* counters agree with the cache.                                          *)
(***************************************************************************)
THEOREM BatchCorrect == Spec => []BatchExact
<1>1. Inv => BatchExact BY RepresentedOnce, CountsAgree DEF Inv, BatchExact
<1> QED BY <1>1, InvAlways, PTL

(***************************************************************************)
(* Every refused access that a cancel has fetched has a representative     *)
(* that is cancelled: the scan of service_fault_batch_block_locked() waives *)
(* no duplicate of a fatal fault, in a retried scan neither.               *)
(***************************************************************************)
THEOREM CompleteCorrect == Spec => []CancelComplete
<1>1. Inv => CancelComplete
  <2> SUFFICES ASSUME Inv, pc = "cancel", NEW k \in DOMAIN cache, NEW r \in Unfiltered,
                      cache[r].ring = cache[k].ring, Refused(k)
               PROVE  cache[r].fatal
    BY DEF CancelComplete, Refused
  <2>1. PICK s \in Unfiltered : StandsFor(s, k) BY DEF Inv, CacheInv
  <2>2. s = r BY <2>1 DEF Inv, CacheInv, StandsFor
  <2>3. r \in DOMAIN cache BY DEF Unfiltered
  <2>4. Entry(r).page = Entry(k).page /\ Entry(r).type >= Entry(k).type
    BY <2>1, <2>2 DEF StandsFor, SameSource, Entry
  <2>5. /\ Entry(r).type \in AccessTypes /\ Entry(k).type \in AccessTypes /\ Entry(k).page \in Pages
    BY <2>3, EntryFacts
  <2>6. Refused(r)
    <3>1. Entry(k).type # PREFETCH /\ ~Permitted(Entry(k).page, Entry(k).type) BY DEF Refused
    <3>2. ~Permitted(Entry(k).page, Entry(r).type) BY <2>4, <2>5, <3>1, PermFacts, Sizes
    <3>3. Entry(r).type # PREFETCH BY <2>4, <2>5, <3>1, Sizes
    <3> QED BY <2>4, <3>2, <3>3 DEF Refused
  <2>7. PICK m \in DOMAIN order : order[m] = r BY ScanFacts
  <2> QED BY <2>6, <2>7 DEF Inv, FatalInv
<1> QED BY <1>1, InvAlways, PTL

(***************************************************************************)
(* A fault that service_fault_batch_for_cancel() reports as fatal is not   *)
(* stale: the flush and the replay before its fetch have thrown out every  *)
(* fault of an access that has completed since.                            *)
(***************************************************************************)
THEOREM FreshCorrect == Spec => []CancelFresh
<1>1. Inv => CancelFresh
  <2> SUFFICES ASSUME Inv, pc = "cancel", NEW k \in i .. Len(order), cache[order[k]].fatal
               PROVE  acc[cache[order[k]].acc] # "done"
    BY DEF CancelFresh
  <2>1. k \in DOMAIN order BY ScanFacts
  <2>2. order[k] \in DOMAIN cache BY <2>1, ScanFacts
  <2> QED BY <2>2 DEF Inv, FreshInv
<1> QED BY <1>1, InvAlways, PTL

(***************************************************************************)
(* cancel_fault_precise_va() ends only accesses that the permissions of    *)
(* their page refuse: the cancel mode that                                 *)
(* check_fault_access_permissions() chose fits the whole page.             *)
(***************************************************************************)
THEOREM PreciseCorrect == Spec => CancelPrecise
<1> DEFINE Precise == \A a \in Accesses : acc[a] # "killed" /\ acc'[a] = "killed" =>
                        ~Permitted(work[a].page, work[a].type)
<1>1. Inv /\ [Next]_vars => Precise
  <2> SUFFICES ASSUME Inv, [Next]_vars, NEW a \in Accesses, acc[a] # "killed", acc'[a] = "killed"
               PROVE  ~Permitted(work[a].page, work[a].type)
    OBVIOUS
  <2>1. acc \in [Accesses -> States] BY DEF Inv, TypeOK, States
  <2>2. Replayed(acc)[a] # "killed" BY <2>1, ReplayedFacts
  <2>3. Cancel
    <3>1. acc' # acc /\ acc' # Replayed(acc) BY <2>2
    <3>2. ~ \E b \in Accesses : GpuAccess(b) BY <2>1 DEF GpuAccess
    <3>3. ~ \E p \in Pages, q \in Perms : SetPermission(p, q) BY <3>1 DEF SetPermission
    <3>4. ~StartBatch /\ ~FetchEntry /\ ~Preprocess /\ ~ServiceEntry
      BY <3>1 DEF StartBatch, FetchEntry, Preprocess, ServiceEntry, gpuVars
    <3>5. ~BlockServiced /\ ~BlockRetry /\ ~ReplayBatch /\ ~ReplayWait
      BY <3>1 DEF BlockServiced, BlockRetry, ReplayBatch, ReplayWait, gpuVars
    <3>6. ~CancelLock /\ ~CancelFlush /\ ~CancelFetch /\ ~CancelUnlock /\ ~CancelEnd
      BY <3>1 DEF CancelLock, CancelFlush, CancelFetch, CancelUnlock, CancelEnd, FlushAll, gpuVars
    <3>7. ~UNCHANGED vars BY <3>1 DEF vars, gpuVars
    <3> QED BY <3>2, <3>3, <3>4, <3>5, <3>6, <3>7 DEF Next, BottomHalf
  <2>4. cache[order[i]].fatal /\ Hit(order[i], a) BY <2>3, CancelFacts
  <2>5. pc = "cancel" /\ i \in DOMAIN order
    BY <2>3, ScanFacts DEF Cancel
  <2>6. PICK k \in DOMAIN cache : k = order[i] BY <2>5, ScanFacts
  <2>7. ~Permitted(Entry(k).page, IF cache[k].mode = "all" THEN READ ELSE WRITE)
    BY <2>4, <2>5, <2>6 DEF Inv, FatalInv
  <2>8. /\ Entry(k).page = work[a].page /\ acc[a] = "faulted"
        /\ cache[k].mode = "all" \/ work[a].type > READ
    BY <2>4, <2>6 DEF Hit, SameSource, Entry
  <2>9. work[a].type \in AccessTypes /\ work[a].page \in Pages /\ READ \in AccessTypes
        /\ WRITE \in AccessTypes
    BY AccessFacts, Sizes
  <2>10. CASE cache[k].mode # "all"
    <3>1. WRITE <= work[a].type BY <2>8, <2>9, <2>10, Sizes
    <3> QED BY <2>7, <2>8, <2>9, <2>10, <3>1, PermFacts
  <2>11. CASE cache[k].mode = "all"
    <3>1. ~Permitted(work[a].page, READ) BY <2>7, <2>8, <2>11
    <3>2. Prot(READ) <= Prot(work[a].type) BY <2>9, ProtFacts, Sizes
    <3>3. /\ perm[work[a].page] \in Nat /\ Prot(READ) \in Nat /\ Prot(work[a].type) \in Nat
      BY <2>9, PermFacts, ProtFacts
    <3> QED BY <3>1, <3>2, <3>3 DEF Permitted
  <2> QED BY <2>10, <2>11
<1> QED BY <1>1, InvAlways, PTL DEF Spec, CancelPrecise
=============================================================================

----------------------------- MODULE DiskProofs -----------------------------
(***************************************************************************)
(* Theorems about the disk, for any number of blocks, entries, files,      *)
(* calls and losses of power: the block cache is consistent and implements *)
(* BlockStore (DiskCache), and over such a store a file reads back as its  *)
(* writers left it unless it was written between the last orderly shutdown *)
(* and a loss of power (FsCrash).                                          *)
(***************************************************************************)
EXTENDS DiskCache, FsCrash, SequenceTheorems, WellFoundedInduction, TLAPS

-----------------------------------------------------------------------------
(* Helpers: the entries that cache_lookup and cache_alloc_entry choose.    *)

\* A nonempty set of naturals has a least element, and First chooses it.
LEMMA FirstMember ==
    ASSUME NEW S, S \subseteq Nat, S # {}
    PROVE  First(S) \in S
  <1>1. PICK x \in S : \A y \in S : ~(<<y, x>> \in OpToRel(<, Nat))
    BY NatLessThanWellFounded, WFMin
  <1>2. \A y \in S : ~(y < x)
    BY <1>1, Zenon DEF OpToRel
  <1>3. \A y \in S : x <= y
    BY <1>2
  <1>. QED
    BY <1>3, Zenon DEF First

\* The first entry of one is that entry.
LEMMA FirstOfOne ==
    ASSUME NEW e \in Nat
    PROVE  First({e}) = e
  BY DEF First

\* The cache has an entry, and entries are natural numbers.
LEMMA EntriesAreNaturals == Entries \subseteq Nat /\ Entries # {}
  BY CacheAssumption DEF Entries

\* Some entry has a smallest time stamp.
LEMMA LeastRecentExists ==
    ASSUME TypeOK
    PROVE  LeastRecent # {} /\ LeastRecent \subseteq Entries /\ LeastRecent \subseteq Nat
  <1>. DEFINE Times == {block_cache[e].last_used : e \in Entries}
  <1>1. \A e \in Entries : block_cache[e].last_used \in Nat
    BY DEF TypeOK, Entry
  <1>2. Times \subseteq Nat
    BY <1>1, Zenon
  <1>3. Times # {}
    BY EntriesAreNaturals, Zenon
  <1>4. Times \subseteq Nat /\ Times # {}
    BY <1>2, <1>3
  <1>. HIDE DEF Times
  <1>5. PICK t \in Times : \A u \in Times : ~(<<u, t>> \in OpToRel(<, Nat))
    BY <1>4, NatLessThanWellFounded, WFMin
  <1>6. \A u \in Times : ~(u < t)
    BY <1>4, <1>5, Zenon DEF OpToRel
  <1>7. \A u \in Times : t <= u
    BY <1>4, <1>6
  <1>8. PICK e \in Entries : t = block_cache[e].last_used
    BY DEF Times
  <1>9. e \in LeastRecent
    BY <1>7, <1>8 DEF LeastRecent, Times
  <1>. QED
    BY <1>9, EntriesAreNaturals DEF LeastRecent

\* The search of cache_alloc_entry ends with an entry, its pointer is not null.
LEMMA AllocEntry ==
    ASSUME TypeOK
    PROVE  alloc_entry \in Entries
  <1>1. Invalid \subseteq Entries /\ Invalid \subseteq Nat
    BY EntriesAreNaturals DEF Invalid
  <1>2. CASE Invalid # {}
    BY <1>1, <1>2, FirstMember DEF alloc_entry
  <1>3. CASE Invalid = {}
    BY <1>3, LeastRecentExists, FirstMember DEF alloc_entry
  <1>. QED
    BY <1>2, <1>3

\* With one entry per block, cache_lookup finds the entry that holds the block.
LEMMA LookupFindsIt ==
    ASSUME OneEntryPerBlock, NEW b \in Blocks, NEW e \in Holding(b)
    PROVE  cache_lookup(b) = e
  <1>1. Holding(b) = {e} /\ e \in Nat
    BY EntriesAreNaturals DEF OneEntryPerBlock, Holding
  <1>. QED
    BY <1>1, FirstOfOne DEF cache_lookup

\* The same in the next state.
LEMMA LookupFindsItNext ==
    ASSUME OneEntryPerBlock', NEW b \in Blocks, NEW e \in Holding(b)'
    PROVE  cache_lookup(b)' = e
  <1>1. Holding(b)' = {e} /\ e \in Nat
    BY EntriesAreNaturals DEF OneEntryPerBlock, Holding
  <1>. QED
    BY <1>1, FirstOfOne DEF cache_lookup

-----------------------------------------------------------------------------
(* What a miss, a hit and a flushed entry do to the contents of the store. *)

CacheInv == TypeOK /\ OneEntryPerBlock /\ CleanIsOnDisk

\* What the step does to the entries, the contents and the disk: block b gets
\* content d (or nothing changes), and blocks may be written back.
Stored(b, d) ==
    /\ OneEntryPerBlock'
    /\ CleanIsOnDisk'
    /\ \A c \in Blocks : Content(c)' = IF c = b THEN d ELSE Content(c)
    /\ \A c \in Blocks : disk'[c] \in {disk[c], Content(c)}

\* Writing an entry back changes the disk to what the store already holds.
LEMMA WriteBackOfEntry ==
    ASSUME CacheInv, NEW e \in Entries, disk' = flushed_disk(e)
    PROVE  /\ disk' \in [Blocks -> Data]
           /\ \A c \in Blocks : disk'[c] \in {disk[c], Content(c)}
           /\ \A c \in Blocks :
                disk'[c] # disk[c] => e \in Holding(c) /\ disk'[c] = block_cache[e].data
           /\ block_cache[e].valid => disk'[block_cache[e].block_no] = block_cache[e].data
  <1>. DEFINE c == block_cache[e].block_no
  <1>1. block_cache[e] \in Entry /\ disk \in [Blocks -> Data]
    BY DEF CacheInv, TypeOK
  <1>2. CASE NeedsFlush(e)
    <2>1. disk' = [disk EXCEPT ![c] = block_cache[e].data]
      BY <1>2 DEF flushed_disk
    <2>2. c \in Blocks /\ e \in Holding(c)
      BY <1>1, <1>2 DEF Entry, Holding, NeedsFlush
    <2>3. Content(c) = block_cache[e].data
      BY <2>2, LookupFindsIt DEF Content, CacheInv
    <2>. QED
      BY <1>1, <2>1, <2>2, <2>3 DEF Entry
  <1>3. CASE ~NeedsFlush(e)
    <2>1. disk' = disk
      BY <1>3 DEF flushed_disk
    <2>. QED
      BY <1>1, <1>3, <2>1 DEF CacheInv, CleanIsOnDisk, NeedsFlush
  <1>. QED
    BY <1>2, <1>3

\* A miss of block b puts x into entry e, after e was written back.
LEMMA MissStep ==
    ASSUME CacheInv, NEW e \in Entries, NEW b \in Blocks, Holding(b) = {},
           NEW x \in Entry, disk' = flushed_disk(e),
           block_cache' = [block_cache EXCEPT ![e] = x],
           x.valid => x.block_no = b,
           x.valid /\ ~x.dirty => x.data = disk'[b]
    PROVE  Stored(b, IF x.valid THEN x.data ELSE Content(b))
  <1>1. block_cache \in [Entries -> Entry] /\ block_cache'[e] = x
    BY DEF CacheInv, TypeOK
  <1>2. \A f \in Entries : f # e => block_cache'[f] = block_cache[f]
    BY <1>1
  <1>3. OneEntryPerBlock'
    BY <1>1, <1>2 DEF CacheInv, OneEntryPerBlock, Holding
  <1>4. /\ \A c \in Blocks : disk'[c] \in {disk[c], Content(c)}
        /\ \A c \in Blocks :
             disk'[c] # disk[c] => e \in Holding(c) /\ disk'[c] = block_cache[e].data
        /\ block_cache[e].valid => disk'[block_cache[e].block_no] = block_cache[e].data
    BY WriteBackOfEntry
  <1>5. CleanIsOnDisk'
    <2>. SUFFICES ASSUME NEW f \in Entries, block_cache'[f].valid,
                         ~block_cache'[f].dirty
                  PROVE  block_cache'[f].data = disk'[block_cache'[f].block_no]
      BY DEF CleanIsOnDisk
    <2>1. CASE f = e
      BY <1>1, <2>1
    <2>2. CASE f # e
      <3>. DEFINE c == block_cache[f].block_no
      <3>1. c \in Blocks /\ f \in Holding(c)
        BY <1>1, <1>2, <2>2 DEF Entry, Holding
      <3>2. e \notin Holding(c)
        BY <3>1, <2>2 DEF CacheInv, OneEntryPerBlock, Holding
      <3>3. disk'[c] = disk[c]
        BY <1>4, <3>1, <3>2
      <3>. QED
        BY <1>2, <2>2, <3>1, <3>3 DEF CacheInv, CleanIsOnDisk
    <2>. QED
      BY <2>1, <2>2
  <1>6. \A c \in Blocks :
          Content(c)' = IF c = b THEN IF x.valid THEN x.data ELSE Content(b)
                                 ELSE Content(c)
    <2>. SUFFICES ASSUME NEW c \in Blocks
                  PROVE  Content(c)' = IF c = b THEN IF x.valid THEN x.data ELSE Content(b)
                                                ELSE Content(c)
      OBVIOUS
    <2>1. CASE c = b /\ x.valid
      <3>1. e \in Holding(c)'
        BY <1>1, <2>1 DEF Holding
      <3>2. cache_lookup(c)' = e
        BY <1>3, <3>1, LookupFindsItNext
      <3>. QED
        BY <1>1, <2>1, <3>1, <3>2 DEF Content
    <2>2. CASE c = b /\ ~x.valid
      <3>1. Holding(c)' = {}
        BY <1>1, <1>2, <2>2 DEF Holding
      <3>2. disk'[c] = disk[c]
        BY <1>4, <2>2
      <3>. QED
        BY <2>2, <3>1, <3>2 DEF Content
    <2>3. CASE c # b /\ \E f \in Holding(c) : f # e
      <3>1. PICK f \in Holding(c) : f # e
        BY <2>3
      <3>2. f \in Entries /\ f \in Holding(c)' /\ block_cache'[f] = block_cache[f]
        BY <1>1, <1>2, <3>1 DEF Holding
      <3>3. cache_lookup(c) = f /\ cache_lookup(c)' = f
        BY <1>3, <3>1, <3>2, LookupFindsIt, LookupFindsItNext DEF CacheInv
      <3>. QED
        BY <2>3, <3>1, <3>2, <3>3 DEF Content
    <2>4. CASE c # b /\ Holding(c) \subseteq {e}
      <3>1. Holding(c)' = {}
        BY <1>1, <1>2, <2>4 DEF Holding
      <3>2. CASE e \in Holding(c)
        <4>1. cache_lookup(c) = e
          BY <3>2, LookupFindsIt DEF CacheInv
        <4>2. disk'[c] = block_cache[e].data
          BY <1>4, <3>2 DEF Holding
        <4>. QED
          BY <2>4, <3>1, <3>2, <4>1, <4>2 DEF Content
      <3>3. CASE Holding(c) = {}
        <4>1. disk'[c] = disk[c]
          BY <1>4, <3>3
        <4>. QED
          BY <2>4, <3>1, <3>3, <4>1 DEF Content
      <3>. QED
        BY <2>4, <3>2, <3>3
    <2>. QED
      BY <2>1, <2>2, <2>3, <2>4
  <1>. QED
    BY <1>3, <1>4, <1>5, <1>6 DEF Stored

\* A hit of block b changes the content of its entry, or only its time stamp.
LEMMA HitStep ==
    ASSUME CacheInv, NEW b \in Blocks, NEW e \in Holding(b), NEW x \in Entry,
           disk' = disk, block_cache' = [block_cache EXCEPT ![e] = x],
           x.valid, x.block_no = b,
           ~x.dirty => x.data = disk[b]
    PROVE  Stored(b, x.data)
  <1>1. /\ block_cache \in [Entries -> Entry] /\ e \in Entries
        /\ block_cache[e].valid /\ block_cache[e].block_no = b
    BY DEF CacheInv, TypeOK, Holding
  <1>2. /\ block_cache'[e] = x
        /\ \A f \in Entries : f # e => block_cache'[f] = block_cache[f]
    BY <1>1
  <1>3. OneEntryPerBlock'
    BY <1>1, <1>2 DEF CacheInv, OneEntryPerBlock
  <1>4. CleanIsOnDisk'
    BY <1>1, <1>2 DEF CacheInv, CleanIsOnDisk
  <1>5. \A c \in Blocks : Holding(c)' = Holding(c)
    BY <1>1, <1>2 DEF Holding
  <1>6. Content(b)' = x.data
    <2>1. e \in Holding(b)'
      BY <1>5
    <2>2. cache_lookup(b)' = e
      BY <1>3, <2>1, LookupFindsItNext
    <2>. QED
      BY <1>2, <2>1, <2>2 DEF Content
  <1>7. \A c \in Blocks : c # b => Content(c)' = Content(c)
    <2>. SUFFICES ASSUME NEW c \in Blocks, c # b
                  PROVE  Content(c)' = Content(c)
      OBVIOUS
    <2>1. CASE Holding(c) = {}
      BY <1>5, <2>1 DEF Content
    <2>2. CASE Holding(c) # {}
      <3>1. PICK f \in Holding(c) : TRUE
        BY <2>2
      <3>2. f \in Entries /\ f # e /\ f \in Holding(c)'
        BY <1>1, <1>5, <3>1 DEF Holding
      <3>3. cache_lookup(c) = f /\ cache_lookup(c)' = f
        BY <1>3, <3>1, <3>2, LookupFindsIt, LookupFindsItNext DEF CacheInv
      <3>. QED
        BY <1>2, <3>1, <3>2, <3>3 DEF Content
    <2>. QED
      BY <2>1, <2>2
  <1>. QED
    BY <1>3, <1>4, <1>6, <1>7 DEF Stored

\* A turn of the loop of disk_flush.
LEMMA FlushStep ==
    ASSUME CacheInv, flush_entry
    PROVE  LET b == block_cache[flush_idx].block_no
           IN  b \in Blocks /\ Stored(b, Content(b))
  <1>. DEFINE e == flush_idx
              b == block_cache[e].block_no
  <1>1. /\ e \in Entries /\ block_cache \in [Entries -> Entry]
        /\ b \in Blocks /\ disk' = flushed_disk(e)
    BY CacheAssumption DEF CacheInv, TypeOK, flush_entry, Entries, Entry
  <1>2. \A f \in Entries :
          /\ f # e => block_cache'[f] = block_cache[f]
          /\ block_cache'[f].valid = block_cache[f].valid
          /\ block_cache'[f].block_no = block_cache[f].block_no
          /\ block_cache'[f].data = block_cache[f].data
          /\ block_cache'[e].valid => ~block_cache'[e].dirty
    BY <1>1 DEF flush_entry, NeedsFlush, Entry
  <1>3. OneEntryPerBlock'
    BY <1>2 DEF CacheInv, OneEntryPerBlock
  <1>4. /\ \A c \in Blocks : disk'[c] \in {disk[c], Content(c)}
        /\ \A c \in Blocks :
             disk'[c] # disk[c] => e \in Holding(c) /\ disk'[c] = block_cache[e].data
        /\ block_cache[e].valid => disk'[b] = block_cache[e].data
    BY <1>1, WriteBackOfEntry
  <1>5. CleanIsOnDisk'
    <2>. SUFFICES ASSUME NEW f \in Entries, block_cache'[f].valid,
                         ~block_cache'[f].dirty
                  PROVE  block_cache'[f].data = disk'[block_cache'[f].block_no]
      BY DEF CleanIsOnDisk
    <2>1. CASE f = e
      BY <1>2, <1>4, <2>1
    <2>2. CASE f # e
      <3>. DEFINE c == block_cache[f].block_no
      <3>1. c \in Blocks /\ f \in Holding(c)
        BY <1>1, <1>2 DEF Entry, Holding
      <3>2. e \notin Holding(c)
        BY <1>1, <3>1, <2>2 DEF CacheInv, OneEntryPerBlock, Holding
      <3>3. disk'[c] = disk[c]
        BY <1>4, <3>1, <3>2
      <3>. QED
        BY <1>2, <2>2, <3>1, <3>3 DEF CacheInv, CleanIsOnDisk
    <2>. QED
      BY <2>1, <2>2
  <1>6. \A c \in Blocks : Content(c)' = Content(c)
    <2>. SUFFICES ASSUME NEW c \in Blocks
                  PROVE  Content(c)' = Content(c)
      OBVIOUS
    <2>1. Holding(c)' = Holding(c)
      BY <1>2 DEF Holding
    <2>2. CASE Holding(c) = {}
      BY <1>4, <2>1, <2>2 DEF Content
    <2>3. CASE Holding(c) # {}
      <3>1. PICK f \in Holding(c) : TRUE
        BY <2>3
      <3>2. f \in Entries /\ f \in Holding(c)'
        BY <2>1 DEF Holding
      <3>3. cache_lookup(c) = f /\ cache_lookup(c)' = f
        BY <1>3, <3>1, <3>2, LookupFindsIt, LookupFindsItNext DEF CacheInv
      <3>. QED
        BY <1>2, <2>1, <2>3, <3>2, <3>3 DEF Content
    <2>. QED
      BY <2>2, <2>3
  <1>. QED
    BY <1>1, <1>3, <1>4, <1>5, <1>6 DEF Stored

-----------------------------------------------------------------------------
(* Each access of the disk, as a step of the store.                        *)

\* An access replaces one entry.
LEMMA AccessType ==
    ASSUME TypeOK, NEW e \in Entries, NEW x \in Entry,
           block_cache' = [block_cache EXCEPT ![e] = x],
           clock' \in Nat, disk' \in [Blocks -> Data], out' \in Data \cup {Failed},
           mode' = mode, flush_idx' = flush_idx
    PROVE  TypeOK'
  BY DEF TypeOK

\* The clock of the cache stays a natural number.
LEMMA TickType ==
    ASSUME TypeOK, Tick
    PROVE  clock' \in Nat
  BY DEF TypeOK, Tick

\* A lookup of a cached block finds an entry that holds it, and its content.
LEMMA LookupMember ==
    ASSUME CacheInv, NEW b \in Blocks, Holding(b) # {}
    PROVE  /\ cache_lookup(b) \in Holding(b) /\ cache_lookup(b) \in Entries
           /\ Content(b) = block_cache[cache_lookup(b)].data
           /\ block_cache[cache_lookup(b)] \in Entry
  <1>1. PICK e \in Holding(b) : TRUE
    OBVIOUS
  <1>2. cache_lookup(b) = e
    BY LookupFindsIt DEF CacheInv
  <1>. QED
    BY <1>2 DEF Holding, Content, CacheInv, TypeOK

\* A read that hits returns the block's content and changes no content.
LEMMA ReadHitStep ==
    ASSUME CacheInv, NEW b \in Blocks, read_hit(b)
    PROVE  TypeOK' /\ Stored(b, Content(b)) /\ out' = Content(b)
  <1>. DEFINE e == cache_lookup(b)
              x == [block_cache[e] EXCEPT !.last_used = clock + 1]
  <1>1. /\ e \in Holding(b) /\ e \in Entries /\ block_cache[e] \in Entry
        /\ Content(b) = block_cache[e].data
    BY LookupMember DEF read_hit
  <1>2. block_cache' = [block_cache EXCEPT ![e] = x]
    BY DEF read_hit
  <1>3. x \in Entry /\ x.data = block_cache[e].data
    BY <1>1 DEF Entry, CacheInv, TypeOK
  <1>4. x.valid /\ x.block_no = b /\ (~x.dirty => x.data = disk[b])
    BY <1>1 DEF Entry, Holding, CacheInv, CleanIsOnDisk
  <1>5. disk' = disk /\ out' = block_cache[e].data
    BY DEF read_hit
  <1>. HIDE DEF x, e
  <1>6. Stored(b, x.data)
    BY <1>1, <1>2, <1>3, <1>4, <1>5, HitStep
  <1>7. TypeOK'
    <2>1. /\ TypeOK /\ Tick /\ disk \in [Blocks -> Data] /\ block_cache[e].data \in Data
          /\ mode' = mode /\ flush_idx' = flush_idx
      BY <1>1 DEF CacheInv, read_hit, TypeOK, Entry
    <2>. QED
      BY <1>1, <1>2, <1>3, <1>5, <2>1, AccessType, TickType
  <1>. QED
    BY <1>1, <1>3, <1>5, <1>6, <1>7

\* A read that misses returns the block's content and changes no content, the
\* block of the evicted entry included.
LEMMA ReadMissStep ==
    ASSUME CacheInv, NEW b \in Blocks, read_miss(b)
    PROVE  TypeOK' /\ Stored(b, Content(b)) /\ out' = Content(b)
  <1>. DEFINE e == alloc_entry
              x == Touched(b, disk'[b], FALSE)
  <1>1. e \in Entries
    BY AllocEntry DEF CacheInv
  <1>2. /\ block_cache' = [block_cache EXCEPT ![e] = x]
        /\ disk' = flushed_disk(e) /\ out' = disk'[b] /\ Holding(b) = {}
    BY DEF read_miss
  <1>. HIDE DEF e
  <1>3. /\ disk' \in [Blocks -> Data]
        /\ disk'[b] # disk[b] => e \in Holding(b)
    BY <1>1, <1>2, WriteBackOfEntry
  <1>4. x \in Entry /\ x.valid /\ ~x.dirty /\ x.block_no = b /\ x.data = disk'[b]
    BY <1>3 DEF Touched, Entry, CacheInv, TypeOK
  <1>5. Content(b) = disk'[b]
    BY <1>2, <1>3 DEF Content
  <1>. HIDE DEF x
  <1>6. Stored(b, Content(b))
    <2>1. Stored(b, IF x.valid THEN x.data ELSE Content(b))
      BY <1>1, <1>2, <1>4, MissStep
    <2>. QED
      BY <2>1, <1>4, <1>5
  <1>7. TypeOK'
    <2>1. TypeOK /\ Tick /\ mode' = mode /\ flush_idx' = flush_idx
      BY DEF CacheInv, read_miss
    <2>. QED
      BY <1>1, <1>2, <1>3, <1>4, <2>1, AccessType, TickType
  <1>. QED
    BY <1>2, <1>5, <1>6, <1>7

\* A read the device refuses changes no content.
LEMMA ReadFailsStep ==
    ASSUME CacheInv, NEW b \in Blocks, read_fails(b)
    PROVE  TypeOK' /\ Stored(b, Content(b)) /\ out' = Failed
  <1>. DEFINE e == alloc_entry
              x == [block_cache[e] EXCEPT !.valid = FALSE, !.dirty = FALSE]
  <1>1. e \in Entries
    BY AllocEntry DEF CacheInv
  <1>2. /\ block_cache \in [Entries -> Entry]
        /\ disk' = flushed_disk(e) /\ out' = Failed /\ Holding(b) = {}
    BY DEF read_fails, CacheInv, TypeOK
  <1>3. block_cache' = [block_cache EXCEPT ![e] = x]
    BY <1>1, <1>2 DEF read_fails
  <1>4. x \in Entry /\ ~x.valid
    BY <1>1, <1>2 DEF Entry
  <1>. HIDE DEF e, x
  <1>5. disk' \in [Blocks -> Data]
    BY <1>1, <1>2, WriteBackOfEntry
  <1>6. Stored(b, Content(b))
    <2>1. Stored(b, IF x.valid THEN x.data ELSE Content(b))
      BY <1>1, <1>2, <1>3, <1>4, MissStep
    <2>. QED
      BY <2>1, <1>4
  <1>7. TypeOK'
    BY <1>1, <1>2, <1>3, <1>4, <1>5 DEF TypeOK, CacheInv, read_fails
  <1>. QED
    BY <1>2, <1>6, <1>7

\* A write that hits changes the content of its block and of no other.
LEMMA WriteHitStep ==
    ASSUME CacheInv, NEW b \in Blocks, NEW d \in Data, write_hit(b, d)
    PROVE  TypeOK' /\ Stored(b, d)
  <1>. DEFINE e == cache_lookup(b)
              x == Touched(b, d, TRUE)
  <1>1. e \in Holding(b) /\ e \in Entries
    BY LookupMember DEF write_hit
  <1>2. block_cache' = [block_cache EXCEPT ![e] = x] /\ disk' = disk
    BY DEF write_hit
  <1>3. x \in Entry /\ x.valid /\ x.dirty /\ x.block_no = b /\ x.data = d
    BY DEF Touched, Entry, CacheInv, TypeOK
  <1>. HIDE DEF e, x
  <1>4. Stored(b, x.data)
    BY <1>1, <1>2, <1>3, HitStep
  <1>5. TypeOK'
    <2>1. /\ TypeOK /\ Tick /\ mode' = mode /\ flush_idx' = flush_idx
          /\ disk \in [Blocks -> Data] /\ out' = out /\ out \in Data \cup {Failed}
      BY DEF CacheInv, write_hit, TypeOK
    <2>. QED
      BY <1>1, <1>2, <1>3, <2>1, AccessType, TickType
  <1>. QED
    BY <1>3, <1>4, <1>5

\* A write that misses changes the content of its block and of no other, the
\* block of the evicted entry included.
LEMMA WriteMissStep ==
    ASSUME CacheInv, NEW b \in Blocks, NEW d \in Data, write_miss(b, d)
    PROVE  TypeOK' /\ Stored(b, d)
  <1>. DEFINE e == alloc_entry
              x == Touched(b, d, TRUE)
  <1>1. e \in Entries
    BY AllocEntry DEF CacheInv
  <1>2. /\ block_cache' = [block_cache EXCEPT ![e] = x]
        /\ disk' = flushed_disk(e) /\ Holding(b) = {}
    BY DEF write_miss
  <1>3. x \in Entry /\ x.valid /\ x.dirty /\ x.block_no = b /\ x.data = d
    BY DEF Touched, Entry, CacheInv, TypeOK
  <1>. HIDE DEF e, x
  <1>4. disk' \in [Blocks -> Data]
    BY <1>1, <1>2, WriteBackOfEntry
  <1>5. Stored(b, d)
    <2>1. Stored(b, IF x.valid THEN x.data ELSE Content(b))
      BY <1>1, <1>2, <1>3, MissStep
    <2>. QED
      BY <2>1, <1>3
  <1>6. TypeOK'
    <2>1. /\ TypeOK /\ Tick /\ mode' = mode /\ flush_idx' = flush_idx
          /\ out' = out /\ out \in Data \cup {Failed}
      BY DEF CacheInv, write_miss, TypeOK
    <2>. QED
      BY <1>1, <1>2, <1>3, <1>4, <2>1, AccessType, TickType
  <1>. QED
    BY <1>5, <1>6

-----------------------------------------------------------------------------
(* The inductive invariant.                                                *)

\* The machine is switched off only after the loop of disk_flush has ended.
Inv ==
    /\ CacheInv
    /\ FlushedIsClean
    /\ mode = "off" => flush_idx > NEntries

\* The cache of a fresh boot holds nothing.
LEMMA ZeroCacheEmpty ==
    /\ ZeroCache \in [Entries -> Entry]
    /\ \A e \in Entries : ~ZeroCache[e].valid
  <1>1. (CHOOSE b \in Blocks : TRUE) \in Blocks /\ (CHOOSE d \in Data : TRUE) \in Data
    BY CacheAssumption
  <1>. QED
    BY <1>1 DEF ZeroCache, ZeroEntry, Entry

\* The invariant holds at boot.
LEMMA InvInit == Init => Inv
  <1>. SUFFICES ASSUME Init PROVE Inv
    OBVIOUS
  <1>1. TypeOK
    BY ZeroCacheEmpty, CacheAssumption DEF Init, TypeOK
  <1>2. OneEntryPerBlock /\ CleanIsOnDisk /\ FlushedIsClean
    BY ZeroCacheEmpty DEF Init, OneEntryPerBlock, CleanIsOnDisk, FlushedIsClean
  <1>. QED
    BY <1>1, <1>2 DEF Inv, CacheInv, Init

\* The steps that only change the mode.
LEMMA ModeSteps ==
    ASSUME Inv, shutdown \/ flush_fails \/ system_reset \/ \E b \in Blocks : evict_fails(b)
    PROVE  Inv'
  <1>1. /\ UNCHANGED <<block_cache, clock, disk, out>>
        /\ flush_idx' \in {1, flush_idx}
        /\ mode' \in {"flush", "panic", "off"}
        /\ mode' = "flush" => flush_idx' = 1
        /\ mode' = "off" => mode = "flush" /\ flush_idx' = flush_idx /\ flush_idx > NEntries
    BY DEF shutdown, flush_fails, system_reset, evict_fails
  <1>2. TypeOK'
    BY <1>1, CacheAssumption DEF Inv, CacheInv, TypeOK
  <1>3. OneEntryPerBlock' /\ CleanIsOnDisk'
    BY <1>1 DEF Inv, CacheInv, OneEntryPerBlock, CleanIsOnDisk
  <1>4. FlushedIsClean'
    BY <1>1 DEF Inv, FlushedIsClean, NeedsFlush, Entries
  <1>. QED
    BY <1>1, <1>2, <1>3, <1>4 DEF Inv, CacheInv

\* Flushing an entry keeps the invariant.
LEMMA FlushInv ==
    ASSUME Inv, flush_entry
    PROVE  Inv'
  <1>1. /\ flush_idx \in Entries /\ block_cache \in [Entries -> Entry]
        /\ disk' = flushed_disk(flush_idx)
    BY CacheAssumption DEF Inv, CacheInv, TypeOK, flush_entry, Entries
  <1>2. OneEntryPerBlock' /\ CleanIsOnDisk'
    BY FlushStep DEF Inv, Stored
  <1>3. disk' \in [Blocks -> Data]
    BY <1>1, WriteBackOfEntry DEF Inv
  <1>4. block_cache' \in [Entries -> Entry]
    BY <1>1 DEF flush_entry, Entry
  <1>5. TypeOK'
    BY <1>1, <1>3, <1>4, CacheAssumption
    DEF Inv, CacheInv, TypeOK, flush_entry, Entries
  <1>6. FlushedIsClean'
    <2>. SUFFICES ASSUME NEW e \in Entries, e < flush_idx'
                  PROVE  ~NeedsFlush(e)'
      BY DEF FlushedIsClean
    <2>1. CASE e = flush_idx
      BY <1>1, <2>1 DEF flush_entry, NeedsFlush, Entry
    <2>2. CASE e # flush_idx
      <3>1. e < flush_idx
        BY <1>1, <2>2 DEF flush_entry, Entries
      <3>2. ~NeedsFlush(e)
        BY <3>1 DEF Inv, FlushedIsClean, flush_entry
      <3>. QED
        BY <1>1, <2>2, <3>2 DEF flush_entry, NeedsFlush
    <2>. QED
      BY <2>1, <2>2
  <1>. QED
    BY <1>2, <1>5, <1>6 DEF Inv, CacheInv, flush_entry

\* A power cycle keeps the invariant.
LEMMA PowerCycleInv ==
    ASSUME Inv, power_cycle
    PROVE  Inv'
  <1>1. TypeOK'
    BY ZeroCacheEmpty, CacheAssumption DEF power_cycle, TypeOK, Inv, CacheInv
  <1>2. OneEntryPerBlock' /\ CleanIsOnDisk' /\ FlushedIsClean'
    BY ZeroCacheEmpty DEF power_cycle, OneEntryPerBlock, CleanIsOnDisk, FlushedIsClean
  <1>. QED
    BY <1>1, <1>2 DEF Inv, CacheInv, power_cycle

\* Every step keeps the invariant.
LEMMA InvStep == Inv /\ [Next]_vars => Inv'
  <1>. SUFFICES ASSUME Inv, [Next]_vars PROVE Inv'
    OBVIOUS
  <1>0. CacheInv
    BY DEF Inv
  <1>1. ASSUME NEW b \in Blocks, read_hit(b) PROVE Inv'
    BY <1>0, <1>1, ReadHitStep DEF Stored, Inv, CacheInv, FlushedIsClean, read_hit
  <1>2. ASSUME NEW b \in Blocks, read_miss(b) PROVE Inv'
    BY <1>0, <1>2, ReadMissStep DEF Stored, Inv, CacheInv, FlushedIsClean, read_miss
  <1>3. ASSUME NEW b \in Blocks, read_fails(b) PROVE Inv'
    BY <1>0, <1>3, ReadFailsStep DEF Stored, Inv, CacheInv, FlushedIsClean, read_fails
  <1>4. ASSUME NEW b \in Blocks, NEW d \in Data, write_hit(b, d) PROVE Inv'
    BY <1>0, <1>4, WriteHitStep DEF Stored, Inv, CacheInv, FlushedIsClean, write_hit
  <1>5. ASSUME NEW b \in Blocks, NEW d \in Data, write_miss(b, d) PROVE Inv'
    BY <1>0, <1>5, WriteMissStep DEF Stored, Inv, CacheInv, FlushedIsClean, write_miss
  <1>6. CASE shutdown \/ flush_fails \/ system_reset \/ \E b \in Blocks : evict_fails(b)
    BY <1>6, ModeSteps
  <1>7. CASE flush_entry
    BY <1>7, FlushInv
  <1>8. CASE power_cycle
    BY <1>8, PowerCycleInv
  <1>9. CASE UNCHANGED vars
    BY <1>9 DEF vars, Inv, CacheInv, TypeOK, OneEntryPerBlock, CleanIsOnDisk,
                FlushedIsClean, NeedsFlush
  <1>. QED
    BY <1>1, <1>2, <1>3, <1>4, <1>5, <1>6, <1>7, <1>8, <1>9 DEF Next, Access

\* The inductive invariant holds in every reachable state of the cache.
THEOREM InvHolds == Spec => []Inv
  BY InvInit, InvStep, PTL DEF Spec

\* The cache and the disk keep their shape; in particular cache_alloc_entry
\* always ends with an entry.
THEOREM TypeCorrect == Spec => []TypeOK
  <1>1. Inv => TypeOK
    BY DEF Inv, CacheInv
  <1>. QED
    BY <1>1, InvHolds, PTL

\* No block is ever in two entries, for any cache size.
THEOREM NeverTwoEntries == Spec => []OneEntryPerBlock
  <1>1. Inv => OneEntryPerBlock
    BY DEF Inv, CacheInv
  <1>. QED
    BY <1>1, InvHolds, PTL

\* An entry that cache_alloc_entry drops without writing it is on the disk.
THEOREM CleanAlwaysOnDisk == Spec => []CleanIsOnDisk
  <1>1. Inv => CleanIsOnDisk
    BY DEF Inv, CacheInv
  <1>. QED
    BY <1>1, InvHolds, PTL

\* The loop of disk_flush leaves only clean entries behind it.
THEOREM FlushedStaysClean == Spec => []FlushedIsClean
  <1>1. Inv => FlushedIsClean
    BY DEF Inv
  <1>. QED
    BY <1>1, InvHolds, PTL

\* Once the loop of disk_flush has ended the disk holds the whole store.
LEMMA LoopEndedIsFlushed ==
    ASSUME Inv, mode \in {"flush", "off"}, flush_idx > NEntries
    PROVE  \A b \in Blocks : disk[b] = Content(b)
  <1>. SUFFICES ASSUME NEW b \in Blocks PROVE disk[b] = Content(b)
    OBVIOUS
  <1>1. CASE Holding(b) = {}
    BY <1>1 DEF Content
  <1>2. CASE Holding(b) # {}
    <2>. DEFINE e == cache_lookup(b)
    <2>1. e \in Holding(b) /\ e \in Entries /\ Content(b) = block_cache[e].data
      BY <1>2, LookupMember DEF Inv
    <2>2. e < flush_idx
      BY <2>1, CacheAssumption DEF Inv, CacheInv, TypeOK, Entries
    <2>3. ~NeedsFlush(e)
      BY <2>1, <2>2 DEF Inv, FlushedIsClean
    <2>. QED
      BY <2>1, <2>3 DEF Inv, CacheInv, CleanIsOnDisk, NeedsFlush, Holding
  <1>. QED
    BY <1>1, <1>2

\* After shutdown() or reboot() the disk holds every write.
THEOREM ShutdownLosesNothing == Spec => []NothingLostByShutdown
  <1>1. Inv => NothingLostByShutdown
    BY LoopEndedIsFlushed DEF NothingLostByShutdown, Inv
  <1>. QED
    BY <1>1, InvHolds, PTL

\* Everything the code relies on between the cache and the disk, for any number of
\* blocks and entries, with requests refused and power lost at any moment.
THEOREM CacheAlwaysConsistent == Spec => []CacheConsistent
  BY TypeCorrect, NeverTwoEntries, CleanAlwaysOnDisk, FlushedStaysClean,
     ShutdownLosesNothing, PTL DEF CacheConsistent

-----------------------------------------------------------------------------
(* The cache implements BlockStore.  The store is Content, the durable     *)
(* blocks are the disk.                                                    *)

\* A change of the disk towards the content is a write-back of the abstract disk.
LEMMA WriteBackStep ==
    ASSUME disk \in [Blocks -> Data], disk' \in [Blocks -> Data],
           \A c \in Blocks : disk'[c] \in {disk[c], Content(c)}
    PROVE  Abstract!WriteBack
  <1>. DEFINE B == {c \in Blocks : disk'[c] # disk[c]}
  <1>1. disk' = [b \in Blocks |-> IF b \in B THEN [c \in Blocks |-> Content(c)][b]
                                             ELSE disk[b]]
    OBVIOUS
  <1>2. B \in SUBSET Blocks
    OBVIOUS
  <1>. HIDE DEF B
  <1>. QED
    BY <1>1, <1>2 DEF Abstract!WriteBack

\* A read, whatever was evicted for it.
LEMMA ReadImplements ==
    ASSUME Inv, Inv', NEW b \in Blocks, mode = "run", mode' = mode,
           Stored(b, Content(b)), out' \in {Content(b), Failed}
    PROVE  Abstract!Read(b)
  <1>1. Abstract!WriteBack
    BY WriteBackStep DEF Inv, CacheInv, TypeOK, Stored
  <1>2. [c \in Blocks |-> Content(c)]' = [c \in Blocks |-> Content(c)]
    BY DEF Stored
  <1>. QED
    BY <1>1, <1>2 DEF Abstract!Read

\* A write of the cache is a write of the abstract disk.
LEMMA WriteImplements ==
    ASSUME Inv, Inv', NEW b \in Blocks, NEW d \in Data, mode = "run", mode' = mode,
           Stored(b, d), out' = out
    PROVE  Abstract!Write(b, d)
  <1>1. Abstract!WriteBack
    BY WriteBackStep DEF Inv, CacheInv, TypeOK, Stored
  <1>2. [c \in Blocks |-> Content(c)]' = [[c \in Blocks |-> Content(c)] EXCEPT ![b] = d]
    BY DEF Stored
  <1>. QED
    BY <1>1, <1>2 DEF Abstract!Write

\* A flush of an entry is part of a sync of the abstract disk.
LEMMA SyncImplements ==
    ASSUME Inv, Inv', flush_entry
    PROVE  Abstract!Sync
  <1>1. PICK b \in Blocks : Stored(b, Content(b))
    BY FlushStep DEF Inv
  <1>2. Abstract!WriteBack
    BY <1>1, WriteBackStep DEF Inv, CacheInv, TypeOK, Stored
  <1>3. [c \in Blocks |-> Content(c)]' = [c \in Blocks |-> Content(c)]
    BY <1>1 DEF Stored
  <1>. QED
    BY <1>2, <1>3 DEF Abstract!Sync, flush_entry

\* Steps that leave the cache and the disk alone leave the store alone.
LEMMA ContentKept ==
    ASSUME UNCHANGED <<block_cache, disk>>
    PROVE  [c \in Blocks |-> Content(c)]' = [c \in Blocks |-> Content(c)]
  BY DEF Content, Holding, cache_lookup

\* A shutdown is a power-off of the abstract disk.
LEMMA PowerOffImplements ==
    ASSUME Inv, Inv', system_reset
    PROVE  Abstract!PowerOff
  <1>1. [c \in Blocks |-> Content(c)]' = [c \in Blocks |-> Content(c)]
    BY ContentKept DEF system_reset
  <1>2. \A b \in Blocks : disk[b] = Content(b)
    BY LoopEndedIsFlushed DEF system_reset
  <1>3. disk = [c \in Blocks |-> Content(c)]
    BY <1>2 DEF Inv, CacheInv, TypeOK
  <1>. QED
    BY <1>1, <1>3 DEF Abstract!PowerOff, system_reset

\* A power cycle loses in the abstract disk what the cache had not written.
LEMMA PowerCycleImplements ==
    ASSUME Inv, Inv', power_cycle
    PROVE  Abstract!PowerCycle
  <1>1. \A c \in Blocks : Holding(c)' = {}
    BY ZeroCacheEmpty DEF power_cycle, Holding
  <1>2. [c \in Blocks |-> Content(c)]' = disk
    BY <1>1 DEF Content, power_cycle, Inv, CacheInv, TypeOK
  <1>. QED
    BY <1>2 DEF Abstract!PowerCycle, power_cycle

\* The initial state is one of the abstract disk.
LEMMA InitImplements == Init => Abstract!Init
  <1>. SUFFICES ASSUME Init PROVE Abstract!Init
    OBVIOUS
  <1>1. \A c \in Blocks : Holding(c) = {}
    BY ZeroCacheEmpty DEF Init, Holding
  <1>2. [c \in Blocks |-> Content(c)] = disk
    BY <1>1 DEF Content, Init
  <1>. QED
    BY <1>2 DEF Abstract!Init, Init

\* Every step is a step of the abstract disk, or stutters.
LEMMA NextImplements ==
    Inv /\ Inv' /\ [Next]_vars => [Abstract!Next]_(Abstract!vars)
  <1>. SUFFICES ASSUME Inv, Inv', [Next]_vars PROVE [Abstract!Next]_(Abstract!vars)
    OBVIOUS
  <1>0. CacheInv
    BY DEF Inv
  <1>1. ASSUME NEW b \in Blocks, read_hit(b) PROVE Abstract!Next
    BY <1>0, <1>1, ReadHitStep, ReadImplements DEF Abstract!Next, read_hit
  <1>2. ASSUME NEW b \in Blocks, read_miss(b) PROVE Abstract!Next
    BY <1>0, <1>2, ReadMissStep, ReadImplements DEF Abstract!Next, read_miss
  <1>3. ASSUME NEW b \in Blocks, read_fails(b) PROVE Abstract!Next
    BY <1>0, <1>3, ReadFailsStep, ReadImplements DEF Abstract!Next, read_fails
  <1>4. ASSUME NEW b \in Blocks, NEW d \in Data, write_hit(b, d) PROVE Abstract!Next
    BY <1>0, <1>4, WriteHitStep, WriteImplements DEF Abstract!Next, write_hit
  <1>5. ASSUME NEW b \in Blocks, NEW d \in Data, write_miss(b, d) PROVE Abstract!Next
    BY <1>0, <1>5, WriteMissStep, WriteImplements DEF Abstract!Next, write_miss
  <1>6. CASE shutdown
    <2>1. [c \in Blocks |-> Content(c)]' = [c \in Blocks |-> Content(c)]
      BY <1>6, ContentKept DEF shutdown
    <2>. QED
      BY <1>6, <2>1 DEF Abstract!Next, Abstract!Shutdown, shutdown
  <1>7. CASE flush_fails \/ \E b \in Blocks : evict_fails(b)
    <2>1. UNCHANGED <<block_cache, disk, out>> /\ mode \in {"run", "flush"} /\ mode' = "panic"
      BY <1>7 DEF flush_fails, evict_fails
    <2>2. [c \in Blocks |-> Content(c)]' = [c \in Blocks |-> Content(c)]
      BY <2>1, ContentKept
    <2>. QED
      BY <2>1, <2>2 DEF Abstract!Next, Abstract!Panic
  <1>8. CASE flush_entry
    BY <1>8, SyncImplements DEF Abstract!Next
  <1>9. CASE system_reset
    BY <1>9, PowerOffImplements DEF Abstract!Next
  <1>10. CASE power_cycle
    BY <1>10, PowerCycleImplements DEF Abstract!Next
  <1>11. CASE UNCHANGED vars
    <2>1. [c \in Blocks |-> Content(c)]' = [c \in Blocks |-> Content(c)]
      BY <1>11, ContentKept DEF vars
    <2>. QED
      BY <1>11, <2>1 DEF vars, Abstract!vars
  <1>. QED
    BY <1>1, <1>2, <1>3, <1>4, <1>5, <1>6, <1>7, <1>8, <1>9, <1>10, <1>11
    DEF Next, Access

\* For any number of blocks and entries the cache is a block store: reads see
\* the last write across hits, misses, evictions and refused requests, the disk
\* only ever receives what was written, and an orderly shutdown loses nothing.
THEOREM CacheImplementsStore == Spec => ImplementsBlockStore
  BY InvHolds, InitImplements, NextImplements, PTL
  DEF Spec, ImplementsBlockStore, Abstract!Spec

-----------------------------------------------------------------------------
(* Time stamps, and what the victim search spares.                         *)

\* No stamp is of the future, and one entry at most carries the time it is.
StampInv ==
    /\ \A e \in Entries : block_cache[e].last_used <= clock
    /\ \A e, f \in Entries :
         clock > 0 /\ block_cache[e].last_used = clock
                   /\ block_cache[f].last_used = clock => e = f

\* An access gives one entry a new stamp.
LEMMA StampedStep ==
    ASSUME TypeOK, StampInv, NEW e \in Entries, NEW x \in Entry,
           block_cache' = [block_cache EXCEPT ![e] = x],
           x.last_used = clock + 1, clock' = clock + 1
    PROVE  StampInv'
  <1>1. clock \in Nat /\ \A f \in Entries : block_cache[f].last_used \in Nat
    BY DEF TypeOK, Entry
  <1>2. /\ block_cache'[e].last_used = clock + 1
        /\ \A f \in Entries : f # e => block_cache'[f] = block_cache[f]
    BY DEF TypeOK
  <1>. QED
    BY <1>1, <1>2 DEF StampInv

\* Steps that leave the stamps and the clock alone.
LEMMA SameStampsStep ==
    ASSUME TypeOK, StampInv, clock' = clock,
           \A e \in Entries : block_cache'[e].last_used = block_cache[e].last_used
    PROVE  StampInv'
  BY DEF StampInv

\* Every step keeps the stamps up to the clock, and the newest one unique.
LEMMA StampStep == Inv /\ StampInv /\ [Next]_vars => StampInv'
  <1>. SUFFICES ASSUME CacheInv, TypeOK, StampInv, [Next]_vars PROVE StampInv'
    BY DEF Inv, CacheInv
  <1>0. /\ block_cache \in [Entries -> Entry] /\ clock \in Nat
        /\ \A e \in Entries : block_cache[e] \in Entry
    BY DEF TypeOK
  <1>1. ASSUME NEW b \in Blocks, read_hit(b) PROVE StampInv'
    <2>1. cache_lookup(b) \in Entries
      BY <1>1, LookupMember DEF read_hit
    <2>. DEFINE x == [block_cache[cache_lookup(b)] EXCEPT !.last_used = clock + 1]
    <2>2. x \in Entry /\ x.last_used = clock + 1
      BY <1>0, <2>1 DEF Entry
    <2>3. block_cache' = [block_cache EXCEPT ![cache_lookup(b)] = x] /\ clock' = clock + 1
      BY <1>1 DEF read_hit, Tick
    <2>. HIDE DEF x
    <2>. QED
      BY <2>1, <2>2, <2>3, StampedStep
  <1>2. ASSUME NEW b \in Blocks, NEW e \in Entries, NEW data \in Data, NEW dirty \in BOOLEAN,
               block_cache' = [block_cache EXCEPT ![e] = Touched(b, data, dirty)], Tick
        PROVE  StampInv'
    <2>1. Touched(b, data, dirty) \in Entry /\ Touched(b, data, dirty).last_used = clock + 1
      BY <1>0 DEF Touched, Entry
    <2>. QED
      BY <1>2, <2>1, StampedStep DEF Tick
  <1>3. ASSUME NEW b \in Blocks, read_miss(b) PROVE StampInv'
    <2>1. alloc_entry \in Entries
      BY AllocEntry
    <2>2. disk'[b] \in Data
      BY <1>3, <2>1, WriteBackOfEntry DEF read_miss
    <2>. QED
      BY <1>2, <1>3, <2>1, <2>2 DEF read_miss
  <1>4. ASSUME NEW b \in Blocks, NEW d \in Data, write_hit(b, d) PROVE StampInv'
    BY <1>2, <1>4, LookupMember DEF write_hit
  <1>5. ASSUME NEW b \in Blocks, NEW d \in Data, write_miss(b, d) PROVE StampInv'
    BY <1>2, <1>5, AllocEntry DEF write_miss
  <1>6. ASSUME NEW b \in Blocks, read_fails(b) PROVE StampInv'
    <2>1. alloc_entry \in Entries
      BY AllocEntry
    <2>2. \A e \in Entries : block_cache'[e].last_used = block_cache[e].last_used
      BY <1>0, <1>6, <2>1 DEF read_fails, Entry
    <2>. QED
      BY <1>6, <2>2, SameStampsStep DEF read_fails
  <1>7. CASE flush_entry
    <2>1. flush_idx \in Entries
      BY <1>7 DEF flush_entry, TypeOK, Entries
    <2>2. \A e \in Entries : block_cache'[e].last_used = block_cache[e].last_used
      BY <1>0, <1>7, <2>1 DEF flush_entry, Entry
    <2>. QED
      BY <1>7, <2>2, SameStampsStep DEF flush_entry
  <1>8. CASE \/ shutdown \/ flush_fails \/ system_reset \/ UNCHANGED vars
             \/ \E b \in Blocks : evict_fails(b)
    <2>1. block_cache' = block_cache /\ clock' = clock
      BY <1>8 DEF shutdown, flush_fails, system_reset, vars, evict_fails
    <2>. QED
      BY <2>1, SameStampsStep
  <1>9. CASE power_cycle
    BY <1>9 DEF power_cycle, ZeroCache, ZeroEntry, StampInv
  <1>. QED
    BY <1>1, <1>3, <1>4, <1>5, <1>6, <1>7, <1>8, <1>9 DEF Next, Access

\* The stamps are in order at boot.
LEMMA StampInit == Init => StampInv
  <1>1. \A e \in Entries : ZeroCache[e].last_used = 0
    BY DEF ZeroCache, ZeroEntry
  <1>. QED
    BY <1>1 DEF Init, StampInv

\* Stamps order the entries by their last use, in every reachable state.
THEOREM StampsHold == Spec => []StampInv
  BY StampInit, StampStep, InvHolds, PTL DEF Spec

\* The victim is never the entry used last, unless it is the only one.
LEMMA VictimIsAnother ==
    ASSUME TypeOK, StampInv, NEntries > 1, clock > 0, NEW e \in Entries,
           block_cache[e].valid, block_cache[e].last_used = clock
    PROVE  alloc_entry # e
  <1>1. CASE Invalid # {}
    <2>1. Invalid \subseteq Nat
      BY EntriesAreNaturals DEF Invalid
    <2>. QED
      BY <1>1, <2>1, FirstMember DEF alloc_entry, Invalid
  <1>2. CASE Invalid = {}
    <2>. DEFINE f == IF e = 1 THEN 2 ELSE 1
    <2>1. f \in Entries /\ f # e
      BY CacheAssumption DEF Entries
    <2>2. block_cache[f].last_used \in Nat /\ clock \in Nat
      BY <2>1 DEF TypeOK, Entry
    <2>3. block_cache[f].last_used < clock
      BY <2>1, <2>2 DEF StampInv
    <2>. HIDE DEF f
    <2>4. e \notin LeastRecent
      BY <2>1, <2>2, <2>3 DEF LeastRecent
    <2>. QED
      BY <1>2, <2>4, LeastRecentExists, FirstMember DEF alloc_entry
  <1>. QED
    BY <1>1, <1>2

\* The block used last survives the next access, for any size of cache: the search
\* of cache_alloc_entry spares it, and nothing else drops an entry while the machine
\* runs.
THEOREM LastUsedAlwaysStays == Spec => LastUsedStays
  <1>1. ASSUME Inv, StampInv, [Next]_vars, NEW e \in Entries,
               NEntries > 1, mode = "run", mode' = "run", clock > 0, clock' >= clock,
               block_cache[e].valid, block_cache[e].last_used = clock
        PROVE  /\ block_cache'[e].valid
               /\ block_cache'[e].block_no = block_cache[e].block_no
    <2>0. /\ CacheInv /\ TypeOK /\ block_cache \in [Entries -> Entry] /\ clock \in Nat
          /\ block_cache[e] \in Entry /\ clock > 0
      BY <1>1 DEF Inv, CacheInv, TypeOK
    <2>1. alloc_entry # e /\ alloc_entry \in Entries
      BY <1>1, <2>0, VictimIsAnother, AllocEntry
    <2>2. ASSUME NEW b \in Blocks, read_hit(b) \/ \E d \in Data : write_hit(b, d)
          PROVE  /\ block_cache'[e].valid
                 /\ block_cache'[e].block_no = block_cache[e].block_no
      <3>1. /\ cache_lookup(b) \in Holding(b) /\ cache_lookup(b) \in Entries
            /\ block_cache[cache_lookup(b)] \in Entry
        BY <2>0, <2>2, LookupMember DEF read_hit, write_hit
      <3>2. CASE read_hit(b)
        BY <1>1, <2>0, <3>1, <3>2 DEF read_hit, Entry
      <3>3. CASE \E d \in Data : write_hit(b, d)
        BY <1>1, <2>0, <3>1, <3>3 DEF write_hit, Touched, Holding
      <3>. QED
        BY <2>2, <3>2, <3>3
    <2>3. ASSUME NEW b \in Blocks,
                 \/ read_miss(b) \/ read_fails(b) \/ evict_fails(b)
                 \/ \E d \in Data : write_miss(b, d)
          PROVE  block_cache'[e] = block_cache[e]
      BY <2>0, <2>1, <2>3 DEF read_miss, read_fails, evict_fails, write_miss
    <2>4. CASE power_cycle
      BY <1>1, <2>0, <2>4 DEF power_cycle
    <2>5. CASE shutdown \/ flush_entry \/ flush_fails \/ system_reset \/ UNCHANGED vars
      BY <1>1, <2>5 DEF shutdown, flush_entry, flush_fails, system_reset, vars
    <2>. QED
      BY <1>1, <2>2, <2>3, <2>4, <2>5 DEF Next, Access
  <1>2. Inv /\ StampInv /\ [Next]_vars =>
          [\A e \in Entries :
             (/\ NEntries > 1 /\ mode = "run" /\ mode' = "run"
              /\ clock > 0 /\ clock' >= clock
              /\ block_cache[e].valid /\ block_cache[e].last_used = clock)
             => block_cache'[e].valid
                /\ block_cache'[e].block_no = block_cache[e].block_no]_vars
    BY <1>1
  <1>. QED
    BY <1>2, InvHolds, StampsHold, PTL DEF Spec, LastUsedStays

-----------------------------------------------------------------------------
(* A file on a disk s, as predicates that name no variable.                *)

Inode == [size : 0..2, direct : DataBlocks \cup {0}, index : DataBlocks \cup {0}]

IsDisk(s) ==
    /\ s = [b \in FsBlocks |-> s[b]]
    /\ s[Bitmap] \subseteq DataBlocks
    /\ s[Inodes] \in [Inum -> Inode]

\* The blocks of the file with inode ip: its direct block, its index block, and
\* the block the index block names.
UsesOf(s, ip) ==
    {b \in DataBlocks : b = ip.direct \/ b = ip.index \/ (ip.index # 0 /\ b = s[ip.index])}
Uses(s, i) == UsesOf(s, s[Inodes][i])

\* The file with inode ip has the blocks it needs, all different and all marked in
\* the bitmap, and reads as c.
Laid(s, ip, c) ==
    /\ ip.size >= 1 => ip.direct # 0
    /\ ip.size = 2 => ip.index # 0
    /\ ip.index # 0 => /\ s[ip.index] \in DataBlocks
                       /\ ip.index # ip.direct
                       /\ s[ip.index] # ip.direct
                       /\ s[ip.index] # ip.index
    /\ UsesOf(s, ip) \subseteq s[Bitmap]
    /\ c = [k \in 1..ip.size |-> IF k = 1 THEN s[ip.direct] ELSE s[s[ip.index]]]
Holds(s, i, c) == Laid(s, s[Inodes][i], c)

\* Disk u has file i as disk s has it.
Same(s, u, i) ==
    /\ u[Inodes][i] = s[Inodes][i]
    /\ \A b \in Uses(s, i) : u[b] = s[b]
    /\ Uses(s, i) \subseteq u[Bitmap]

\* The files of T read as c says and share no block.
Intact(s, T, c) ==
    /\ \A i \in T : Holds(s, i, c[i])
    /\ \A i, j \in T : i # j => Uses(s, i) \cap Uses(s, j) = {}

\* A disk with the same inode and the same blocks has the same file.
LEMMA LaidAgain ==
    ASSUME NEW s, NEW u, NEW ip \in Inode, NEW c, Laid(s, ip, c),
           \A b \in UsesOf(s, ip) : u[b] = s[b], UsesOf(s, ip) \subseteq u[Bitmap]
    PROVE  Laid(u, ip, c) /\ UsesOf(u, ip) = UsesOf(s, ip)
  <1>1. 0 \notin DataBlocks
    BY FsCrashAssumption
  <1>2. ip.size \in 0..2 /\ ip.direct \in DataBlocks \cup {0} /\ ip.index \in DataBlocks \cup {0}
    BY DEF Inode
  <1>3. ip.direct # 0 => u[ip.direct] = s[ip.direct]
    BY <1>2 DEF UsesOf
  <1>4. ip.index # 0 => u[ip.index] = s[ip.index]
    BY <1>2 DEF UsesOf
  <1>5. ip.index # 0 => u[s[ip.index]] = s[s[ip.index]]
    BY DEF UsesOf, Laid
  <1>6. UsesOf(u, ip) = UsesOf(s, ip)
    BY <1>4 DEF UsesOf
  <1>7. c = [k \in 1..ip.size |-> IF k = 1 THEN u[ip.direct] ELSE u[u[ip.index]]]
    <2>1. ASSUME NEW k \in 1..ip.size
          PROVE  (IF k = 1 THEN s[ip.direct] ELSE s[s[ip.index]])
                   = (IF k = 1 THEN u[ip.direct] ELSE u[u[ip.index]])
      <3>1. CASE k = 1
        <4>1. ip.size >= 1
          BY <1>2, <3>1
        <4>. QED
          BY <1>3, <3>1, <4>1 DEF Laid
      <3>2. CASE k # 1
        <4>1. ip.size = 2
          BY <1>2, <3>2
        <4>. QED
          BY <1>4, <1>5, <3>2, <4>1 DEF Laid
      <3>. QED
        BY <3>1, <3>2
    <2>2. c = [k \in 1..ip.size |-> IF k = 1 THEN s[ip.direct] ELSE s[s[ip.index]]]
      BY DEF Laid
    <2>. QED
      BY <2>1, <2>2
  <1>. QED
    BY <1>4, <1>6, <1>7 DEF Laid

\* The same said of a file by its number.
LEMMA SameHolds ==
    ASSUME NEW s, IsDisk(s), NEW u, NEW i \in Inum, NEW c, Holds(s, i, c), Same(s, u, i)
    PROVE  Holds(u, i, c) /\ Uses(u, i) = Uses(s, i)
  <1>1. PICK ip \in Inode : ip = s[Inodes][i] /\ ip = u[Inodes][i]
    BY DEF IsDisk, Same
  <1>2. /\ Laid(s, ip, c) /\ UsesOf(s, ip) \subseteq u[Bitmap]
        /\ \A b \in UsesOf(s, ip) : u[b] = s[b]
    BY <1>1 DEF Holds, Same, Uses
  <1>3. Laid(u, ip, c) /\ UsesOf(u, ip) = UsesOf(s, ip)
    BY <1>2, LaidAgain
  <1>. QED
    BY <1>1, <1>3 DEF Holds, Uses

-----------------------------------------------------------------------------
(* The writes t that a call for file i has still to make on disk s, when   *)
(* the files of S are undamaged.                                           *)

\* One of them: the mark of a panic; the bitmap with more blocks marked; the
\* inodes with this one changed; a block of no other file.
Write_k(s, t, k, i, S) ==
    \/ t[k].b = NoFile
    \/ /\ t[k].b = Bitmap
       /\ t[k].d \subseteq DataBlocks /\ s[Bitmap] \subseteq t[k].d
       /\ \A m \in DOMAIN t : m > k /\ t[m].b = Bitmap => t[k].d \subseteq t[m].d
    \/ /\ t[k].b = Inodes
       /\ t[k].d \in [Inum -> Inode]
       /\ \A j \in Inum \ {i} : t[k].d[j] = s[Inodes][j]
    \/ /\ t[k].b \in DataBlocks
       /\ \A j \in S \ {i} : t[k].b \notin Uses(s, j)

IsSeq(t) == \E E : t \in Seq(E)
Pending(s, t, i, S) == IsSeq(t) /\ \A k \in DOMAIN t : Write_k(s, t, k, i, S)

\* v is what block b will hold after them.
IsFinal(s, t, b, v) ==
    \/ \E k \in DOMAIN t : /\ t[k].b = b /\ t[k].d = v
                           /\ \A m \in DOMAIN t : m > k => t[m].b # b
    \/ (\A k \in DOMAIN t : t[k].b # b) /\ s[b] = v

\* They leave file i as c, in blocks of its own.
Outcome(s, t, i, S, c) ==
    \E F : /\ IsDisk(F)
           /\ \A b \in FsBlocks : IsFinal(s, t, b, F[b])
           /\ Holds(F, i, c)
           /\ \A j \in S \ {i} : Uses(F, i) \cap Uses(s, j) = {}

\* Disk s after block x was written.
After(s, x, d) == [s EXCEPT ![x] = d]

\* Block x is to be written first, with d; r is the rest.
Starts(t, x, d, r) == t # <<>> /\ x = t[1].b /\ d = t[1].d /\ r = Tail(t)

\* The tail of a sequence.
LEMMA TailIs ==
    ASSUME NEW t, IsSeq(t), NEW x, NEW d, NEW u, Starts(t, x, d, u)
    PROVE  /\ IsSeq(u) /\ 1 \in DOMAIN t /\ Head(t) = t[1]
           /\ \A k \in DOMAIN u : k \in Nat \ {0} /\ k + 1 \in DOMAIN t /\ u[k] = t[k + 1]
           /\ \A k \in DOMAIN t : k \in Nat /\ (k # 1 => k - 1 \in DOMAIN u /\ u[k - 1] = t[k])
  <1>1. PICK E : t \in Seq(E)
    BY DEF IsSeq
  <1>2. PICK n \in Nat : n = Len(t) /\ DOMAIN t = 1..n /\ n # 0
    BY <1>1 DEF Starts
  <1>3. u \in Seq(E) /\ DOMAIN u = 1..(n - 1) /\ \A k \in 1..(n - 1) : u[k] = t[k + 1]
    BY <1>1, <1>2 DEF Starts
  <1>4. IsSeq(u)
    BY <1>3 DEF IsSeq
  <1>5. 1 \in DOMAIN t /\ Head(t) = t[1]
    BY <1>1, <1>2
  <1>6. \A k \in DOMAIN u : k \in Nat \ {0} /\ k + 1 \in DOMAIN t /\ u[k] = t[k + 1]
    BY <1>2, <1>3
  <1>7. ASSUME NEW k \in DOMAIN t
        PROVE  k \in Nat /\ (k # 1 => k - 1 \in DOMAIN u /\ u[k - 1] = t[k])
    <2>1. k \in 1..n
      BY <1>2
    <2>2. CASE k # 1
      <3>1. k - 1 \in 1..(n - 1) /\ (k - 1) + 1 = k
        BY <2>1, <2>2
      <3>. QED
        BY <1>3, <2>1, <3>1
    <2>. QED
      BY <2>1, <2>2
  <1>. QED
    BY <1>4, <1>5, <1>6, <1>7

\* A write done is a write no longer to be made.
LEMMA FinalStays ==
    ASSUME NEW s, IsDisk(s), NEW t, IsSeq(t),
           NEW x \in FsBlocks, NEW d, NEW r, Starts(t, x, d, r), NEW u, u = After(s, x, d),
           NEW b \in FsBlocks, NEW v, IsFinal(s, t, b, v)
    PROVE  IsFinal(u, r, b, v)
  <1>1. /\ 1 \in DOMAIN t
        /\ \A k \in DOMAIN r : k \in Nat \ {0} /\ k + 1 \in DOMAIN t /\ r[k] = t[k + 1]
        /\ \A k \in DOMAIN t : k \in Nat /\ (k # 1 => k - 1 \in DOMAIN r /\ r[k - 1] = t[k])
    BY TailIs
  <1>2. u[b] = IF b = x THEN d ELSE s[b]
    BY DEF IsDisk, After
  <1>3. ASSUME NEW k \in DOMAIN t, t[k].b = b, t[k].d = v,
               \A m \in DOMAIN t : m > k => t[m].b # b
        PROVE  IsFinal(u, r, b, v)
    <2>1. CASE k = 1
      <3>1. \A m \in DOMAIN r : r[m].b # b
        <4>. SUFFICES ASSUME NEW m \in DOMAIN r PROVE r[m].b # b
          OBVIOUS
        <4>1. m \in Nat /\ m + 1 \in DOMAIN t /\ r[m] = t[m + 1] /\ m # 0
          BY <1>1
        <4>2. m + 1 > 1
          BY <4>1
        <4>. QED
          BY <1>3, <2>1, <4>1, <4>2
      <3>2. u[b] = v
        BY <1>2, <1>3, <2>1 DEF Starts
      <3>. QED
        BY <3>1, <3>2 DEF IsFinal
    <2>2. CASE k # 1
      <3>1. k - 1 \in DOMAIN r /\ r[k - 1] = t[k]
        BY <1>1, <2>2
      <3>2. ASSUME NEW m \in DOMAIN r, m > k - 1 PROVE r[m].b # b
        <4>1. m \in Nat /\ m + 1 \in DOMAIN t /\ r[m] = t[m + 1] /\ k \in Nat
          BY <1>1
        <4>2. m + 1 > k
          BY <3>2, <4>1
        <4>. QED
          BY <1>3, <4>1, <4>2
      <3>. QED
        BY <1>3, <3>1, <3>2 DEF IsFinal
    <2>. QED
      BY <2>1, <2>2
  <1>4. ASSUME \A k \in DOMAIN t : t[k].b # b, s[b] = v PROVE IsFinal(u, r, b, v)
    <2>1. b # x /\ u[b] = v
      BY <1>1, <1>2, <1>4 DEF Starts
    <2>2. \A k \in DOMAIN r : r[k].b # b
      BY <1>1, <1>4
    <2>. QED
      BY <2>1, <2>2 DEF IsFinal
  <1>. QED
    BY <1>3, <1>4 DEF IsFinal

\* The next write changes no undamaged file but the one that is written, and what
\* is left to do is as it was.
LEMMA OneWrite ==
    ASSUME NEW s, IsDisk(s), NEW t, NEW i, NEW S \in SUBSET Inum, Pending(s, t, i, S),
           NEW c0, Intact(s, S \ {i}, c0),
           NEW x, x # NoFile, NEW d, NEW r, Starts(t, x, d, r), NEW u, u = After(s, x, d)
    PROVE  /\ IsDisk(u) /\ s[Bitmap] \subseteq u[Bitmap]
           /\ \A j \in S \ {i} : Same(s, u, j)
           /\ Pending(u, r, i, S)
           /\ \A c : Outcome(s, t, i, S, c) => Outcome(u, r, i, S, c)
  <1>1. /\ IsSeq(r) /\ 1 \in DOMAIN t
        /\ \A k \in DOMAIN r : k \in Nat \ {0} /\ k + 1 \in DOMAIN t /\ r[k] = t[k + 1]
    <2>1. IsSeq(t)
      BY DEF Pending
    <2>. QED
      BY <2>1, TailIs
  <1>2. Write_k(s, t, 1, i, S)
    BY <1>1 DEF Pending
  <1>3. x \in FsBlocks /\ Bitmap \in FsBlocks /\ Inodes \in FsBlocks /\ Bitmap # Inodes
        /\ Bitmap \notin DataBlocks /\ Inodes \notin DataBlocks
    BY <1>2, FsCrashAssumption DEF FsBlocks, Write_k, Starts
  <1>4. /\ u = [b \in FsBlocks |-> u[b]]
        /\ \A b \in FsBlocks : u[b] = IF b = x THEN d ELSE s[b]
    BY <1>3 DEF IsDisk, After
  <1>5. \/ x = Bitmap /\ d \subseteq DataBlocks /\ s[Bitmap] \subseteq d
        \/ x = Inodes /\ d \in [Inum -> Inode] /\ \A j \in Inum \ {i} : d[j] = s[Inodes][j]
        \/ x \in DataBlocks /\ \A j \in S \ {i} : x \notin Uses(s, j)
    BY <1>2 DEF Write_k, Starts
  <1>6. /\ s[Bitmap] \subseteq u[Bitmap] /\ u[Bitmap] \subseteq DataBlocks
        /\ u[Inodes] \in [Inum -> Inode]
        /\ \A j \in Inum \ {i} : u[Inodes][j] = s[Inodes][j]
    BY <1>3, <1>4, <1>5 DEF IsDisk
  <1>7. IsDisk(u)
    BY <1>4, <1>6 DEF IsDisk
  <1>8. ASSUME NEW j \in S \ {i} PROVE Same(s, u, j)
    <2>1. Uses(s, j) \subseteq DataBlocks
      BY DEF Uses, UsesOf
    <2>2. Uses(s, j) \subseteq s[Bitmap]
      BY DEF Intact, Holds, Laid, Uses
    <2>3. \A b \in Uses(s, j) : u[b] = s[b]
      BY <1>3, <1>4, <1>5, <2>1 DEF FsBlocks
    <2>. QED
      BY <1>6, <2>2, <2>3 DEF Same
  <1>9. \A j \in S \ {i} : Uses(u, j) = Uses(s, j)
    <2>. SUFFICES ASSUME NEW j \in S \ {i} PROVE Uses(u, j) = Uses(s, j)
      OBVIOUS
    <2>1. Holds(s, j, c0[j]) /\ Same(s, u, j) /\ j \in Inum
      BY <1>8 DEF Intact
    <2>. QED
      BY <2>1, SameHolds
  <1>10. ASSUME NEW k \in DOMAIN r PROVE Write_k(u, r, k, i, S)
    <2>1. k \in Nat \ {0} /\ k + 1 \in DOMAIN t /\ r[k] = t[k + 1]
      BY <1>1
    <2>2. Write_k(s, t, k + 1, i, S)
      BY <2>1 DEF Pending
    <2>3. CASE r[k].b = NoFile
      BY <2>3 DEF Write_k
    <2>4. CASE r[k].b = Bitmap
      <3>1. /\ r[k].d \subseteq DataBlocks /\ s[Bitmap] \subseteq r[k].d
            /\ \A m \in DOMAIN t : m > k + 1 /\ t[m].b = Bitmap => r[k].d \subseteq t[m].d
        BY <1>3, <2>1, <2>2, <2>4, FsCrashAssumption DEF Write_k, NoFile
      <3>2. u[Bitmap] \subseteq r[k].d
        <4>1. CASE x = Bitmap
          <5>1. k + 1 > 1
            BY <2>1
          <5>2. d \subseteq t[k + 1].d
            BY <1>2, <1>3, <2>1, <2>4, <4>1, <5>1, FsCrashAssumption DEF Write_k, NoFile, Starts
          <5>. QED
            BY <1>3, <1>4, <2>1, <4>1, <5>2
        <4>2. CASE x # Bitmap
          BY <1>3, <1>4, <3>1, <4>2
        <4>. QED
          BY <4>1, <4>2
      <3>3. ASSUME NEW m \in DOMAIN r, m > k, r[m].b = Bitmap PROVE r[k].d \subseteq r[m].d
        <4>1. m \in Nat \ {0} /\ m + 1 \in DOMAIN t /\ r[m] = t[m + 1]
          BY <1>1
        <4>2. m + 1 > k + 1
          BY <2>1, <3>3, <4>1
        <4>. QED
          BY <3>1, <3>3, <4>1, <4>2
      <3>. QED
        BY <2>4, <3>1, <3>2, <3>3 DEF Write_k
    <2>5. CASE r[k].b = Inodes
      <3>1. r[k].d \in [Inum -> Inode] /\ \A j \in Inum \ {i} : r[k].d[j] = s[Inodes][j]
        BY <1>3, <2>1, <2>2, <2>5, FsCrashAssumption DEF Write_k, NoFile
      <3>. QED
        BY <1>6, <2>5, <3>1 DEF Write_k
    <2>6. CASE r[k].b \in DataBlocks /\ \A j \in S \ {i} : r[k].b \notin Uses(s, j)
      BY <1>9, <2>6 DEF Write_k
    <2>. QED
      BY <2>1, <2>2, <2>3, <2>4, <2>5, <2>6 DEF Write_k
  <1>11. ASSUME NEW c, Outcome(s, t, i, S, c) PROVE Outcome(u, r, i, S, c)
    <2>1. PICK F : /\ IsDisk(F)
                   /\ \A b \in FsBlocks : IsFinal(s, t, b, F[b])
                   /\ Holds(F, i, c)
                   /\ \A j \in S \ {i} : Uses(F, i) \cap Uses(s, j) = {}
      BY <1>11 DEF Outcome
    <2>2. ASSUME NEW b \in FsBlocks PROVE IsFinal(u, r, b, F[b])
      <3>1. IsFinal(s, t, b, F[b])
        BY <2>1
      <3>. QED
        <4>1. IsSeq(t)
          BY DEF Pending
        <4>. QED
          BY <1>3, <3>1, <4>1, FinalStays
    <2>3. \A j \in S \ {i} : Uses(F, i) \cap Uses(u, j) = {}
      BY <1>9, <2>1
    <2>. QED
      BY <2>1, <2>2, <2>3 DEF Outcome
  <1>. QED
    BY <1>1, <1>6, <1>7, <1>8, <1>10, <1>11 DEF Pending

-----------------------------------------------------------------------------
(* The writes a call plans: what writei, balloc and iupdate put together.  *)

\* Block x may be written with d after the writes that lead to disk F.
WriteOK(s, F, x, d, i, S) ==
    \/ x = Bitmap /\ d \subseteq DataBlocks /\ F[Bitmap] \subseteq d
    \/ x = Inodes /\ d \in [Inum -> Inode] /\ \A j \in Inum \ {i} : d[j] = s[Inodes][j]
    \/ x \in DataBlocks /\ \A j \in S \ {i} : x \notin Uses(s, j)

\* The writes t lead from disk s to disk F.
Planned(s, t, i, S, F) ==
    /\ IsSeq(t) /\ IsDisk(F) /\ s[Bitmap] \subseteq F[Bitmap]
    /\ \A k \in DOMAIN t : /\ t[k].b # NoFile
                           /\ Write_k(s, t, k, i, S)
                           /\ t[k].b = Bitmap => t[k].d \subseteq F[Bitmap]
    /\ \A b \in FsBlocks : IsFinal(s, t, b, F[b])

\* One more write.
Then(t, x, d) == Append(t, [b |-> x, d |-> d])

\* What Append makes of a sequence.
LEMMA ThenIs ==
    ASSUME NEW t, IsSeq(t), NEW x, NEW d, NEW r, r = Then(t, x, d)
    PROVE  /\ IsSeq(r)
           /\ \E n \in Nat : /\ DOMAIN t = 1..n /\ DOMAIN r = 1..(n + 1)
                             /\ r[n + 1].b = x /\ r[n + 1].d = d
                             /\ \A k \in 1..n : r[k] = t[k]
  <1>1. PICK E : t \in Seq(E)
    BY DEF IsSeq
  <1>2. PICK e : e = [b |-> x, d |-> d]
    OBVIOUS
  <1>3. PICK n \in Nat : n = Len(t) /\ DOMAIN t = 1..n /\ \A k \in 1..n : t[k] \in E
    BY <1>1
  <1>4. PICK D : D = E \cup {e}
    OBVIOUS
  <1>5. t \in Seq(D)
    BY <1>1, <1>3, <1>4
  <1>6. r \in Seq(D) /\ DOMAIN r = 1..(n + 1) /\ r[n + 1] = e /\ \A k \in 1..n : r[k] = t[k]
    BY <1>2, <1>3, <1>4, <1>5 DEF Then
  <1>. QED
    BY <1>2, <1>3, <1>6 DEF IsSeq

\* Nothing to write leaves the disk as it is.
LEMMA PlanNothing ==
    ASSUME NEW s, IsDisk(s), NEW i, NEW S
    PROVE  Planned(s, <<>>, i, S, s)
  <1>1. IsSeq(<<>>) /\ DOMAIN <<>> = {}
    <2>1. <<>> \in Seq({})
      OBVIOUS
    <2>. QED
      BY <2>1 DEF IsSeq
  <1>. QED
    BY <1>1 DEF Planned, IsFinal

\* One more write that is allowed leads on to the disk with that block written.
LEMMA PlanMore ==
    ASSUME NEW s, IsDisk(s), NEW t, NEW i, NEW S, NEW F, Planned(s, t, i, S, F),
           NEW x, NEW d, WriteOK(s, F, x, d, i, S),
           NEW r, r = Then(t, x, d), NEW G, G = After(F, x, d)
    PROVE  /\ Planned(s, r, i, S, G)
           /\ \A b \in FsBlocks : G[b] = IF b = x THEN d ELSE F[b]
  <1>1. PICK n \in Nat : /\ DOMAIN t = 1..n /\ DOMAIN r = 1..(n + 1)
                         /\ r[n + 1].b = x /\ r[n + 1].d = d
                         /\ \A k \in 1..n : r[k] = t[k]
    <2>1. IsSeq(t)
      BY DEF Planned
    <2>. QED
      BY <2>1, ThenIs
  <1>2. IsSeq(r)
    <2>1. IsSeq(t)
      BY DEF Planned
    <2>. QED
      BY <2>1, ThenIs
  <1>3. /\ Bitmap \in FsBlocks /\ Inodes \in FsBlocks /\ DataBlocks \subseteq FsBlocks
        /\ Bitmap # Inodes /\ Bitmap \notin DataBlocks /\ Inodes \notin DataBlocks
        /\ 0 \notin FsBlocks
    BY FsCrashAssumption DEF FsBlocks
  <1>4. x \in FsBlocks
    BY <1>3 DEF WriteOK
  <1>5. /\ G = [b \in FsBlocks |-> G[b]]
        /\ \A b \in FsBlocks : G[b] = IF b = x THEN d ELSE F[b]
    BY <1>4 DEF IsDisk, Planned, After
  <1>6. IsDisk(F) /\ s[Bitmap] \subseteq F[Bitmap]
    BY DEF Planned
  <1>7. IsDisk(G) /\ F[Bitmap] \subseteq G[Bitmap]
    BY <1>3, <1>5, <1>6 DEF IsDisk, WriteOK
  <1>8. \A k \in 1..n : n + 1 > k /\ k # n + 1 /\ k \in 1..(n + 1)
    OBVIOUS
  <1>9. ASSUME NEW k \in 1..(n + 1), k # n + 1 PROVE k \in 1..n
    BY <1>9
  <1>10. ASSUME NEW k \in 1..(n + 1)
         PROVE  /\ r[k].b # NoFile
                /\ Write_k(s, r, k, i, S)
                /\ r[k].b = Bitmap => r[k].d \subseteq G[Bitmap]
    <2>1. CASE k = n + 1
      <3>1. \A m \in DOMAIN r : ~ (m > k)
        BY <1>1, <2>1
      <3>2. Write_k(s, r, k, i, S)
        <4>1. CASE x = Bitmap
          BY <1>1, <1>3, <1>6, <2>1, <3>1, <4>1 DEF WriteOK, Write_k
        <4>2. CASE x = Inodes
          BY <1>1, <1>3, <2>1, <4>2 DEF WriteOK, Write_k
        <4>3. CASE x \in DataBlocks
          BY <1>1, <1>3, <2>1, <4>3 DEF WriteOK, Write_k
        <4>. QED
          BY <4>1, <4>2, <4>3 DEF WriteOK
      <3>. QED
        BY <1>1, <1>3, <1>4, <1>5, <2>1, <3>2 DEF NoFile
    <2>2. CASE k # n + 1
      <3>1. k \in 1..n /\ r[k] = t[k]
        BY <1>1, <1>9, <2>2
      <3>2. /\ t[k].b # NoFile /\ Write_k(s, t, k, i, S)
            /\ t[k].b = Bitmap => t[k].d \subseteq F[Bitmap]
        BY <1>1, <3>1 DEF Planned
      <3>3. ASSUME NEW m \in DOMAIN r, m > k, r[m].b = Bitmap, r[k].b = Bitmap,
                   \A l \in DOMAIN t : l > k /\ t[l].b = Bitmap => t[k].d \subseteq t[l].d
            PROVE  r[k].d \subseteq r[m].d
        <4>1. CASE m = n + 1
          <5>1. x = Bitmap /\ r[m].d = d
            BY <1>1, <3>3, <4>1
          <5>2. F[Bitmap] \subseteq d
            BY <1>3, <5>1 DEF WriteOK
          <5>. QED
            BY <3>1, <3>2, <3>3, <5>1, <5>2
        <4>2. CASE m # n + 1
          <5>1. m \in 1..n /\ r[m] = t[m]
            BY <1>1, <1>9, <4>2
          <5>. QED
            BY <1>1, <3>1, <3>3, <5>1
        <4>. QED
          BY <4>1, <4>2
      <3>4. Write_k(s, r, k, i, S)
        <4>1. CASE t[k].b = Bitmap
          <5>1. /\ t[k].d \subseteq DataBlocks /\ s[Bitmap] \subseteq t[k].d
                /\ \A l \in DOMAIN t : l > k /\ t[l].b = Bitmap => t[k].d \subseteq t[l].d
            BY <1>3, <3>2, <4>1 DEF Write_k
          <5>2. \A m \in DOMAIN r : m > k /\ r[m].b = Bitmap => r[k].d \subseteq r[m].d
            BY <3>1, <3>3, <4>1, <5>1
          <5>. QED
            BY <3>1, <4>1, <5>1, <5>2 DEF Write_k
        <4>2. CASE t[k].b # Bitmap
          BY <3>1, <3>2, <4>2 DEF Write_k
        <4>. QED
          BY <4>1, <4>2
      <3>. QED
        BY <1>7, <3>1, <3>2, <3>4
    <2>. QED
      BY <2>1, <2>2
  <1>11. ASSUME NEW b \in FsBlocks PROVE IsFinal(s, r, b, G[b])
    <2>1. CASE b = x
      <3>1. n + 1 \in DOMAIN r /\ \A m \in DOMAIN r : ~ (m > n + 1)
        BY <1>1
      <3>. QED
        BY <1>1, <1>5, <2>1, <3>1 DEF IsFinal
    <2>2. CASE b # x
      <3>1. IsFinal(s, t, b, F[b]) /\ G[b] = F[b]
        BY <1>5, <2>2 DEF Planned
      <3>2. ASSUME NEW k \in DOMAIN t, t[k].b = b, t[k].d = F[b],
                   \A m \in DOMAIN t : m > k => t[m].b # b
            PROVE  IsFinal(s, r, b, G[b])
        <4>1. k \in DOMAIN r /\ r[k] = t[k]
          BY <1>1, <1>8
        <4>2. ASSUME NEW m \in DOMAIN r, m > k PROVE r[m].b # b
          <5>1. CASE m = n + 1
            BY <1>1, <2>2, <5>1
          <5>2. CASE m # n + 1
            <6>1. m \in 1..n /\ r[m] = t[m]
              BY <1>1, <1>9, <5>2
            <6>. QED
              BY <1>1, <3>2, <4>2, <6>1
          <5>. QED
            BY <5>1, <5>2
        <4>. QED
          BY <3>1, <3>2, <4>1, <4>2 DEF IsFinal
      <3>3. ASSUME \A k \in DOMAIN t : t[k].b # b, s[b] = F[b] PROVE IsFinal(s, r, b, G[b])
        <4>1. ASSUME NEW m \in DOMAIN r PROVE r[m].b # b
          BY <1>1, <1>9, <2>2, <3>3
        <4>. QED
          BY <3>1, <3>3, <4>1 DEF IsFinal
      <3>. QED
        BY <3>1, <3>2, <3>3 DEF IsFinal
    <2>. QED
      BY <2>1, <2>2
  <1>12. s[Bitmap] \subseteq G[Bitmap]
    BY <1>6, <1>7
  <1>. QED
    BY <1>1, <1>2, <1>5, <1>7, <1>10, <1>11, <1>12 DEF Planned

\* A plan is writes that may be made.
LEMMA PlanPending ==
    ASSUME NEW s, NEW t, NEW i, NEW S, NEW F, Planned(s, t, i, S, F)
    PROVE  Pending(s, t, i, S)
  BY DEF Planned, Pending

\* So is one that ends in a panic.
LEMMA PlanFull ==
    ASSUME NEW s, NEW t, NEW i, NEW S, NEW F, Planned(s, t, i, S, F),
           NEW d, NEW r, r = Then(t, NoFile, d)
    PROVE  Pending(s, r, i, S) /\ ~ \A k \in DOMAIN r : r[k].b # NoFile
  <1>1. IsSeq(t)
    BY DEF Planned
  <1>2. /\ IsSeq(r)
        /\ \E n \in Nat : /\ DOMAIN t = 1..n /\ DOMAIN r = 1..(n + 1)
                          /\ r[n + 1].b = NoFile /\ r[n + 1].d = d
                          /\ \A k \in 1..n : r[k] = t[k]
    BY <1>1, ThenIs
  <1>3. PICK n \in Nat : /\ DOMAIN t = 1..n /\ DOMAIN r = 1..(n + 1)
                         /\ r[n + 1].b = NoFile
                         /\ \A k \in 1..n : r[k] = t[k]
    BY <1>2
  <1>4. ASSUME NEW k \in 1..(n + 1), k # n + 1 PROVE k \in 1..n
    BY <1>4
  <1>5. ASSUME NEW k \in DOMAIN r PROVE Write_k(s, r, k, i, S)
    <2>1. CASE k = n + 1
      BY <1>3, <2>1 DEF Write_k
    <2>2. CASE k # n + 1
      <3>1. k \in DOMAIN t /\ r[k] = t[k]
        BY <1>3, <1>4, <2>2
      <3>2. Write_k(s, t, k, i, S)
        BY <3>1 DEF Planned
      <3>3. ASSUME NEW m \in DOMAIN r, m > k, r[m].b = Bitmap PROVE m \in DOMAIN t /\ r[m] = t[m]
        <4>1. m # n + 1
          BY <1>3, <3>3, FsCrashAssumption DEF NoFile
        <4>. QED
          BY <1>3, <1>4, <4>1
      <3>. QED
        BY <3>1, <3>2, <3>3 DEF Write_k
    <2>. QED
      BY <2>1, <2>2
  <1>6. n + 1 \in DOMAIN r
    BY <1>3
  <1>. QED
    BY <1>2, <1>3, <1>5, <1>6 DEF Pending

\* The first free block is a free block.
LEMMA FirstOfIs ==
    ASSUME NEW S, S \subseteq Nat, S # {}
    PROVE  FirstOf(S) \in S
  <1>1. PICK x \in S : \A y \in S : ~(<<y, x>> \in OpToRel(<, Nat))
    BY NatLessThanWellFounded, WFMin
  <1>2. \A y \in S : ~(y < x)
    BY <1>1, Zenon DEF OpToRel
  <1>3. \A y \in S : x <= y
    BY <1>2
  <1>. QED
    BY <1>3, Zenon DEF FirstOf

\* A call in progress, and one that found the disk full.
Going(used, got, t) == [used |-> used, got |-> got, full |-> FALSE, todo |-> t]
Full(used, got, t) == [used |-> used, got |-> got, full |-> TRUE, todo |-> t]

\* Two elements at the end of a sequence.
LEMMA AppendTwo ==
    ASSUME NEW t, IsSeq(t), NEW a, NEW b
    PROVE  t \o <<a, b>> = Append(Append(t, a), b)
  <1>1. PICK E : t \in Seq(E)
    BY DEF IsSeq
  <1>2. PICK n \in Nat : n = Len(t) /\ DOMAIN t = 1..n /\ \A k \in 1..n : t[k] \in E
    BY <1>1
  <1>3. PICK D : D = E \cup {a, b}
    OBVIOUS
  <1>4. t \in Seq(D) /\ a \in D /\ b \in D
    BY <1>1, <1>2, <1>3
  <1>5. PICK p : p = <<a, b>>
    OBVIOUS
  <1>6. p \in Seq(D) /\ Len(p) = 2 /\ p[1] = a /\ p[2] = b
    BY <1>4, <1>5
  <1>7. PICK u : u = t \o p
    OBVIOUS
  <1>8. u \in Seq(D)
    BY <1>4, <1>6, <1>7
  <1>9. Len(u) = n + 2 /\ \A k \in 1..(n + 2) : u[k] = IF k <= n THEN t[k] ELSE p[k - n]
    <2>1. /\ Len(t \o p) = Len(t) + Len(p)
          /\ \A k \in 1..(Len(t) + Len(p)) :
                (t \o p)[k] = IF k <= Len(t) THEN t[k] ELSE p[k - Len(t)]
      BY <1>4, <1>6, ConcatProperties
    <2>. QED
      BY <1>2, <1>6, <1>7, <2>1
  <1>10. PICK q : q = Append(t, a)
    OBVIOUS
  <1>11. q \in Seq(D) /\ Len(q) = n + 1 /\ \A k \in 1..(n + 1) : q[k] = IF k = n + 1 THEN a ELSE t[k]
    BY <1>2, <1>4, <1>10
  <1>12. PICK r : r = Append(q, b)
    OBVIOUS
  <1>13. r \in Seq(D) /\ Len(r) = n + 2 /\ \A k \in 1..(n + 2) : r[k] = IF k = n + 2 THEN b ELSE q[k]
    BY <1>4, <1>11, <1>12
  <1>14. ASSUME NEW k \in 1..(n + 2) PROVE u[k] = r[k]
    <2>1. CASE k <= n
      <3>1. k \in 1..(n + 1) /\ k # n + 1 /\ k # n + 2
        BY <2>1
      <3>. QED
        BY <1>9, <1>11, <1>13, <2>1, <3>1
    <2>2. CASE k = n + 1
      <3>1. ~ (k <= n) /\ k - n = 1 /\ k # n + 2 /\ k \in 1..(n + 1)
        BY <2>2
      <3>. QED
        BY <1>6, <1>9, <1>11, <1>13, <2>2, <3>1
    <2>3. CASE k = n + 2
      <3>1. ~ (k <= n) /\ k - n = 2
        BY <2>3
      <3>. QED
        BY <1>6, <1>9, <1>13, <2>3, <3>1
    <2>4. k <= n \/ k = n + 1 \/ k = n + 2
      OBVIOUS
    <2>. QED
      BY <2>1, <2>2, <2>3, <2>4
  <1>15. u = r
    BY <1>8, <1>9, <1>13, <1>14
  <1>. QED
    BY <1>5, <1>7, <1>10, <1>12, <1>15

\* The two writes of balloc.
Marked(t, used, g) == Then(Then(t, Bitmap, used \cup {g}), g, Zero)

\* A call goes on as long as the disk is not full.
LEMMA CallFull ==
    ASSUME NEW used, NEW got, NEW t
    PROVE  /\ balloc(Full(used, got, t)) = Full(used, got, t)
           /\ \A b, d : writes_to(Full(used, got, t), b, d) = Full(used, got, t)
  BY DEF balloc, writes_to, Full

\* Its next write comes last.
LEMMA CallWrites ==
    ASSUME NEW used, NEW got, NEW t, NEW b, NEW d
    PROVE  writes_to(Going(used, got, t), b, d) = Going(used, got, Then(t, b, d))
  BY DEF writes_to, Going, Then

\* A block that exists is taken.
LEMMA CallTakes ==
    ASSUME NEW used, NEW got, NEW t, NEW b, b # 0
    PROVE  block_or_new(Going(used, got, t), b) = Going(used, b, t)
  BY DEF block_or_new, Going

\* The call has gone on with a block that was free.
NewBlock(w, used, t) ==
    \E g \in DataBlocks \ used : w = Going(used \cup {g}, g, Marked(t, used, g))

\* balloc finds the disk full, or adds two writes for a block that was free.
LEMMA BallocIs ==
    ASSUME NEW used, used \subseteq DataBlocks, NEW got, NEW t, IsSeq(t),
           NEW w, w = balloc(Going(used, got, t))
    PROVE  w = Full(used, got, t) \/ NewBlock(w, used, t)
  <1>1. ASSUME DataBlocks \ used = {} PROVE w = Full(used, got, t)
    BY <1>1 DEF balloc, FreeBlocks, Going, Full
  <1>2. ASSUME DataBlocks \ used # {}
        PROVE  NewBlock(w, used, t)
    <2>1. PICK g \in DataBlocks \ used : g = FirstOf(FreeBlocks(used))
      BY <1>2, FirstOfIs, FsCrashAssumption DEF FreeBlocks
    <2>2. w = [used |-> used \cup {g}, got |-> g, full |-> FALSE,
               todo |-> t \o <<[b |-> Bitmap, d |-> used \cup {g}], [b |-> g, d |-> Zero]>>]
      BY <1>2, <2>1 DEF balloc, FreeBlocks, Going
    <2>3. t \o <<[b |-> Bitmap, d |-> used \cup {g}], [b |-> g, d |-> Zero]>> = Marked(t, used, g)
      <3>1. PICK a, b : a = [b |-> Bitmap, d |-> used \cup {g}] /\ b = [b |-> g, d |-> Zero]
        OBVIOUS
      <3>2. t \o <<a, b>> = Append(Append(t, a), b)
        BY AppendTwo
      <3>. QED
        BY <3>1, <3>2 DEF Marked, Then
    <2>4. w = Going(used \cup {g}, g, Marked(t, used, g))
      BY <2>2, <2>3 DEF Going
    <2>. QED
      BY <2>4 DEF NewBlock
  <1>. QED
    BY <1>1, <1>2

\* The other files' blocks are marked in the bitmap.
OthersMarked(s, i, S) == \A j \in S \ {i} : Uses(s, j) \subseteq s[Bitmap]

\* Block g is what a call asked for in place of b, on the way from disk F to disk
\* G: b if there is one, else a block that was free; no other file has it.
Got(s, F, G, b, g, i, S) ==
    /\ g \in DataBlocks /\ g \in G[Bitmap]
    /\ F[Bitmap] \subseteq G[Bitmap]
    /\ \A j \in S \ {i} : g \notin Uses(s, j)
    /\ b # 0 => g = b
    /\ b = 0 => g \notin F[Bitmap]
    /\ \A c \in FsBlocks : c # Bitmap /\ (b # 0 \/ c # g) => G[c] = F[c]

\* balloc marks the block it finds and clears it.
LEMMA PlanNew ==
    ASSUME NEW s, IsDisk(s), NEW i, NEW S, OthersMarked(s, i, S),
           NEW t, NEW F, Planned(s, t, i, S, F), NEW used, used = F[Bitmap],
           NEW g \in DataBlocks \ used
    PROVE  \E G : /\ Planned(s, Marked(t, used, g), i, S, G)
                  /\ G[Bitmap] = used \cup {g}
                  /\ Got(s, F, G, 0, g, i, S)
  <1>1. /\ Bitmap \in FsBlocks /\ DataBlocks \subseteq FsBlocks /\ Bitmap \notin DataBlocks
    BY FsCrashAssumption DEF FsBlocks
  <1>2. IsDisk(F) /\ s[Bitmap] \subseteq F[Bitmap] /\ used \subseteq DataBlocks
    BY DEF Planned, IsDisk
  <1>3. PICK U : U = used \cup {g}
    OBVIOUS
  <1>4. WriteOK(s, F, Bitmap, U, i, S)
    BY <1>2, <1>3 DEF WriteOK
  <1>5. PICK G1, t1 : G1 = After(F, Bitmap, U) /\ t1 = Then(t, Bitmap, U)
    OBVIOUS
  <1>6. /\ Planned(s, t1, i, S, G1)
        /\ \A b \in FsBlocks : G1[b] = IF b = Bitmap THEN U ELSE F[b]
    BY <1>4, <1>5, PlanMore
  <1>7. \A j \in S \ {i} : g \notin Uses(s, j)
    BY <1>2 DEF OthersMarked
  <1>8. WriteOK(s, G1, g, Zero, i, S)
    BY <1>7 DEF WriteOK
  <1>9. PICK G, r : G = After(G1, g, Zero) /\ r = Then(t1, g, Zero)
    OBVIOUS
  <1>10. /\ Planned(s, r, i, S, G)
         /\ \A b \in FsBlocks : G[b] = IF b = g THEN Zero ELSE G1[b]
    BY <1>6, <1>8, <1>9, PlanMore
  <1>11. r = Marked(t, used, g)
    BY <1>3, <1>5, <1>9 DEF Marked
  <1>12. G[Bitmap] = U
    BY <1>1, <1>6, <1>10
  <1>13. Got(s, F, G, 0, g, i, S)
    BY <1>1, <1>3, <1>6, <1>7, <1>10, <1>12 DEF Got
  <1>. QED
    BY <1>3, <1>10, <1>11, <1>12, <1>13

\* w is the call after block_or_new: without a block, or with one.
Gets(w, s, t, F, used, b, i, S) ==
    \/ \E g : w = Full(used, g, t) /\ b = 0
    \/ \E g, r, G : /\ w = Going(G[Bitmap], g, r)
                    /\ Planned(s, r, i, S, G)
                    /\ Got(s, F, G, b, g, i, S)

\* block_or_new gives the call a block, or finds the disk full.
LEMMA GetBlock ==
    ASSUME NEW s, IsDisk(s), NEW i, NEW S, OthersMarked(s, i, S),
           NEW t, NEW F, Planned(s, t, i, S, F), NEW used, used = F[Bitmap], NEW got,
           NEW b \in DataBlocks \cup {0},
           b # 0 => b \in F[Bitmap] /\ \A j \in S \ {i} : b \notin Uses(s, j),
           NEW w, w = block_or_new(Going(used, got, t), b)
    PROVE  Gets(w, s, t, F, used, b, i, S)
  <1>1. IsSeq(t) /\ used \subseteq DataBlocks
    BY DEF Planned, IsDisk
  <1>2. CASE b # 0
    <2>1. w = Going(used, b, t)
      BY <1>2, CallTakes
    <2>2. Got(s, F, F, b, b, i, S)
      BY <1>2 DEF Got
    <2>. QED
      BY <2>1, <2>2 DEF Gets
  <1>3. CASE b = 0
    <2>1. w = balloc(Going(used, got, t))
      BY <1>3 DEF block_or_new
    <2>2. w = Full(used, got, t) \/ NewBlock(w, used, t)
      BY <1>1, <2>1, BallocIs
    <2>3. CASE w = Full(used, got, t)
      BY <1>3, <2>3 DEF Gets
    <2>4. ASSUME NEW g \in DataBlocks \ used, w = Going(used \cup {g}, g, Marked(t, used, g))
          PROVE  Gets(w, s, t, F, used, b, i, S)
      <3>1. PICK G : /\ Planned(s, Marked(t, used, g), i, S, G)
                     /\ G[Bitmap] = used \cup {g}
                     /\ Got(s, F, G, 0, g, i, S)
        BY PlanNew
      <3>. QED
        BY <1>3, <2>4, <3>1 DEF Gets
    <2>. QED
      BY <2>2, <2>3, <2>4 DEF NewBlock
  <1>. QED
    BY <1>2, <1>3

\* The inodes with that of file i replaced.
Update(s, i, ip) == [s[Inodes] EXCEPT ![i] = ip]

\* The last two writes of a call: the data, to block g, and the inode.
LEMMA PlanEnd ==
    ASSUME NEW s, IsDisk(s), NEW i \in Inum, NEW S, NEW t, NEW F, Planned(s, t, i, S, F),
           NEW g \in DataBlocks, \A j \in S \ {i} : g \notin Uses(s, j),
           NEW v, NEW ip \in Inode,
           NEW r, r = Then(Then(t, g, v), Inodes, Update(s, i, ip))
    PROVE  \E G : /\ Planned(s, r, i, S, G)
                  /\ G[Inodes][i] = ip
                  /\ G[g] = v
                  /\ G[Bitmap] = F[Bitmap]
                  /\ \A c \in DataBlocks : c # g => G[c] = F[c]
  <1>1. /\ Bitmap \in FsBlocks /\ DataBlocks \subseteq FsBlocks /\ Bitmap \notin DataBlocks
        /\ Inodes \in FsBlocks /\ Inodes \notin DataBlocks /\ Bitmap # Inodes
    BY FsCrashAssumption DEF FsBlocks
  <1>2. WriteOK(s, F, g, v, i, S)
    BY DEF WriteOK
  <1>3. PICK t1, F1 : t1 = Then(t, g, v) /\ F1 = After(F, g, v)
    OBVIOUS
  <1>4. /\ Planned(s, t1, i, S, F1)
        /\ \A b \in FsBlocks : F1[b] = IF b = g THEN v ELSE F[b]
    BY <1>2, <1>3, PlanMore
  <1>5. PICK N : N = Update(s, i, ip)
    OBVIOUS
  <1>6. N \in [Inum -> Inode] /\ N[i] = ip /\ \A j \in Inum \ {i} : N[j] = s[Inodes][j]
    BY <1>5 DEF Update, IsDisk
  <1>7. WriteOK(s, F1, Inodes, N, i, S)
    BY <1>6 DEF WriteOK
  <1>8. PICK G : G = After(F1, Inodes, N)
    OBVIOUS
  <1>9. r = Then(t1, Inodes, N)
    BY <1>3, <1>5
  <1>10. /\ Planned(s, r, i, S, G)
         /\ \A b \in FsBlocks : G[b] = IF b = Inodes THEN N ELSE F1[b]
    BY <1>4, <1>7, <1>8, <1>9, PlanMore
  <1>11. /\ G[Inodes][i] = ip /\ G[g] = v /\ G[Bitmap] = F[Bitmap]
         /\ \A c \in DataBlocks : c # g => G[c] = F[c]
    BY <1>1, <1>4, <1>6, <1>10
  <1>. QED
    BY <1>10, <1>11

\* What writei does to the contents c of a file.
Wrote(c, n, v) == IF n = Len(c) THEN Append(c, v) ELSE [c EXCEPT ![n + 1] = v]

\* A file of z blocks with contents a and b, and one whose block n was written.
Reads(z, a, b) == [k \in 1..z |-> IF k = 1 THEN a ELSE b]
Anew(z, a, b, n, v) == [k \in 1..(IF n = z THEN n + 1 ELSE z) |->
                           IF k = n + 1 THEN v ELSE IF k = 1 THEN a ELSE b]

\* The contents after block n was written.
LEMMA WroteIs ==
    ASSUME NEW z \in 0..2, NEW a, NEW b, NEW c, c = Reads(z, a, b),
           NEW n \in 0..1, n <= z, NEW v
    PROVE  Wrote(c, n, v) = Anew(z, a, b, n, v)
  <1>1. z \in Nat /\ c \in Seq({a, b}) /\ Len(c) = z
    BY DEF Reads
  <1>2. CASE n = z
    <2>1. Wrote(c, n, v) = Append(c, v)
      BY <1>1, <1>2 DEF Wrote
    <2>2. PICK D : D = {a, b, v}
      OBVIOUS
    <2>3. c \in Seq(D) /\ v \in D
      BY <1>1, <2>2
    <2>4. PICK r : r = Append(c, v)
      OBVIOUS
    <2>5. r \in Seq(D) /\ Len(r) = z + 1 /\ r[z + 1] = v /\ \A k \in 1..z : r[k] = c[k]
      BY <1>1, <2>3, <2>4
    <2>6. r = [k \in 1..(z + 1) |-> r[k]]
      BY <2>5
    <2>7. ASSUME NEW k \in 1..(z + 1)
          PROVE  r[k] = IF k = n + 1 THEN v ELSE IF k = 1 THEN a ELSE b
      <3>1. CASE k = z + 1
        BY <1>2, <2>5, <3>1
      <3>2. CASE k # z + 1
        <4>1. k \in 1..z
          BY <3>2
        <4>. QED
          BY <1>2, <2>5, <3>2, <4>1 DEF Reads
      <3>. QED
        BY <3>1, <3>2
    <2>. QED
      BY <1>2, <2>1, <2>4, <2>6, <2>7 DEF Anew
  <1>3. CASE n # z
    <2>1. Wrote(c, n, v) = [c EXCEPT ![n + 1] = v]
      BY <1>1, <1>3 DEF Wrote
    <2>2. n + 1 \in 1..z
      BY <1>3
    <2>. QED
      BY <1>3, <2>1, <2>2 DEF Reads, Anew
  <1>. QED
    BY <1>2, <1>3

\* That said for block 0.
LEMMA WroteFirst ==
    ASSUME NEW z \in 0..2, NEW a, NEW b, NEW v
    PROVE  Wrote(Reads(z, a, b), 0, v) = Reads(IF z = 0 THEN 1 ELSE z, v, b)
  <1>1. 0 \in 0..1 /\ 0 <= z
    OBVIOUS
  <1>2. Wrote(Reads(z, a, b), 0, v) = Anew(z, a, b, 0, v)
    BY <1>1, WroteIs
  <1>. QED
    BY <1>2 DEF Reads, Anew

\* And for block 1.
LEMMA WroteSecond ==
    ASSUME NEW z \in 1..2, NEW a, NEW b, NEW v
    PROVE  Wrote(Reads(z, a, b), 1, v) = Reads(2, a, v)
  <1>1. 1 \in 0..1 /\ z \in 0..2 /\ 1 <= z
    OBVIOUS
  <1>2. Wrote(Reads(z, a, b), 1, v) = Anew(z, a, b, 1, v)
    BY <1>1, WroteIs
  <1>3. (IF 1 = z THEN 1 + 1 ELSE z) = 2
    OBVIOUS
  <1>4. \A k \in 1..2 : (IF k = 1 + 1 THEN v ELSE IF k = 1 THEN a ELSE b) = IF k = 1 THEN a ELSE v
    OBVIOUS
  <1>. QED
    BY <1>2, <1>3, <1>4 DEF Reads, Anew

\* The file after block 0 was written to block g: its own, or one that was free.
LEMMA DirectLaid ==
    ASSUME NEW s, IsDisk(s), NEW i \in Inum, NEW S, NEW c, Holds(s, i, c),
           \A j \in S \ {i} : Uses(s, i) \cap Uses(s, j) = {},
           NEW ip \in Inode, ip = s[Inodes][i], NEW g \in DataBlocks,
           ip.direct # 0 => g = ip.direct, ip.direct = 0 => g \notin s[Bitmap],
           \A j \in S \ {i} : g \notin Uses(s, j),
           NEW v, NEW np \in Inode, np.direct = g, np.index = ip.index, np.size = Larger(ip.size, 1),
           NEW G, G[Inodes][i] = np, G[g] = v, g \in G[Bitmap], s[Bitmap] \subseteq G[Bitmap],
           \A b \in DataBlocks : b # g => G[b] = s[b]
    PROVE  /\ Holds(G, i, Wrote(c, 0, v))
           /\ \A j \in S \ {i} : Uses(G, i) \cap Uses(s, j) = {}
  <1>1. 0 \notin DataBlocks
    BY FsCrashAssumption
  <1>2. ip.size \in 0..2 /\ ip.direct \in DataBlocks \cup {0} /\ ip.index \in DataBlocks \cup {0}
    BY DEF Inode
  <1>3. Laid(s, ip, c) /\ UsesOf(s, ip) \subseteq s[Bitmap]
    BY DEF Holds, Laid
  <1>4. PICK x, y : x = ip.index /\ y = s[x]
    OBVIOUS
  <1>5. x # 0 => /\ x \in DataBlocks /\ y \in DataBlocks /\ x # y
                 /\ x \in UsesOf(s, ip) /\ y \in UsesOf(s, ip)
                 /\ x # ip.direct /\ y # ip.direct
    BY <1>2, <1>3, <1>4 DEF Laid, UsesOf
  <1>6. x # 0 => x # g /\ y # g
    BY <1>2, <1>3, <1>5
  <1>7. x # 0 => G[x] = y /\ G[y] = s[y]
    BY <1>4, <1>5, <1>6
  <1>8. UsesOf(G, np) \subseteq {g} \cup UsesOf(s, ip)
    BY <1>4, <1>7 DEF UsesOf
  <1>9. PICK z \in 0..2 : z = ip.size
    BY <1>2
  <1>10. /\ ip.size = 2 => x # 0
         /\ np.size = IF z = 0 THEN 1 ELSE z
    BY <1>3, <1>4, <1>9 DEF Laid, Larger
  <1>11. Wrote(c, 0, v) = [k \in 1..np.size |-> IF k = 1 THEN G[np.direct] ELSE G[G[np.index]]]
    <2>1. PICK a, b : a = s[ip.direct] /\ b = s[s[ip.index]]
      OBVIOUS
    <2>2. c = Reads(z, a, b)
      BY <1>3, <1>9, <2>1 DEF Laid, Reads
    <2>3. Wrote(c, 0, v) = Reads(IF z = 0 THEN 1 ELSE z, v, b)
      BY <2>2, WroteFirst
    <2>4. Wrote(c, 0, v) = [k \in 1..np.size |-> IF k = 1 THEN v ELSE b]
      BY <1>10, <2>3 DEF Reads
    <2>5. ASSUME NEW k \in 1..np.size
          PROVE  (IF k = 1 THEN v ELSE b) = IF k = 1 THEN G[np.direct] ELSE G[G[np.index]]
      <3>1. CASE k = 1
        BY <3>1
      <3>2. CASE k # 1
        <4>1. ip.size = 2
          BY <1>9, <1>10, <3>2
        <4>2. G[G[np.index]] = b
          BY <1>4, <1>7, <1>10, <2>1, <4>1
        <4>. QED
          BY <3>2, <4>2
      <3>. QED
        BY <3>1, <3>2
    <2>. QED
      BY <2>4, <2>5
  <1>12. UsesOf(G, np) \subseteq G[Bitmap]
    BY <1>3, <1>8
  <1>13. Laid(G, np, Wrote(c, 0, v))
    BY <1>1, <1>4, <1>5, <1>6, <1>7, <1>9, <1>10, <1>11, <1>12 DEF Laid
  <1>. QED
    BY <1>8, <1>13 DEF Holds, Uses

\* On disk G, which came from s, block g holds v, index block x names g, and the
\* inode ip of file i goes on to x: both are its own, or were free.
SecondAt(s, G, ip, x, g, v, i, S) ==
    /\ x \in DataBlocks /\ g \in DataBlocks /\ x # g
    /\ ip.index # 0 => x = ip.index /\ g = s[x]
    /\ ip.index = 0 => x \notin s[Bitmap] /\ g \notin s[Bitmap]
    /\ \A j \in S \ {i} : x \notin Uses(s, j) /\ g \notin Uses(s, j)
    /\ \E np \in Inode : /\ np.direct = ip.direct /\ np.index = x /\ np.size = 2
                         /\ G[Inodes][i] = np
    /\ G[g] = v /\ G[x] = g
    /\ x \in G[Bitmap] /\ g \in G[Bitmap] /\ s[Bitmap] \subseteq G[Bitmap]
    /\ \A b \in DataBlocks : b # g /\ b # x => G[b] = s[b]

\* The file after block 1 was written to block g, which index block x names: both
\* its own, or both blocks that were free.
LEMMA IndirectLaid ==
    ASSUME NEW s, IsDisk(s), NEW i \in Inum, NEW S, NEW c, Holds(s, i, c),
           \A j \in S \ {i} : Uses(s, i) \cap Uses(s, j) = {},
           NEW ip \in Inode, ip = s[Inodes][i], ip.size >= 1,
           NEW x, NEW g, NEW v, NEW G, SecondAt(s, G, ip, x, g, v, i, S)
    PROVE  /\ Holds(G, i, Wrote(c, 1, v))
           /\ \A j \in S \ {i} : Uses(G, i) \cap Uses(s, j) = {}
  <1>. PICK np \in Inode : /\ np.direct = ip.direct /\ np.index = x /\ np.size = 2
                         /\ G[Inodes][i] = np
    BY DEF SecondAt
  <1>0. /\ x \in DataBlocks /\ g \in DataBlocks /\ x # g
        /\ ip.index # 0 => x = ip.index /\ g = s[x]
        /\ ip.index = 0 => x \notin s[Bitmap] /\ g \notin s[Bitmap]
        /\ \A j \in S \ {i} : x \notin Uses(s, j) /\ g \notin Uses(s, j)
        /\ G[g] = v /\ G[x] = g
        /\ x \in G[Bitmap] /\ g \in G[Bitmap] /\ s[Bitmap] \subseteq G[Bitmap]
        /\ \A b \in DataBlocks : b # g /\ b # x => G[b] = s[b]
    BY DEF SecondAt
  <1>1. 0 \notin DataBlocks
    BY FsCrashAssumption
  <1>2. ip.size \in 0..2 /\ ip.direct \in DataBlocks \cup {0} /\ ip.index \in DataBlocks \cup {0}
    BY DEF Inode
  <1>3. Laid(s, ip, c) /\ UsesOf(s, ip) \subseteq s[Bitmap]
    BY DEF Holds, Laid
  <1>4. ip.direct \in DataBlocks /\ ip.direct \in UsesOf(s, ip)
    BY <1>2, <1>3 DEF Laid, UsesOf
  <1>5. x # ip.direct /\ g # ip.direct
    BY <1>0, <1>3, <1>4 DEF Laid
  <1>6. G[ip.direct] = s[ip.direct]
    BY <1>0, <1>4, <1>5
  <1>7. UsesOf(G, np) \subseteq {g, x} \cup UsesOf(s, ip)
    BY <1>0, <1>4 DEF UsesOf
  <1>8. PICK z \in 1..2 : z = ip.size
    BY <1>2
  <1>10. Wrote(c, 1, v) = [k \in 1..np.size |-> IF k = 1 THEN G[np.direct] ELSE G[G[np.index]]]
    <2>1. PICK a, b : a = s[ip.direct] /\ b = s[s[ip.index]]
      OBVIOUS
    <2>2. c = Reads(z, a, b)
      BY <1>3, <1>8, <2>1 DEF Laid, Reads
    <2>3. Wrote(c, 1, v) = Reads(2, a, v)
      BY <2>2, WroteSecond
    <2>4. a = G[np.direct] /\ v = G[G[np.index]]
      BY <1>0, <1>6, <2>1
    <2>. QED
      BY <2>3, <2>4 DEF Reads
  <1>11. UsesOf(G, np) \subseteq G[Bitmap]
    BY <1>0, <1>3, <1>7
  <1>12. Laid(G, np, Wrote(c, 1, v))
    BY <1>0, <1>1, <1>4, <1>5, <1>10, <1>11 DEF Laid
  <1>. QED
    BY <1>0, <1>7, <1>12 DEF Holds, Uses

-----------------------------------------------------------------------------
(* The calls of writei.                                                    *)

\* What a call w leaves to do.
Left(w) == IF w.full THEN Append(w.todo, [b |-> NoFile, d |-> Zero]) ELSE w.todo

\* The writes of a call that found the disk full, and of one that did not.
LEMMA LeftIs ==
    ASSUME NEW used, NEW got, NEW t
    PROVE  /\ Left(Full(used, got, t)) = Then(t, NoFile, Zero)
           /\ Left(Going(used, got, t)) = t
  BY DEF Left, Full, Going, Then

\* The writes t of a call that leaves file i as c: they may be made, and lead there
\* unless they end in a panic.
Leads(s, t, i, S, c) ==
    /\ Pending(s, t, i, S)
    /\ (\A k \in DOMAIN t : t[k].b # NoFile) => Outcome(s, t, i, S, c)

\* A plan that ends on a disk with the file in its place leads there.
LEMMA PlanLeads ==
    ASSUME NEW s, NEW t, NEW i, NEW S, NEW F, Planned(s, t, i, S, F), NEW c, Holds(F, i, c),
           \A j \in S \ {i} : Uses(F, i) \cap Uses(s, j) = {}
    PROVE  Leads(s, t, i, S, c)
  <1>1. Pending(s, t, i, S)
    BY PlanPending
  <1>2. IsDisk(F) /\ \A b \in FsBlocks : IsFinal(s, t, b, F[b])
    BY DEF Planned
  <1>3. Outcome(s, t, i, S, c)
    BY <1>2 DEF Outcome
  <1>. QED
    BY <1>1, <1>3 DEF Leads

\* The files of S on disk s: i has contents c, and shares no block with another.
Stands(s, i, S, c) ==
    /\ IsDisk(s) /\ OthersMarked(s, i, S) /\ Holds(s, i, c)
    /\ \A j \in S \ {i} : Uses(s, i) \cap Uses(s, j) = {}

\* writei for block 0.
LEMMA DirectCall ==
    ASSUME NEW i \in Inum, NEW S, NEW c, Stands(store, i, S, c), NEW v,
           NEW t, t = Left(write_direct(i, v))
    PROVE  Leads(store, t, i, S, Wrote(c, 0, v))
  <1>1. PICK s : s = store
    OBVIOUS
  <1>2. /\ IsDisk(s) /\ OthersMarked(s, i, S) /\ Holds(s, i, c)
        /\ \A j \in S \ {i} : Uses(s, i) \cap Uses(s, j) = {}
    BY <1>1 DEF Stands
  <1>3. PICK ip \in Inode : ip = s[Inodes][i]
    BY <1>2 DEF IsDisk
  <1>4. PICK b \in DataBlocks \cup {0} : b = ip.direct
    BY DEF Inode
  <1>5. PICK used : used = s[Bitmap]
    OBVIOUS
  <1>6. Call = Going(used, 0, <<>>)
    BY <1>1, <1>5 DEF Call, Going
  <1>7. Planned(s, <<>>, i, S, s)
    BY <1>2, PlanNothing
  <1>8. b # 0 => b \in s[Bitmap] /\ \A j \in S \ {i} : b \notin Uses(s, j)
    <2>1. b # 0 => b \in Uses(s, i)
      BY <1>3, <1>4 DEF Uses, UsesOf
    <2>2. Uses(s, i) \subseteq s[Bitmap]
      BY <1>2 DEF Holds, Laid, Uses
    <2>. QED
      BY <1>2, <2>1, <2>2
  <1>9. PICK w : w = block_or_new(Going(used, 0, <<>>), b)
    OBVIOUS
  <1>10. \/ \E g : w = Full(used, g, <<>>)
         \/ \E g, r, G : /\ w = Going(G[Bitmap], g, r)
                         /\ Planned(s, r, i, S, G)
                         /\ Got(s, s, G, b, g, i, S)
    <2>1. Gets(w, s, <<>>, s, used, b, i, S)
      BY <1>2, <1>5, <1>7, <1>8, <1>9, GetBlock
    <2>. QED
      BY <2>1 DEF Gets
  <1>11. PICK np : np = [ip EXCEPT !.direct = w.got, !.size = Larger(@, 1)]
    OBVIOUS
  <1>12. t = Left(writes_to(writes_to(w, w.got, v), Inodes, Update(s, i, np)))
    BY <1>1, <1>3, <1>4, <1>6, <1>9, <1>11 DEF write_direct, iupdate, Update
  <1>13. ASSUME NEW g, w = Full(used, g, <<>>) PROVE Leads(s, t, i, S, Wrote(c, 0, v))
    <2>1. t = Left(w)
      BY <1>12, <1>13, CallFull
    <2>2. t = Then(<<>>, NoFile, Zero)
      BY <1>13, <2>1, LeftIs
    <2>. QED
      BY <1>7, <2>2, PlanFull DEF Leads
  <1>14. ASSUME NEW g, NEW r, NEW G, w = Going(G[Bitmap], g, r), Planned(s, r, i, S, G),
                Got(s, s, G, b, g, i, S)
         PROVE  Leads(s, t, i, S, Wrote(c, 0, v))
    <2>1. w.got = g
      BY <1>14 DEF Going
    <2>2. t = Left(Going(G[Bitmap], g, Then(Then(r, g, v), Inodes, Update(s, i, np))))
      BY <1>12, <1>14, <2>1, CallWrites
    <2>3. t = Then(Then(r, g, v), Inodes, Update(s, i, np))
      BY <2>2, LeftIs
    <2>4. /\ g \in DataBlocks /\ g \in G[Bitmap] /\ s[Bitmap] \subseteq G[Bitmap]
          /\ \A j \in S \ {i} : g \notin Uses(s, j)
          /\ b # 0 => g = b
          /\ b = 0 => g \notin s[Bitmap]
          /\ \A d \in DataBlocks : d # g => G[d] = s[d]
      BY <1>14, FsCrashAssumption DEF Got, FsBlocks
    <2>5. /\ np \in Inode /\ np.direct = g /\ np.index = ip.index
          /\ np.size = Larger(ip.size, 1)
      <3>1. PICK z \in 0..2 : z = Larger(ip.size, 1)
        BY DEF Inode, Larger
      <3>2. np = [ip EXCEPT !.direct = g, !.size = z]
        BY <1>11, <2>1, <3>1
      <3>. QED
        BY <2>4, <3>1, <3>2 DEF Inode
    <2>6. PICK H : /\ Planned(s, t, i, S, H)
                   /\ H[Inodes][i] = np
                   /\ H[g] = v
                   /\ H[Bitmap] = G[Bitmap]
                   /\ \A d \in DataBlocks : d # g => H[d] = G[d]
      BY <1>2, <1>14, <2>3, <2>4, <2>5, PlanEnd
    <2>7. \A d \in DataBlocks : d # g => H[d] = s[d]
      BY <2>4, <2>6
    <2>8. g \in H[Bitmap] /\ s[Bitmap] \subseteq H[Bitmap]
      BY <2>4, <2>6
    <2>9. /\ Holds(H, i, Wrote(c, 0, v))
          /\ \A j \in S \ {i} : Uses(H, i) \cap Uses(s, j) = {}
      <3>1. (ip.direct # 0 => g = ip.direct) /\ (ip.direct = 0 => g \notin s[Bitmap])
        BY <1>4, <2>4
      <3>2. H[Inodes][i] = np /\ H[g] = v
        BY <2>6
      <3>. QED
        BY <1>2, <1>3, <2>4, <2>5, <2>7, <2>8, <3>1, <3>2, DirectLaid
    <2>. QED
      BY <2>6, <2>9, PlanLeads
  <1>. QED
    BY <1>1, <1>10, <1>13, <1>14

\* writei for block 1: a file with an index block has a block behind it, so both
\* blocks are there or both are new.
LEMMA IndirectCall ==
    ASSUME NEW i \in Inum, NEW S, NEW c, Stands(store, i, S, c), store[Inodes][i].size >= 1,
           NEW v, NEW t, t = Left(write_indirect(i, v))
    PROVE  Leads(store, t, i, S, Wrote(c, 1, v))
  <1>1. PICK s : s = store
    OBVIOUS
  <1>2. /\ IsDisk(s) /\ OthersMarked(s, i, S) /\ Holds(s, i, c)
        /\ \A j \in S \ {i} : Uses(s, i) \cap Uses(s, j) = {}
    BY <1>1 DEF Stands
  <1>3. PICK ip \in Inode : ip = s[Inodes][i] /\ ip.size >= 1
    BY <1>1, <1>2 DEF IsDisk
  <1>4. PICK b \in DataBlocks \cup {0} : b = ip.index
    BY DEF Inode
  <1>5. PICK used : used = s[Bitmap]
    OBVIOUS
  <1>6. Call = Going(used, 0, <<>>)
    BY <1>1, <1>5 DEF Call, Going
  <1>7. Planned(s, <<>>, i, S, s)
    BY <1>2, PlanNothing
  <1>8. Uses(s, i) \subseteq s[Bitmap]
    BY <1>2 DEF Holds, Laid, Uses
  <1>9. PICK old : old = IF b = 0 THEN 0 ELSE s[b]
    OBVIOUS
  <1>10. b # 0 => old \in DataBlocks /\ b \in Uses(s, i) /\ old \in Uses(s, i) /\ b # old
    BY <1>2, <1>3, <1>4, <1>9 DEF Holds, Laid, Uses, UsesOf
  <1>11. b # 0 => b \in s[Bitmap] /\ \A j \in S \ {i} : b \notin Uses(s, j)
    BY <1>2, <1>8, <1>10
  <1>12. old # 0 => old \in s[Bitmap] /\ \A j \in S \ {i} : old \notin Uses(s, j)
    BY <1>2, <1>8, <1>9, <1>10
  <1>13. (b = 0 <=> old = 0) /\ old \in DataBlocks \cup {0}
    BY <1>9, <1>10, FsCrashAssumption
  <1>14. PICK x : x = block_or_new(Going(used, 0, <<>>), b)
    OBVIOUS
  <1>15. PICK w : w = block_or_new(x, old)
    OBVIOUS
  <1>16. PICK linked : linked = IF old = 0 THEN writes_to(w, x.got, w.got) ELSE w
    OBVIOUS
  <1>17. PICK np : np = [ip EXCEPT !.index = x.got, !.size = 2]
    OBVIOUS
  <1>18. t = Left(writes_to(writes_to(linked, w.got, v), Inodes, Update(s, i, np)))
    BY <1>1, <1>3, <1>4, <1>6, <1>9, <1>14, <1>15, <1>16, <1>17
       DEF write_indirect, iupdate, Update
  <1>19. \/ \E g : x = Full(used, g, <<>>) /\ b = 0
         \/ \E g, r, G : /\ x = Going(G[Bitmap], g, r)
                         /\ Planned(s, r, i, S, G)
                         /\ Got(s, s, G, b, g, i, S)
    <2>1. Gets(x, s, <<>>, s, used, b, i, S)
      BY <1>2, <1>5, <1>7, <1>11, <1>14, GetBlock
    <2>. QED
      BY <2>1 DEF Gets
  <1>20. ASSUME NEW g, NEW r, NEW F, NEW u, Planned(s, r, i, S, F), w = Full(u, g, r)
         PROVE  Leads(s, t, i, S, Wrote(c, 1, v))
    <2>1. linked = w
      BY <1>16, <1>20, CallFull
    <2>2. t = Left(Full(u, g, r))
      BY <1>18, <1>20, <2>1, CallFull
    <2>3. t = Then(r, NoFile, Zero)
      BY <2>2, LeftIs
    <2>. QED
      BY <1>20, <2>3, PlanFull DEF Leads
  <1>21. ASSUME NEW g, x = Full(used, g, <<>>), b = 0 PROVE Leads(s, t, i, S, Wrote(c, 1, v))
    <2>1. w = balloc(Full(used, g, <<>>))
      BY <1>13, <1>15, <1>21 DEF block_or_new
    <2>2. w = Full(used, g, <<>>)
      BY <2>1, CallFull
    <2>. QED
      BY <1>7, <1>20, <2>2
  <1>22. ASSUME NEW p, NEW q, NEW F, x = Going(F[Bitmap], p, q), Planned(s, q, i, S, F),
                Got(s, s, F, b, p, i, S)
         PROVE  Leads(s, t, i, S, Wrote(c, 1, v))
    <2>1. /\ p \in DataBlocks /\ p \in F[Bitmap] /\ s[Bitmap] \subseteq F[Bitmap]
          /\ \A j \in S \ {i} : p \notin Uses(s, j)
          /\ b # 0 => p = b
          /\ b = 0 => p \notin s[Bitmap]
          /\ \A d \in DataBlocks : (b # 0 \/ d # p) => F[d] = s[d]
      BY <1>22, FsCrashAssumption DEF Got, FsBlocks
    <2>2. old # 0 => old \in F[Bitmap] /\ \A j \in S \ {i} : old \notin Uses(s, j)
      BY <1>12, <2>1
    <2>3. PICK u : u = F[Bitmap]
      OBVIOUS
    <2>4. w = block_or_new(Going(u, p, q), old)
      BY <1>15, <1>22, <2>3
    <2>5. \/ \E g : w = Full(u, g, q)
          \/ \E g, r, G : /\ w = Going(G[Bitmap], g, r)
                          /\ Planned(s, r, i, S, G)
                          /\ Got(s, F, G, old, g, i, S)
      <3>1. Gets(w, s, q, F, u, old, i, S)
        BY <1>2, <1>13, <1>22, <2>2, <2>3, <2>4, GetBlock
      <3>. QED
        BY <3>1 DEF Gets
    <2>6. ASSUME NEW g, NEW r, NEW G, w = Going(G[Bitmap], g, r), Planned(s, r, i, S, G),
                 Got(s, F, G, old, g, i, S)
          PROVE  Leads(s, t, i, S, Wrote(c, 1, v))
      <3>1. /\ g \in DataBlocks /\ g \in G[Bitmap] /\ F[Bitmap] \subseteq G[Bitmap]
            /\ \A j \in S \ {i} : g \notin Uses(s, j)
            /\ old # 0 => g = old
            /\ old = 0 => g \notin F[Bitmap]
            /\ \A d \in DataBlocks : (old # 0 \/ d # g) => G[d] = F[d]
        BY <2>6, FsCrashAssumption DEF Got, FsBlocks
      <3>2. x.got = p /\ w.got = g
        BY <1>22, <2>6 DEF Going
      <3>3. p # g
        BY <1>10, <1>13, <2>1, <3>1
      <3>4. np \in Inode /\ np.direct = ip.direct /\ np.index = p /\ np.size = 2
        <4>1. PICK m \in 0..2 : m = 2
          OBVIOUS
        <4>2. np = [ip EXCEPT !.index = p, !.size = m]
          BY <1>17, <3>2, <4>1
        <4>. QED
          BY <2>1, <4>1, <4>2 DEF Inode
      <3>5. PICK z, L : /\ linked = Going(L[Bitmap], g, z) /\ Planned(s, z, i, S, L)
                        /\ L[p] = g /\ L[Bitmap] = G[Bitmap]
                        /\ \A d \in DataBlocks : d # p /\ d # g => L[d] = s[d]
        <4>1. CASE old # 0
          <5>1. linked = Going(G[Bitmap], g, r)
            BY <1>16, <2>6, <4>1
          <5>2. G[p] = g
            BY <1>9, <1>13, <2>1, <3>1, <4>1
          <5>3. \A d \in DataBlocks : G[d] = s[d]
            BY <1>13, <2>1, <3>1, <4>1
          <5>. QED
            BY <2>6, <5>1, <5>2, <5>3
        <4>2. CASE old = 0
          <5>1. linked = Going(G[Bitmap], g, Then(r, p, g))
            BY <1>16, <2>6, <3>2, <4>2, CallWrites
          <5>2. WriteOK(s, G, p, g, i, S)
            BY <2>1 DEF WriteOK
          <5>3. PICK L, z : L = After(G, p, g) /\ z = Then(r, p, g)
            OBVIOUS
          <5>4. /\ Planned(s, z, i, S, L)
                /\ \A d \in FsBlocks : L[d] = IF d = p THEN g ELSE G[d]
            BY <1>2, <2>6, <5>2, <5>3, PlanMore
          <5>5. L[p] = g /\ L[Bitmap] = G[Bitmap]
            BY <2>1, <5>4, FsCrashAssumption DEF FsBlocks
          <5>6. \A d \in DataBlocks : d # p /\ d # g => L[d] = s[d]
            BY <2>1, <3>1, <5>4 DEF FsBlocks
          <5>. QED
            BY <5>1, <5>3, <5>4, <5>5, <5>6
        <4>. QED
          BY <4>1, <4>2
      <3>6. t = Left(Going(L[Bitmap], g, Then(Then(z, g, v), Inodes, Update(s, i, np))))
        BY <1>18, <3>2, <3>5, CallWrites
      <3>7. t = Then(Then(z, g, v), Inodes, Update(s, i, np))
        BY <3>6, LeftIs
      <3>8. PICK H : /\ Planned(s, t, i, S, H)
                     /\ H[Inodes][i] = np
                     /\ H[g] = v
                     /\ H[Bitmap] = L[Bitmap]
                     /\ \A d \in DataBlocks : d # g => H[d] = L[d]
        BY <1>2, <3>1, <3>4, <3>5, <3>7, PlanEnd
      <3>9. H[p] = g /\ \A d \in DataBlocks : d # g /\ d # p => H[d] = s[d]
        BY <2>1, <3>3, <3>5, <3>8
      <3>10. p \in H[Bitmap] /\ g \in H[Bitmap] /\ s[Bitmap] \subseteq H[Bitmap]
        BY <2>1, <3>1, <3>5, <3>8
      <3>11. /\ ip.index # 0 => p = ip.index /\ g = s[p]
             /\ ip.index = 0 => p \notin s[Bitmap] /\ g \notin s[Bitmap]
        BY <1>4, <1>9, <1>13, <2>1, <3>1
      <3>12. \A j \in S \ {i} : p \notin Uses(s, j) /\ g \notin Uses(s, j)
        BY <2>1, <3>1
      <3>13. H[Inodes][i] = np /\ H[g] = v
        BY <3>8
      <3>14. /\ Holds(H, i, Wrote(c, 1, v))
             /\ \A j \in S \ {i} : Uses(H, i) \cap Uses(s, j) = {}
        <4>1. SecondAt(s, H, ip, p, g, v, i, S)
          BY <2>1, <3>1, <3>3, <3>4, <3>9, <3>10, <3>11, <3>12, <3>13 DEF SecondAt
        <4>. QED
          BY <1>2, <1>3, <4>1, IndirectLaid
      <3>. QED
        BY <3>8, <3>14, PlanLeads
    <2>. QED
      BY <1>20, <1>22, <2>5, <2>6
  <1>. QED
    BY <1>1, <1>19, <1>21, <1>22

-----------------------------------------------------------------------------
(* Sets of files, and blocks that are written back.                        *)

\* A disk with the same files has them intact.
LEMMA IntactAgain ==
    ASSUME NEW s, IsDisk(s), NEW u, NEW T, T \subseteq Inum, NEW c, Intact(s, T, c),
           \A i \in T : Same(s, u, i)
    PROVE  Intact(u, T, c)
  <1>1. ASSUME NEW i \in T PROVE Holds(u, i, c[i]) /\ Uses(u, i) = Uses(s, i)
    <2>1. Holds(s, i, c[i]) /\ Same(s, u, i) /\ i \in Inum
      BY DEF Intact
    <2>. QED
      BY <2>1, SameHolds
  <1>. QED
    BY <1>1 DEF Intact

\* Some blocks of disk s were written back to disk d, which is now e.
Back(s, d, e) ==
    \E B \in SUBSET FsBlocks : e = [b \in FsBlocks |-> IF b \in B THEN s[b] ELSE d[b]]

\* That keeps a file that was on both.
LEMMA BackSame ==
    ASSUME NEW s, IsDisk(s), NEW d, IsDisk(d), NEW e, Back(s, d, e)
    PROVE  /\ IsDisk(e)
           /\ \A i \in Inum : \A c : Holds(s, i, c) /\ Same(s, d, i) => Same(s, e, i)
  <1>1. PICK B \in SUBSET FsBlocks : e = [b \in FsBlocks |-> IF b \in B THEN s[b] ELSE d[b]]
    BY DEF Back
  <1>2. /\ Bitmap \in FsBlocks /\ Inodes \in FsBlocks /\ DataBlocks \subseteq FsBlocks
    BY DEF FsBlocks
  <1>3. \A b \in FsBlocks : e[b] = s[b] \/ e[b] = d[b]
    BY <1>1
  <1>4. e = [b \in FsBlocks |-> e[b]]
    BY <1>1
  <1>5. IsDisk(e)
    BY <1>2, <1>3, <1>4 DEF IsDisk
  <1>6. ASSUME NEW i \in Inum, NEW c, Holds(s, i, c), Same(s, d, i) PROVE Same(s, e, i)
    <2>1. Uses(s, i) \subseteq DataBlocks /\ Uses(s, i) \subseteq s[Bitmap]
      BY <1>6 DEF Uses, UsesOf, Holds, Laid
    <2>2. e[Inodes][i] = s[Inodes][i]
      BY <1>2, <1>3, <1>6 DEF Same
    <2>3. \A b \in Uses(s, i) : e[b] = s[b]
      BY <1>2, <1>3, <1>6, <2>1 DEF Same
    <2>4. Uses(s, i) \subseteq e[Bitmap]
      BY <1>2, <1>3, <1>6, <2>1 DEF Same
    <2>. QED
      BY <2>2, <2>3, <2>4 DEF Same
  <1>. QED
    BY <1>5, <1>6

\* Two disks that have a file as a third has it.
LEMMA SameBoth ==
    ASSUME NEW s, IsDisk(s), NEW u, NEW e, NEW i \in Inum, NEW c, Holds(s, i, c),
           Same(s, u, i), Same(s, e, i)
    PROVE  Same(u, e, i)
  <1>1. Uses(u, i) = Uses(s, i)
    BY SameHolds
  <1>. QED
    BY <1>1 DEF Same

\* One write of a call: the other files stay, and the rest of the writes still
\* leads where it did.
LEMMA CallStep ==
    ASSUME NEW s, IsDisk(s), NEW S \in SUBSET Inum, NEW i, NEW c0, Intact(s, S \ {i}, c0),
           NEW t, NEW c, Leads(s, t, i, S, c),
           NEW x, x # NoFile, NEW d, NEW r, Starts(t, x, d, r), NEW u, u = After(s, x, d)
    PROVE  /\ IsDisk(u) /\ Intact(u, S \ {i}, c0)
           /\ \A j \in S \ {i} : Same(s, u, j)
           /\ Leads(u, r, i, S, c)
  <1>1. Pending(s, t, i, S)
    BY DEF Leads
  <1>2. /\ IsDisk(u) /\ \A j \in S \ {i} : Same(s, u, j)
        /\ Pending(u, r, i, S)
        /\ \A a : Outcome(s, t, i, S, a) => Outcome(u, r, i, S, a)
    BY <1>1, OneWrite
  <1>3. Intact(u, S \ {i}, c0)
    BY <1>2, IntactAgain
  <1>4. ASSUME \A k \in DOMAIN r : r[k].b # NoFile PROVE \A k \in DOMAIN t : t[k].b # NoFile
    <2>1. IsSeq(t)
      BY <1>1 DEF Pending
    <2>2. \A k \in DOMAIN t : k \in Nat /\ (k # 1 => k - 1 \in DOMAIN r /\ r[k - 1] = t[k])
      BY <2>1, TailIs
    <2>3. t[1].b # NoFile
      BY DEF Starts
    <2>. QED
      BY <1>4, <2>2, <2>3
  <1>5. Leads(u, r, i, S, c)
    BY <1>2, <1>4 DEF Leads
  <1>. QED
    BY <1>2, <1>3, <1>5

\* With nothing left to write, the file is on the disk.
LEMMA CallDone ==
    ASSUME NEW s, IsDisk(s), NEW i, NEW S, NEW c, Leads(s, <<>>, i, S, c)
    PROVE  Holds(s, i, c) /\ \A j \in S \ {i} : Uses(s, i) \cap Uses(s, j) = {}
  <1>1. DOMAIN <<>> = {}
    OBVIOUS
  <1>2. PICK F : /\ IsDisk(F)
                 /\ \A b \in FsBlocks : IsFinal(s, <<>>, b, F[b])
                 /\ Holds(F, i, c)
                 /\ \A j \in S \ {i} : Uses(F, i) \cap Uses(s, j) = {}
    BY <1>1 DEF Leads, Outcome
  <1>3. \A b \in FsBlocks : s[b] = F[b]
    BY <1>1, <1>2 DEF IsFinal
  <1>4. s = F
    BY <1>2, <1>3 DEF IsDisk
  <1>. QED
    BY <1>2, <1>4

-----------------------------------------------------------------------------
(* The invariant.                                                          *)

Safe == Inum \ risky

\* Both disks are well formed, and so is the rest of the state.
Shape ==
    /\ IsDisk(store) /\ IsDisk(durable)
    /\ power \in {"run", "flush", "off", "panic"}
    /\ writing \in Inum \cup {NoFile}
    /\ unsynced \subseteq Inum /\ risky \subseteq Inum
    /\ want = [i \in Inum |-> want[i]]

\* A call is in progress only while the machine runs or has panicked, and its file
\* is not safe from a loss of power.
Moments ==
    /\ todo # <<>> => power = "run" /\ writing # NoFile
    /\ power \in {"flush", "off"} => writing = NoFile
    /\ power = "off" => unsynced = {}
    /\ writing # NoFile => writing \in unsynced /\ writing \notin risky

\* The undamaged files that no call is changing read as they should.
Kept == Intact(store, Safe \ {writing}, want)

\* The files that were not written since the last orderly shutdown are durable, the
\* marks of their blocks included.
Clean == \A i \in Safe \ unsynced : Same(store, durable, i)

\* The writes left to a call change no other undamaged file and, unless they end in
\* a panic, leave its own as its writer wants it.
InCall == power = "run" /\ writing # NoFile => Leads(store, todo, writing, Safe, want[writing])

CrashInv == Shape /\ Moments /\ Kept /\ Clean /\ InCall

\* The invariant holds of the new file system.
LEMMA CrashInvInit == CrashInit => CrashInv
  <1>. SUFFICES ASSUME CrashInit PROVE CrashInv
    OBVIOUS
  <1>1. PICK s : s = durable /\ s = store
    BY DEF CrashInit
  <1>2. /\ Bitmap \in FsBlocks /\ Inodes \in FsBlocks /\ Bitmap # Inodes /\ 0 \notin DataBlocks
    BY FsCrashAssumption DEF FsBlocks
  <1>3. s[Bitmap] = {} /\ s[Inodes] = [i \in Inum |-> NoInode] /\ s = [b \in FsBlocks |-> s[b]]
    BY <1>1, <1>2 DEF CrashInit
  <1>4. NoInode \in Inode
    BY DEF NoInode, Inode
  <1>5. IsDisk(s)
    BY <1>3, <1>4 DEF IsDisk
  <1>6. \A i \in Inum : Uses(s, i) = {}
    BY <1>2, <1>3 DEF Uses, UsesOf, NoInode
  <1>7. ASSUME NEW i \in Inum PROVE Holds(s, i, <<>>)
    <2>1. s[Inodes][i] = NoInode
      BY <1>3
    <2>2. NoInode.size = 0 /\ NoInode.index = 0
      BY DEF NoInode
    <2>3. UsesOf(s, NoInode) = {}
      BY <1>6, <2>1 DEF Uses
    <2>4. <<>> = [k \in 1..0 |-> IF k = 1 THEN s[NoInode.direct] ELSE s[s[NoInode.index]]]
      OBVIOUS
    <2>5. Laid(s, NoInode, <<>>)
      BY <2>2, <2>3, <2>4 DEF Laid
    <2>. QED
      BY <2>1, <2>5 DEF Holds
  <1>8. Shape
    BY <1>1, <1>5 DEF Shape, CrashInit
  <1>9. Moments /\ InCall
    BY DEF CrashInit, Moments, InCall
  <1>10. Kept
    <2>1. \A i \in Inum : want[i] = <<>>
      BY DEF CrashInit
    <2>. QED
      BY <1>1, <1>6, <1>7, <2>1 DEF Kept, Intact, Safe
  <1>11. Clean
    BY <1>1, <1>6 DEF Clean, Safe, Same
  <1>. QED
    BY <1>8, <1>9, <1>10, <1>11 DEF CrashInv

\* writei starts a call for an undamaged file.
LEMMA CrashInvCall ==
    ASSUME CrashInv, NEW i \in Inum, NEW n \in 0..1, NEW v, writei(i, n, v)
    PROVE  CrashInv'
  <1>1. /\ power = "run" /\ writing = NoFile /\ i \notin risky /\ n <= store[Inodes][i].size
        /\ writing' = i /\ unsynced' = unsynced \cup {i}
        /\ UNCHANGED <<store, durable, power, risky>>
    BY DEF writei, diskVars
  <1>2. NoFile \notin Inum
    BY FsCrashAssumption DEF NoFile
  <1>3. Shape /\ Moments /\ Kept /\ Clean
    BY DEF CrashInv
  <1>4. PICK S : S = Safe
    OBVIOUS
  <1>5. S \ {writing} = S /\ i \in S /\ S \subseteq Inum /\ Safe' = S
    BY <1>1, <1>2, <1>4 DEF Safe
  <1>6. PICK s : s = store
    OBVIOUS
  <1>7. IsDisk(s) /\ Intact(s, S, want)
    BY <1>3, <1>4, <1>5, <1>6 DEF Shape, Kept
  <1>8. PICK c : c = want[i]
    OBVIOUS
  <1>9. Stands(store, i, S, c)
    <2>1. \A j \in S : Holds(s, j, want[j])
      BY <1>7 DEF Intact
    <2>2. \A j \in S \ {i} : Uses(s, j) \subseteq s[Bitmap]
      BY <2>1 DEF Holds, Laid, Uses
    <2>3. \A j \in S \ {i} : Uses(s, i) \cap Uses(s, j) = {}
      BY <1>5, <1>7 DEF Intact
    <2>. QED
      BY <1>5, <1>6, <1>7, <1>8, <2>1, <2>2, <2>3 DEF Stands, OthersMarked
  <1>10. want' = [want EXCEPT ![i] = Wrote(@, n, v)]
    BY DEF writei, Wrote
  <1>11. want'[i] = Wrote(c, n, v) /\ \A j \in Inum \ {i} : want'[j] = want[j]
    BY <1>3, <1>8, <1>10 DEF Shape
  <1>12. PICK t : t = todo'
    OBVIOUS
  <1>13. Leads(store, t, i, S, Wrote(c, n, v))
    <2>1. CASE n = 0
      <3>1. t = Left(write_direct(i, v))
        BY <1>12, <2>1 DEF writei, Left
      <3>. QED
        BY <1>9, <2>1, <3>1, DirectCall
    <2>2. CASE n = 1
      <3>1. t = Left(write_indirect(i, v))
        BY <1>12, <2>2 DEF writei, Left
      <3>2. store[Inodes][i].size >= 1
        <4>1. PICK ip \in Inode : ip = store[Inodes][i]
          BY <1>3 DEF Shape, IsDisk
        <4>2. ip.size \in 0..2
          BY DEF Inode
        <4>. QED
          BY <1>1, <2>2, <4>1, <4>2
      <3>. QED
        BY <1>9, <2>2, <3>1, <3>2, IndirectCall
    <2>. QED
      BY <2>1, <2>2
  <1>14. Shape'
    <2>1. want' = [j \in Inum |-> want'[j]]
      BY <1>3, <1>10 DEF Shape
    <2>. QED
      BY <1>1, <1>3, <2>1 DEF Shape, IsDisk
  <1>15. Moments'
    BY <1>1, <1>2, <1>3 DEF Moments, Shape
  <1>16. Kept'
    <2>1. Intact(s, S \ {i}, want')
      BY <1>5, <1>7, <1>11 DEF Intact
    <2>. QED
      BY <1>1, <1>5, <1>6, <2>1 DEF Kept
  <1>17. Clean'
    BY <1>1, <1>3, <1>4, <1>5 DEF Clean
  <1>18. InCall'
    BY <1>1, <1>5, <1>11, <1>12, <1>13 DEF InCall
  <1>. QED
    BY <1>14, <1>15, <1>16, <1>17, <1>18 DEF CrashInv

\* One block write of the call.
LEMMA CrashInvWrite ==
    ASSUME CrashInv, disk_write PROVE CrashInv'
  <1>1. /\ todo # <<>> /\ Head(todo).b # NoFile /\ todo' = Tail(todo)
        /\ power = "run" /\ power' = "run"
        /\ store' = [store EXCEPT ![Head(todo).b] = Head(todo).d]
        /\ Back(store, durable, durable')
        /\ UNCHANGED <<writing, want, unsynced, risky>>
    BY DEF disk_write, Disk!Write, Disk!WriteBack, Back
  <1>2. Shape /\ Moments /\ Kept /\ Clean /\ InCall
    BY DEF CrashInv
  <1>3. writing # NoFile /\ writing \in unsynced
    BY <1>1, <1>2 DEF Moments
  <1>4. PICK s, e, S, i : s = store /\ e = durable' /\ S = Safe /\ i = writing
    OBVIOUS
  <1>5. PICK t, r : t = todo /\ r = todo'
    OBVIOUS
  <1>6. PICK c0 : c0 = want
    OBVIOUS
  <1>7. IsDisk(s) /\ S \in SUBSET Inum /\ Intact(s, S \ {i}, c0) /\ Leads(s, t, i, S, c0[i])
    BY <1>1, <1>2, <1>3, <1>4, <1>5, <1>6 DEF Shape, Safe, Kept, InCall
  <1>8. PICK x, d : x = t[1].b /\ d = t[1].d
    OBVIOUS
  <1>9. Head(t) = t[1]
    <2>1. IsSeq(t)
      BY <1>7 DEF Leads, Pending
    <2>2. Starts(t, x, d, Tail(t))
      BY <1>1, <1>5, <1>8 DEF Starts
    <2>. QED
      BY <2>1, <2>2, TailIs
  <1>10. Starts(t, x, d, r) /\ x # NoFile
    BY <1>1, <1>5, <1>8, <1>9 DEF Starts
  <1>11. PICK u : u = store'
    OBVIOUS
  <1>12. u = After(s, x, d)
    BY <1>1, <1>4, <1>5, <1>8, <1>9, <1>11 DEF After
  <1>13. /\ IsDisk(u) /\ Intact(u, S \ {i}, c0)
         /\ \A j \in S \ {i} : Same(s, u, j)
         /\ Leads(u, r, i, S, c0[i])
    BY <1>7, <1>10, <1>12, CallStep
  <1>14. /\ IsDisk(e)
         /\ \A j \in Inum : \A c : Holds(s, j, c) /\ Same(s, durable, j) => Same(s, e, j)
    <2>1. IsDisk(durable)
      BY <1>2 DEF Shape
    <2>. QED
      BY <1>1, <1>4, <1>7, <2>1, BackSame
  <1>15. ASSUME NEW j \in S \ unsynced PROVE Same(u, e, j)
    <2>1. j \in S \ {i} /\ j \in Inum
      BY <1>3, <1>4, <1>7
    <2>2. Holds(s, j, c0[j]) /\ Same(s, u, j)
      BY <1>7, <1>13, <2>1 DEF Intact
    <2>3. Same(s, durable, j)
      BY <1>2, <1>4 DEF Clean
    <2>4. Same(s, e, j)
      BY <1>14, <2>1, <2>2, <2>3
    <2>. QED
      BY <1>7, <2>1, <2>2, <2>4, SameBoth
  <1>16. Safe' = S
    BY <1>1, <1>4 DEF Safe
  <1>17. Shape'
    BY <1>1, <1>2, <1>4, <1>11, <1>13, <1>14 DEF Shape
  <1>18. Moments'
    BY <1>1, <1>2, <1>3 DEF Moments
  <1>19. Kept' /\ InCall'
    BY <1>1, <1>4, <1>5, <1>6, <1>11, <1>13, <1>16 DEF Kept, InCall
  <1>20. Clean'
    BY <1>1, <1>4, <1>11, <1>15, <1>16 DEF Clean
  <1>. QED
    BY <1>17, <1>18, <1>19, <1>20 DEF CrashInv

\* writei returns: its file is what its writer wants.
LEMMA CrashInvReturn ==
    ASSUME CrashInv, writei_returns PROVE CrashInv'
  <1>1. /\ power = "run" /\ writing # NoFile /\ todo = <<>> /\ writing' = NoFile
        /\ UNCHANGED <<store, durable, power, todo, want, unsynced, risky>>
    BY DEF writei_returns, diskVars
  <1>2. Shape /\ Moments /\ Kept /\ Clean /\ InCall
    BY DEF CrashInv
  <1>3. PICK s, S, i, c0 : s = store /\ S = Safe /\ i = writing /\ c0 = want
    OBVIOUS
  <1>4. IsDisk(s) /\ Intact(s, S \ {i}, c0) /\ Leads(s, <<>>, i, S, c0[i])
    BY <1>1, <1>2, <1>3 DEF Shape, Kept, InCall
  <1>5. Holds(s, i, c0[i]) /\ \A j \in S \ {i} : Uses(s, i) \cap Uses(s, j) = {}
    BY <1>4, CallDone
  <1>6. Intact(s, S, c0)
    BY <1>4, <1>5 DEF Intact
  <1>7. Safe' = S /\ NoFile \notin S
    BY <1>1, <1>3, FsCrashAssumption DEF Safe, NoFile
  <1>8. S \ {NoFile} = S
    BY <1>7
  <1>9. Kept'
    BY <1>1, <1>3, <1>6, <1>7, <1>8 DEF Kept
  <1>10. Shape' /\ Moments' /\ InCall' /\ Clean'
    BY <1>1, <1>2, <1>3, <1>7 DEF Shape, IsDisk, Moments, InCall, Clean
  <1>. QED
    BY <1>9, <1>10 DEF CrashInv

\* A panic leaves the disks alone and ends the call.
LEMMA CrashInvPanic ==
    ASSUME CrashInv, balloc_panics \/ disk_panics PROVE CrashInv'
  <1>1. /\ power' = "panic" /\ todo' = <<>>
        /\ UNCHANGED <<store, durable, writing, want, unsynced, risky>>
    BY DEF balloc_panics, disk_panics, Disk!Panic
  <1>2. Shape /\ Moments /\ Kept /\ Clean
    BY DEF CrashInv
  <1>3. Shape' /\ Moments'
    BY <1>1, <1>2 DEF Shape, IsDisk, Moments
  <1>4. Kept' /\ Clean' /\ InCall'
    BY <1>1, <1>2 DEF Kept, Clean, InCall, Safe
  <1>. QED
    BY <1>3, <1>4 DEF CrashInv

\* Blocks become durable until all are, and the machine is reset.
LEMMA CrashInvFlush ==
    ASSUME CrashInv, in_order \/ flushes \/ resets PROVE CrashInv'
  <1>1. Shape /\ Moments /\ Kept /\ Clean
    BY DEF CrashInv
  <1>2. NoFile \notin Safe
    BY FsCrashAssumption DEF Safe, NoFile
  <1>3. CASE in_order
    <2>1. /\ writing = NoFile /\ power' = "flush"
          /\ UNCHANGED <<store, durable, todo, writing, want, unsynced, risky>>
      BY <1>3 DEF in_order, Disk!Shutdown, fs
    <2>2. Shape' /\ Moments' /\ InCall'
      BY <1>1, <2>1 DEF Shape, IsDisk, Moments, InCall
    <2>3. Kept' /\ Clean'
      BY <1>1, <2>1 DEF Kept, Clean, Safe
    <2>. QED
      BY <2>2, <2>3 DEF CrashInv
  <1>4. CASE flushes
    <2>1. /\ power = "flush" /\ power' = "flush" /\ Back(store, durable, durable')
          /\ UNCHANGED <<store, todo, writing, want, unsynced, risky>>
      BY <1>4 DEF flushes, Disk!Sync, Disk!WriteBack, Back, fs
    <2>2. PICK s, d, e : s = store /\ d = durable /\ e = durable'
      OBVIOUS
    <2>3. /\ IsDisk(e)
          /\ \A j \in Inum : \A c : Holds(s, j, c) /\ Same(s, d, j) => Same(s, e, j)
      BY <1>1, <2>1, <2>2, BackSame DEF Shape
    <2>4. writing = NoFile
      BY <1>1, <2>1 DEF Moments
    <2>5. \A j \in Safe : j \in Inum /\ Holds(s, j, want[j])
      BY <1>1, <1>2, <2>2, <2>4 DEF Kept, Intact, Safe
    <2>6. Shape' /\ Moments' /\ InCall'
      BY <1>1, <2>1, <2>2, <2>3 DEF Shape, Moments, InCall
    <2>7. Kept'
      BY <1>1, <2>1 DEF Kept, Safe
    <2>8. \A j \in Safe \ unsynced : Same(s, e, j)
      BY <1>1, <2>2, <2>3, <2>5 DEF Clean
    <2>9. Clean'
      BY <2>1, <2>2, <2>8 DEF Clean, Safe
    <2>. QED
      BY <2>6, <2>7, <2>9 DEF CrashInv
  <1>5. CASE resets
    <2>1. /\ power = "flush" /\ power' = "off" /\ durable = store /\ unsynced' = {}
          /\ UNCHANGED <<store, durable, todo, writing, want, risky>>
      BY <1>5 DEF resets, Disk!PowerOff
    <2>2. writing = NoFile
      BY <1>1, <2>1 DEF Moments
    <2>3. \A j \in Safe : Holds(store, j, want[j])
      BY <1>1, <1>2, <2>2 DEF Kept, Intact
    <2>4. \A j \in Safe : Same(store, durable, j)
      BY <2>1, <2>3 DEF Holds, Laid, Same, Uses
    <2>5. Shape' /\ Moments' /\ InCall'
      BY <1>1, <2>1, <2>2 DEF Shape, IsDisk, Moments, InCall
    <2>6. Kept' /\ Clean'
      BY <1>1, <2>1, <2>4 DEF Kept, Clean, Safe
    <2>. QED
      BY <2>5, <2>6 DEF CrashInv
  <1>. QED
    BY <1>3, <1>4, <1>5

\* After a loss of power, or after switching on again, the machine has what was
\* durable; that is enough for the files that were clean.
LEMMA CrashInvPower ==
    ASSUME CrashInv, switched_on \/ power_fails PROVE CrashInv'
  <1>1. /\ power' = "run" /\ store' = durable /\ durable' = durable /\ want' = want
        /\ writing' = NoFile /\ todo' = <<>> /\ unsynced' = {}
        /\ risky' = risky \cup unsynced
    <2>1. CASE switched_on
      <3>1. /\ power = "off" /\ power' = "run" /\ store' = durable /\ durable' = durable
            /\ UNCHANGED <<todo, writing, want, unsynced, risky>>
        BY <2>1 DEF switched_on, Disk!PowerCycle, fs
      <3>2. unsynced = {} /\ writing = NoFile /\ todo = <<>>
        BY <3>1 DEF CrashInv, Moments
      <3>. QED
        BY <3>1, <3>2
    <2>2. CASE power_fails
      BY <2>2 DEF power_fails, Disk!PowerCycle
    <2>. QED
      BY <2>1, <2>2
  <1>2. Shape /\ Moments /\ Kept /\ Clean
    BY DEF CrashInv
  <1>3. PICK s, d, S, T, c : s = store /\ d = durable /\ S = Safe /\ T = Safe' /\ c = want
    OBVIOUS
  <1>4. IsDisk(s) /\ IsDisk(d)
    BY <1>2, <1>3 DEF Shape
  <1>5. T = S \ unsynced /\ T \subseteq Inum /\ T \subseteq S \ {writing} /\ T \ {NoFile} = T
    BY <1>1, <1>2, <1>3, FsCrashAssumption DEF Safe, Moments, NoFile
  <1>6. Intact(s, T, c) /\ \A j \in T : Same(s, d, j)
    BY <1>2, <1>3, <1>5 DEF Kept, Intact, Clean
  <1>7. Intact(d, T, c)
    BY <1>4, <1>5, <1>6, IntactAgain
  <1>8. \A j \in T : Same(d, d, j)
    BY <1>7 DEF Intact, Holds, Laid, Same, Uses
  <1>9. Shape'
    BY <1>1, <1>2 DEF Shape, IsDisk
  <1>10. Moments' /\ InCall'
    BY <1>1 DEF Moments, InCall
  <1>11. Kept' /\ Clean'
    BY <1>1, <1>3, <1>5, <1>7, <1>8 DEF Kept, Clean
  <1>. QED
    BY <1>9, <1>10, <1>11 DEF CrashInv

\* The invariant of the file system under losses of power: both disks are well
\* formed, the undamaged files are in place and in blocks of their own, the clean
\* ones are durable, and what a call has still to write disturbs no other file.
THEOREM CrashInvHolds == CrashSpec => []CrashInv
  <1>1. CrashInit => CrashInv
    BY CrashInvInit
  <1>2. CrashInv /\ [CrashNext]_crashVars => CrashInv'
    <2>. SUFFICES ASSUME CrashInv, [CrashNext]_crashVars PROVE CrashInv'
      OBVIOUS
    <2>1. ASSUME NEW i \in Inum, NEW n \in 0..1, NEW v \in Value, writei(i, n, v) PROVE CrashInv'
      BY <2>1, CrashInvCall
    <2>2. CASE disk_write
      BY <2>2, CrashInvWrite
    <2>3. CASE writei_returns
      BY <2>3, CrashInvReturn
    <2>4. CASE balloc_panics \/ disk_panics
      BY <2>4, CrashInvPanic
    <2>5. CASE in_order \/ flushes \/ resets
      BY <2>5, CrashInvFlush
    <2>6. CASE switched_on \/ power_fails
      BY <2>6, CrashInvPower
    <2>7. CASE UNCHANGED crashVars
      <3>1. UNCHANGED <<store, durable, power, todo, writing, want, unsynced, risky>>
        BY <2>7 DEF crashVars, diskVars, fs
      <3>. QED
        BY <3>1 DEF CrashInv, Shape, IsDisk, Moments, Kept, Intact, Clean, InCall, Safe
    <2>. QED
      BY <2>1, <2>2, <2>3, <2>4, <2>5, <2>6, <2>7 DEF CrashNext
  <1>. QED
    BY <1>1, <1>2, PTL DEF CrashSpec

\* FilesSurvive (writei, balloc, iupdate, disk_flush): at every moment, before and
\* after any number of losses of power, the layout is well formed and every file
\* that was not written between the last orderly shutdown and a loss of power reads
\* back as its writers left it.
THEOREM FilesAlwaysSurvive == CrashSpec => []FilesSurvive
  <1>1. CrashInv => FilesSurvive
    <2>. SUFFICES ASSUME CrashInv PROVE FilesSurvive
      OBVIOUS
    <2>1. Shape /\ Kept
      BY DEF CrashInv
    <2>2. CrashTypeOK
      <3>1. ASSUME NEW i \in Inum
            PROVE  /\ store[Inodes][i].size \in 0..2
                   /\ {store[Inodes][i].direct, store[Inodes][i].index} \subseteq DataBlocks \cup {0}
        <4>1. PICK ip \in Inode : ip = store[Inodes][i]
          BY <2>1 DEF Shape, IsDisk
        <4>. QED
          BY <4>1 DEF Inode
      <3>. QED
        BY <2>1, <3>1 DEF CrashTypeOK, Shape, IsDisk
    <2>3. SafeFilesIntact
      <3>. SUFFICES ASSUME NEW i \in Inum \ (risky \cup {writing}) PROVE Contents(i) = want[i]
        BY DEF SafeFilesIntact
      <3>1. Holds(store, i, want[i])
        BY <2>1 DEF Kept, Intact, Safe
      <3>. QED
        BY <3>1 DEF Holds, Laid, Contents
    <2>. QED
      BY <2>2, <2>3 DEF FilesSurvive
  <1>. QED
    BY <1>1, CrashInvHolds, PTL
=============================================================================

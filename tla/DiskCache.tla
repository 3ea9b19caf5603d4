----------------------------- MODULE DiskCache ------------------------------
(***************************************************************************)
(* The write-back block cache in front of the VirtIO disk                  *)
(* (kernel/disk/disk.c) and the only callers of disk_flush, shutdown and   *)
(* reboot (kernel/system/system.c).  The device may refuse a request; the  *)
(* power may fail at any moment.  A request of the driver is polled to its *)
(* end with interrupts off, so disk_read and disk_write are one step; the  *)
(* flush loop is one step per entry, because a loss of power between two   *)
(* of them leaves a disk that neither end of the loop shows.               *)
(***************************************************************************)
EXTENDS Integers

CONSTANTS
    Blocks,      \* block numbers
    Data,        \* contents of a block
    Failed,      \* what a read that fails leaves in the caller's buffer
    NEntries,    \* DISK_CACHE_BLOCKS
    MaxClock     \* bound: the LRU clock stops here, and only hits of the flush
                 \* loop and power cycles go on

ASSUME CacheAssumption ==
    /\ NEntries \in Nat \ {0}
    /\ MaxClock \in Nat
    /\ Failed \notin Data
    /\ Blocks # {} /\ Data # {}

VARIABLES
    block_cache,   \* the entries
    clock,         \* block_cache_clock
    disk,          \* the blocks on the device
    mode,          \* "run", "flush" inside shutdown(), "off", "panic"
    flush_idx,     \* i of the loop of disk_flush
    out            \* the buffer of the last disk_read

vars == <<block_cache, clock, disk, mode, flush_idx, out>>

Entries == 1..NEntries

Entry == [valid : BOOLEAN, dirty : BOOLEAN, block_no : Blocks,
          last_used : Nat, data : Data]

\* One type invariant for the module: the shape of the cache and the disk.
TypeOK ==
    /\ block_cache \in [Entries -> Entry]
    /\ clock \in Nat
    /\ disk \in [Blocks -> Data]
    /\ mode \in {"run", "flush", "off", "panic"}
    /\ flush_idx \in 1..(NEntries + 1)
    /\ out \in Data \cup {Failed}

-----------------------------------------------------------------------------
(* Helpers of disk.c.                                                      *)

\* disk_cache_init; memset leaves block 0 and zero data in the invalid entries,
\* which nobody looks at.
ZeroEntry ==
    [valid |-> FALSE, dirty |-> FALSE, block_no |-> CHOOSE b \in Blocks : TRUE,
     last_used |-> 0, data |-> CHOOSE d \in Data : TRUE]
ZeroCache == [e \in Entries |-> ZeroEntry]

\* The entries that hold block b, and the one cache_lookup finds.
Holding(b) == {e \in Entries : block_cache[e].valid /\ block_cache[e].block_no = b}

First(S) == CHOOSE e \in S : \A f \in S : e <= f

cache_lookup(b) == First(Holding(b))

Invalid == {e \in Entries : ~block_cache[e].valid}

\* Mutated form of LeastRecent: the comparison of the victim search is reversed.
MostRecent ==
    {e \in Entries : \A f \in Entries :
        block_cache[e].last_used >= block_cache[f].last_used}

LeastRecent ==
    {e \in Entries : \A f \in Entries :
        block_cache[e].last_used <= block_cache[f].last_used}

\* cache_alloc_entry: the first invalid entry, else the least recently used one.
alloc_entry == IF Invalid # {} THEN First(Invalid) ELSE First(LeastRecent)

NeedsFlush(e) == block_cache[e].valid /\ block_cache[e].dirty

\* The disk after cache_flush_entry(e) has succeeded.
flushed_disk(e) ==
    IF NeedsFlush(e)
    THEN [disk EXCEPT ![block_cache[e].block_no] = block_cache[e].data]
    ELSE disk

\* An entry filled or overwritten now: cache_touch gives it a new time stamp.
Touched(b, d, dirty) ==
    [valid |-> TRUE, dirty |-> dirty, block_no |-> b,
     last_used |-> clock + 1, data |-> d]

Tick == clock < MaxClock /\ clock' = clock + 1

-----------------------------------------------------------------------------
Init ==
    /\ block_cache = ZeroCache
    /\ clock = 0
    /\ disk \in [Blocks -> Data]
    /\ mode = "run"
    /\ flush_idx = 1
    /\ out = Failed

read_hit(b) ==
    /\ mode = "run"
    /\ Holding(b) # {}
    /\ Tick
    /\ block_cache' = [block_cache EXCEPT ![cache_lookup(b)].last_used = clock + 1]
    /\ out' = block_cache[cache_lookup(b)].data
    /\ UNCHANGED <<disk, mode, flush_idx>>

\* Mutated form of read_miss: the victim is dropped without being written back.
read_miss_drops(b) ==
    /\ mode = "run"
    /\ Holding(b) = {}
    /\ Tick
    /\ block_cache' = [block_cache EXCEPT ![alloc_entry] =
                          Touched(b, disk[b], FALSE)]
    /\ out' = disk[b]
    /\ UNCHANGED <<disk, mode, flush_idx>>

read_miss(b) ==
    /\ mode = "run"
    /\ Holding(b) = {}
    /\ Tick
    /\ disk' = flushed_disk(alloc_entry)
    /\ block_cache' = [block_cache EXCEPT ![alloc_entry] =
                          Touched(b, disk'[b], FALSE)]
    /\ out' = disk'[b]
    /\ UNCHANGED <<mode, flush_idx>>

\* The device refuses to read: the entry that was made room in stays invalid,
\* disk_read returns 0 and leaves the caller's buffer as it was.
read_fails(b) ==
    /\ mode = "run"
    /\ Holding(b) = {}
    /\ disk' = flushed_disk(alloc_entry)
    /\ block_cache' = [block_cache EXCEPT ![alloc_entry].valid = FALSE,
                                          ![alloc_entry].dirty = FALSE]
    /\ out' = Failed
    /\ UNCHANGED <<clock, mode, flush_idx>>

\* Mutated form of write_hit: the entry is not marked dirty.
write_hit_clean(b, d) ==
    /\ mode = "run"
    /\ Holding(b) # {}
    /\ Tick
    /\ block_cache' = [block_cache EXCEPT ![cache_lookup(b)] =
                          Touched(b, d, block_cache[cache_lookup(b)].dirty)]
    /\ UNCHANGED <<disk, mode, flush_idx, out>>

write_hit(b, d) ==
    /\ mode = "run"
    /\ Holding(b) # {}
    /\ Tick
    /\ block_cache' = [block_cache EXCEPT ![cache_lookup(b)] = Touched(b, d, TRUE)]
    /\ UNCHANGED <<disk, mode, flush_idx, out>>

write_miss(b, d) ==
    /\ mode = "run"
    /\ Holding(b) = {}
    /\ Tick
    /\ disk' = flushed_disk(alloc_entry)
    /\ block_cache' = [block_cache EXCEPT ![alloc_entry] = Touched(b, d, TRUE)]
    /\ UNCHANGED <<mode, flush_idx, out>>

\* The device refuses to write the entry that must make room: panic.
evict_fails(b) ==
    /\ mode = "run"
    /\ Holding(b) = {}
    /\ NeedsFlush(alloc_entry)
    /\ mode' = "panic"
    /\ UNCHANGED <<block_cache, clock, disk, flush_idx, out>>

-----------------------------------------------------------------------------
(* shutdown() and reboot(): disk_flush, then sbi_system_reset.             *)

shutdown ==
    /\ mode = "run"
    /\ mode' = "flush"
    /\ flush_idx' = 1
    /\ UNCHANGED <<block_cache, clock, disk, out>>

\* Mutated form of flush_entry: the loop does not go on to the next entry.
flush_entry_stuck ==
    /\ mode = "flush"
    /\ flush_idx <= NEntries
    /\ disk' = flushed_disk(flush_idx)
    /\ block_cache' = [block_cache EXCEPT ![flush_idx].dirty = FALSE]
    /\ UNCHANGED <<clock, mode, flush_idx, out>>

flush_entry ==
    /\ mode = "flush"
    /\ flush_idx <= NEntries
    /\ disk' = flushed_disk(flush_idx)
    /\ block_cache' = IF NeedsFlush(flush_idx)
                      THEN [block_cache EXCEPT ![flush_idx].dirty = FALSE]
                      ELSE block_cache
    /\ flush_idx' = flush_idx + 1
    /\ UNCHANGED <<clock, mode, out>>

flush_fails ==
    /\ mode = "flush"
    /\ flush_idx <= NEntries
    /\ NeedsFlush(flush_idx)
    /\ mode' = "panic"
    /\ UNCHANGED <<block_cache, clock, disk, flush_idx, out>>

system_reset ==
    /\ mode = "flush"
    /\ flush_idx > NEntries
    /\ mode' = "off"
    /\ UNCHANGED <<block_cache, clock, disk, flush_idx, out>>

\* Loss of power or reset, and init_disk at the next boot.
power_cycle ==
    /\ block_cache' = ZeroCache
    /\ clock' = 0
    /\ mode' = "run"
    /\ flush_idx' = 1
    /\ out' = Failed
    /\ UNCHANGED disk

Access ==
    \E b \in Blocks :
        \/ read_hit(b)
        \/ read_miss(b)
        \/ read_fails(b)
        \/ evict_fails(b)
        \/ \E d \in Data : write_hit(b, d) \/ write_miss(b, d)

Next ==
    \/ Access
    \/ shutdown
    \/ flush_entry
    \/ flush_fails
    \/ system_reset
    \/ power_cycle

Spec == Init /\ [][Next]_vars

\* The loop of disk_flush runs on once it has been entered: nothing preempts it,
\* and the device answers every request.
FairSpec == Spec /\ WF_vars(flush_entry) /\ WF_vars(system_reset)

-----------------------------------------------------------------------------
(* Properties.                                                             *)

\* A block is in at most one valid entry; a second copy would let a stale one
\* be read or written back (cache_lookup stops at the first).
OneEntryPerBlock ==
    \A e, f \in Entries :
        /\ block_cache[e].valid /\ block_cache[f].valid
        /\ block_cache[e].block_no = block_cache[f].block_no
        => e = f

\* A clean entry is what the disk holds, so it may be dropped.
CleanIsOnDisk ==
    \A e \in Entries :
        block_cache[e].valid /\ ~block_cache[e].dirty
            => block_cache[e].data = disk[block_cache[e].block_no]

\* During shutdown the entries the loop has passed are clean.
FlushedIsClean ==
    mode \in {"flush", "off"} => \A e \in Entries : e < flush_idx => ~NeedsFlush(e)

\* What the cache and the disk together hold for a block.
Content(b) ==
    IF Holding(b) # {} THEN block_cache[cache_lookup(b)].data ELSE disk[b]

Abstract ==
    INSTANCE BlockStore WITH store <- [b \in Blocks |-> Content(b)], durable <- disk

\* The cache is a block store: a read returns the last write whatever was
\* evicted, loaded or refused by the device in between; nothing reaches the disk
\* but what was written; and the machine is switched off only when every block
\* is on the disk.
ImplementsBlockStore == Abstract!Spec

\* Once switched off in order, the disk has every write.
NothingLostByShutdown ==
    mode = "off" => \A b \in Blocks : disk[b] = Content(b)

\* A block used last is still cached after the next access: the LRU choice spares
\* it, although read_fails and evictions shuffle the entries.
LastUsedStays ==
    [][\A e \in Entries :
         (/\ NEntries > 1 /\ mode = "run" /\ mode' = "run"
          /\ clock > 0 /\ clock' >= clock
          /\ block_cache[e].valid /\ block_cache[e].last_used = clock)
         => block_cache'[e].valid
            /\ block_cache'[e].block_no = block_cache[e].block_no]_vars

\* A shutdown ends: switched off, halted by a refused write, or cut short by a
\* loss of power.
ShutdownEnds == mode = "flush" ~> mode # "flush"

\* Cache and disk agree wherever the code relies on it: one entry for a block, clean
\* entries as on the disk, clean entries behind the flush loop, and all of it on the
\* disk at the end (cache_lookup, cache_flush_entry, disk_flush).
CacheConsistent ==
    /\ TypeOK
    /\ OneEntryPerBlock
    /\ CleanIsOnDisk
    /\ FlushedIsClean
    /\ NothingLostByShutdown
=============================================================================

------------------------------ MODULE FsCrash -------------------------------
(***************************************************************************)
(* Writes to files (kernel/fs/fs_writei.c, fs_balloc.c, iupdate) over what *)
(* the disk layer promises (BlockStore), with a loss of power between any  *)
(* two of the block writes that one call makes.  There is no log: which of *)
(* the bitmap, the index block, the data and the inode survive is up to    *)
(* the cache.  A file has one direct block and one behind an index block;  *)
(* a call writes one whole block; the kernel never frees one.              *)
(***************************************************************************)
EXTENDS Integers, Sequences, FiniteSets

CONSTANTS
    Inum,        \* the files; their inodes share a block
    DataBlocks,  \* numbers of the blocks for data and indexes
    Bitmap,      \* the block of the bitmap
    Inodes,      \* the block of the inodes
    Value,       \* contents of a data block
    MaxWrites,   \* bound on the calls of writei
    MaxLosses    \* bound on the losses of power

ASSUME FsCrashAssumption ==
    /\ DataBlocks \subseteq Nat \ {0}
    /\ Bitmap # Inodes /\ {Bitmap, Inodes} \cap DataBlocks = {}
    /\ 0 \notin Inum /\ Bitmap # 0 /\ Inodes # 0
    /\ MaxWrites \in Nat /\ MaxLosses \in Nat

VARIABLES
    store, durable, power,   \* the disk layer (BlockStore); power is its mode
    todo,       \* the block writes the running call has still to make
    writing,    \* its file, or none
    want,       \* the contents of each file, as its writers know them (not in the code)
    unsynced,   \* files written since the last orderly shutdown (not in the code)
    risky,      \* files a loss of power may have damaged (not in the code)
    writes, losses

fs == <<todo, writing, want, unsynced, risky, writes, losses>>
diskVars == <<store, durable, power>>
crashVars == <<diskVars, fs>>

FsBlocks == DataBlocks \cup {Bitmap, Inodes}

\* Block reads are part of the calls; a call whose read is refused is left out, so
\* the result of the last read is a constant here.
Disk == INSTANCE BlockStore WITH Blocks <- FsBlocks, Data <- {}, Failed <- 0,
                                 mode <- power, out <- 0

Zero == 0             \* a block of zeros, also an index block without entry
NoFile == 0

\* An inode: the size in blocks, the direct block and the index block; 0 is none.
NoInode == [size |-> 0, direct |-> 0, index |-> 0]

\* One type invariant for the module.
CrashTypeOK ==
    /\ store[Bitmap] \subseteq DataBlocks /\ durable[Bitmap] \subseteq DataBlocks
    /\ \A i \in Inum : /\ store[Inodes][i].size \in 0..2
                       /\ {store[Inodes][i].direct, store[Inodes][i].index} \subseteq DataBlocks \cup {0}
    /\ power \in {"run", "flush", "off", "panic"}
    /\ writing \in Inum \cup {NoFile}
    /\ unsynced \subseteq Inum /\ risky \subseteq Inum

CrashInit ==
    /\ durable = [b \in FsBlocks |-> CASE b = Bitmap -> {}
                                     [] b = Inodes -> [i \in Inum |-> NoInode]
                                     [] OTHER -> Zero]
    /\ store = durable
    /\ power = "run"
    /\ todo = <<>> /\ writing = NoFile
    /\ want = [i \in Inum |-> <<>>]
    /\ unsynced = {} /\ risky = {}
    /\ writes = 0 /\ losses = 0

-----------------------------------------------------------------------------
\* The blocks whose bit is clear, below sb.nblocks.
FreeBlocks(used) == DataBlocks \ used

FirstOf(S) == CHOOSE b \in S : \A c \in S : b <= c

\* balloc: the first free block is marked in the bitmap and cleared; none left
\* panics.  w is the state of the call: the bitmap it has read, the block it got
\* and the block writes so far.
balloc(w) ==
    IF w.full \/ FreeBlocks(w.used) = {} THEN [w EXCEPT !.full = TRUE]
    ELSE LET b == FirstOf(FreeBlocks(w.used))
         IN  [w EXCEPT !.used = @ \cup {b}, !.got = b,
                       !.todo = @ \o <<[b |-> Bitmap, d |-> w.used \cup {b}],
                                       [b |-> b, d |-> Zero]>>]

\* A block that exists, or a new one.
block_or_new(w, b) == IF b # 0 THEN [w EXCEPT !.got = b] ELSE balloc(w)

writes_to(w, b, d) == IF w.full THEN w ELSE [w EXCEPT !.todo = Append(@, [b |-> b, d |-> d])]

Call == [used |-> store[Bitmap], got |-> 0, full |-> FALSE, todo |-> <<>>]

\* iupdate: the block of the inodes with this one replaced.
iupdate(w, i, ip) == writes_to(w, Inodes, [store[Inodes] EXCEPT ![i] = ip])

Larger(a, b) == IF a > b THEN a ELSE b

\* The block writes of writei for block 0 of a file.
write_direct(i, v) ==
    LET ip == store[Inodes][i]
        w == block_or_new(Call, ip.direct)
    IN  iupdate(writes_to(w, w.got, v), i,
                [ip EXCEPT !.direct = w.got, !.size = Larger(@, 1)])

\* The same for block 1, with the index block, of which only the one cell is kept.
write_indirect(i, v) ==
    LET ip == store[Inodes][i]
        x == block_or_new(Call, ip.index)
        old == IF ip.index = 0 THEN 0 ELSE store[ip.index]
        w == block_or_new(x, old)
        linked == IF old = 0 THEN writes_to(w, x.got, w.got) ELSE w
    IN  iupdate(writes_to(linked, w.got, v), i, [ip EXCEPT !.index = x.got, !.size = 2])

\* writei is called for block n of a file that no loss of power has damaged; off
\* is at most its size.  A full disk panics after the writes that lead there.  The
\* bitmap may have lost marks with the power: a block that is allocated after that
\* may be one a damaged file still has, which is why none is written again.
writei(i, n, v) ==
    /\ power = "run"
    /\ writing = NoFile
    /\ writes < MaxWrites
    /\ i \notin risky
    /\ n <= store[Inodes][i].size
    /\ LET w == IF n = 0 THEN write_direct(i, v) ELSE write_indirect(i, v)
       IN  todo' = IF w.full THEN Append(w.todo, [b |-> NoFile, d |-> Zero]) ELSE w.todo
    /\ writing' = i
    /\ unsynced' = unsynced \cup {i}
    /\ want' = [want EXCEPT ![i] = IF n = Len(@) THEN Append(@, v) ELSE [@ EXCEPT ![n + 1] = v]]
    /\ writes' = writes + 1
    /\ UNCHANGED <<diskVars, risky, losses>>

\* The next block write of the call; any blocks may become durable meanwhile.
disk_write ==
    /\ todo # <<>>
    /\ Head(todo).b # NoFile
    /\ Disk!Write(Head(todo).b, Head(todo).d)
    /\ todo' = Tail(todo)
    /\ UNCHANGED <<writing, want, unsynced, risky, writes, losses>>

balloc_panics ==
    /\ todo # <<>>
    /\ Head(todo).b = NoFile
    /\ power = "run"
    /\ Disk!Panic
    /\ todo' = <<>>
    /\ UNCHANGED <<writing, want, unsynced, risky, writes, losses>>

writei_returns ==
    /\ power = "run"
    /\ writing # NoFile
    /\ todo = <<>>
    /\ writing' = NoFile
    /\ UNCHANGED <<diskVars, todo, want, unsynced, risky, writes, losses>>

\* shutdown or reboot, from a process that is not in a call.
in_order == writing = NoFile /\ Disk!Shutdown /\ UNCHANGED fs

\* disk_flush writes blocks back.
flushes == Disk!Sync /\ UNCHANGED fs

\* Mutated form of resets: before the flush is complete.
resets_early ==
    /\ power = "flush"
    /\ power' = "off"
    /\ unsynced' = {}
    /\ UNCHANGED <<store, durable, todo, writing, want, risky, writes, losses>>

\* disk_flush returns once all is written back; the machine is reset.
resets ==
    /\ Disk!PowerOff
    /\ unsynced' = {}
    /\ UNCHANGED <<todo, writing, want, risky, writes, losses>>

\* The device refuses a write of the cache.
disk_panics ==
    /\ todo # <<>> \/ power = "flush"
    /\ Disk!Panic
    /\ todo' = <<>>
    /\ UNCHANGED <<writing, want, unsynced, risky, writes, losses>>

switched_on == power = "off" /\ Disk!PowerCycle /\ UNCHANGED fs

\* The power fails, or a machine that has panicked is reset.
power_fails ==
    /\ power # "off"
    /\ losses < MaxLosses
    /\ Disk!PowerCycle
    /\ todo' = <<>> /\ writing' = NoFile
    /\ risky' = risky \cup unsynced
    /\ unsynced' = {}
    /\ losses' = losses + 1
    /\ UNCHANGED <<want, writes>>

CrashNext ==
    \/ \E i \in Inum, n \in 0..1, v \in Value : writei(i, n, v)
    \/ disk_write
    \/ balloc_panics
    \/ writei_returns
    \/ in_order
    \/ flushes
    \/ resets
    \/ disk_panics
    \/ switched_on
    \/ power_fails

CrashSpec == CrashInit /\ [][CrashNext]_crashVars

-----------------------------------------------------------------------------
\* What readi finds in a file.
Contents(i) ==
    LET ip == store[Inodes][i]
    IN  [k \in 1..ip.size |-> IF k = 1 THEN store[ip.direct] ELSE store[store[ip.index]]]

\* A file reads back as its writers left it, before and after every restart, as
\* long as it was not written between the last orderly shutdown and a loss of
\* power: disk_flush makes all of it durable, its blocks with their marks in the
\* bitmap, and later calls for other files touch only their own blocks and ones
\* without a mark.  fs_writei.c orders its block writes in no way that promises
\* more.  Files that may be damaged are never written again here (writing begins
\* only with files that are not risky): their index block may hold anything, and a
\* write through it could reach blocks of safe files.
SafeFilesIntact ==
    power = "run" => \A i \in Inum \ (risky \cup {writing}) : Contents(i) = want[i]

\* Loss of power at any block write leaves the layout well formed and the files that
\* were safe as they were, provided that damaged files are not written again (writei,
\* balloc, iupdate, disk_flush).
FilesSurvive ==
    /\ CrashTypeOK
    /\ SafeFilesIntact
=============================================================================

----------------------------- MODULE FileSystem -----------------------------
(***************************************************************************)
(* Files on the disk: the image builder (usr/mkfs.c) and the kernel's      *)
(* readi, writei, balloc, iget and iupdate (kernel/fs) with the calls of   *)
(* kernel/fs/fs.c around them.  An inode points to its blocks directly and *)
(* through one, two or three levels of index blocks.                       *)
(*                                                                         *)
(* The kernel is not preempted and inodes are not cached, so a call is one *)
(* step.  A block is a row of cells; a cell of a data block is a byte, a   *)
(* cell of an index block a block number, and 0 is the zero of both.       *)
(* Directories are files; looking up a path, which only reads, is left out.*)
(***************************************************************************)
EXTENDS Integers, Sequences, FiniteSetsExt

CONSTANTS
    Inum,           \* inode numbers in use
    OpenFile,       \* entries of file_table
    NDirect,        \* NDIRECT
    NInd,           \* NINDIRECT, the block numbers in an index block
    BlockSize,      \* BLOCK_SIZE, in bytes
    DataStart,      \* DATA_START: the blocks below hold the layout
    NBlocks,        \* sb.nblocks
    Offset,         \* offsets of fs_seek
    Payload(_, _),  \* what callers write to a file at an offset
    ReadLen         \* lengths of reads, and of writes, at most USER_COPY_CHUNK

NDInd == NInd * NInd
MaxFile == NDirect + NInd + NDInd + NDInd * NInd

\* A byte is a number; a write is of bytes, an offset unsigned; the layout is on
\* the disk and block 0 part of it; inode 0 is none.
ASSUME FileSystemAssumption ==
    /\ NDirect \in Nat /\ NInd \in Nat \ {0} /\ BlockSize \in Nat /\ NInd <= BlockSize
    /\ DataStart \in Nat \ {0} /\ NBlocks \in Nat /\ DataStart <= NBlocks
    /\ 0 \notin Inum
    /\ Offset \subseteq Nat /\ ReadLen \subseteq Nat
    /\ \A i \in Inum : \A off \in 0..(MaxFile * BlockSize) :
          \A s \in Payload(i, off) : s \in Seq(Nat)

VARIABLES
    phase,          \* "mkfs", "kernel", or "halted" by exit or panic
    inode,          \* inum -> size and addrs
    disk,           \* data and index blocks
    used,           \* the bitmap
    next_datablock, \* of mkfs
    file,           \* file_table: inum and off
    got             \* the bytes the last call has read

image == <<inode, disk, used>>
vars == <<phase, inode, disk, used, next_datablock, file, got>>

Addr == 0..(NDirect + 2)            \* indexes of Inode.addrs
Cell == 0..(BlockSize - 1)
Block == DataStart..(NBlocks - 1)

Zero == [c \in Cell |-> 0]
Closed == [inum |-> 0, off |-> 0]

Init ==
    /\ phase = "mkfs"
    /\ inode = [i \in Inum |-> [size |-> 0, addrs |-> [a \in Addr |-> 0]]]
    /\ disk = [b \in Block |-> Zero]
    /\ used = 0..(DataStart - 1)
    /\ next_datablock = DataStart
    /\ file = [f \in OpenFile |-> Closed]
    /\ got = <<>>

-----------------------------------------------------------------------------
(* The tree of a file.                                                     *)

\* The way to block n of a file: an index of addrs, then one of each index block.
Path(n) ==
    LET s == n - NDirect
        d == s - NInd
        t == d - NDInd
    IN  CASE n < NDirect -> <<n>>
          [] 0 <= s /\ s < NInd -> <<NDirect, s>>
          [] 0 <= d /\ d < NDInd -> <<NDirect + 1, d \div NInd, d % NInd>>
          [] OTHER -> <<NDirect + 2, t \div NDInd, (t % NDInd) \div NInd, (t % NDInd) % NInd>>

Smaller(a, b) == IF a <= b THEN a ELSE b

\* The way down a path: one step for each of its one to four indexes.
Walk(Down(_, _), top, path) ==
    LET a == Down(top, path[1])
        b == IF Len(path) < 2 THEN a ELSE Down(a, path[2])
        c == IF Len(path) < 3 THEN b ELSE Down(b, path[3])
    IN  IF Len(path) < 4 THEN c ELSE Down(c, path[4])

\* The place of the inode itself.
Top == -1

\* One pointer further.
Below(addrs, blocks, b, x) ==
    CASE b = Top -> addrs[x]
      [] b = 0 -> 0
      [] OTHER -> blocks[b][x]

\* The block that a path, or a part of one, leads to; 0 when there is none.
Follow(addrs, blocks, path) ==
    Walk(LAMBDA b, x : Below(addrs, blocks, b, x), Top, path)

Lookup(i, path) == Follow(inode[i].addrs, disk, path)

\* What a read of n bytes at off returns; a block that is missing ends it.
readi(i, off, n) ==
    LET size == inode[i].size
        len == IF off > size THEN 0 ELSE Smaller(off + n, size) - off
        block(k) == Lookup(i, Path((off + k - 1) \div BlockSize))
        missing == {k \in 1..len : block(k) = 0}
    IN  [k \in 1..(IF missing = {} THEN len ELSE Min(missing) - 1) |->
           disk[block(k)][(off + k - 1) % BlockSize]]

\* What iappend and writei work on: their copy of the inode's addrs and the
\* blocks of the disk, the place in the tree, and whether the blocks ran out.
Work(i) == [addrs |-> inode[i].addrs, disk |-> disk, used |-> used,
            next |-> next_datablock, at |-> Top, full |-> FALSE]

\* One level down the tree.  A missing block is made of b, which is zeroed, and
\* the pointer to it is stored where it was missing; b is 0 when there is none.
Descend(w, x, b) ==
    LET p == IF w.at = Top THEN w.addrs[x] ELSE w.disk[w.at][x]
    IN  CASE w.full -> w
          [] ~w.full /\ p # 0 -> [w EXCEPT !.at = p]
          [] ~w.full /\ p = 0 /\ b = 0 -> [w EXCEPT !.full = TRUE]
          [] OTHER ->
               [addrs |-> IF w.at = Top THEN [w.addrs EXCEPT ![x] = b] ELSE w.addrs,
                disk |-> [c \in Block |-> IF c = b THEN Zero
                                          ELSE IF c = w.at THEN [w.disk[c] EXCEPT ![x] = b]
                                          ELSE w.disk[c]],
                used |-> w.used \cup {b}, next |-> b + 1, at |-> b, full |-> FALSE]

\* Mutated form of Store: the rest of the block is not read first.
Store_blind(w, n, off, s) ==
    IF w.full THEN w
    ELSE [w EXCEPT !.disk[w.at] =
            [c \in Cell |-> LET k == n * BlockSize + c - off + 1
                            IN  IF k \in 1..Len(s) THEN s[k] ELSE 0]]

\* The bytes of s, written at off, that fall into block n of the file.
Store(w, n, off, s) ==
    IF w.full THEN w
    ELSE [w EXCEPT !.disk[w.at] =
            [c \in Cell |-> LET k == n * BlockSize + c - off + 1
                            IN  IF k \in 1..Len(s) THEN s[k] ELSE @[c]]]

-----------------------------------------------------------------------------
(* The blocks that are taken, and the loop over the blocks of a write, which   *)
(* the image builder and the kernel have alike.                                *)

mkfs_balloc(w) == IF w.next >= NBlocks THEN 0 ELSE w.next

balloc(w) ==
    LET free == (0..(NBlocks - 1)) \ w.used
    IN  IF free = {} THEN 0 ELSE Min(free)

taken(w) == IF phase = "mkfs" THEN mkfs_balloc(w) ELSE balloc(w)

Descended(w, x) == Descend(w, x, taken(w))

Reach(w, n) == Walk(Descended, [w EXCEPT !.at = Top], Path(n))

\* A turn of the loop: block n of the file is found or made, and filled.
Turn(w, n, off, s) == Store(Reach(w, n), n, off, s)

\* The turns for the blocks that bytes off .. off + Len(s) - 1 are in.
Turns(i, off, s) ==
    LET first == off \div BlockSize
        last == IF s = <<>> THEN first - 1 ELSE (off + Len(s) - 1) \div BlockSize
        turn[k \in 0..(last - first + 1)] ==
            IF k = 0 THEN Work(i) ELSE Turn(turn[k - 1], first + k - 1, off, s)
    IN  turn[last - first + 1]

-----------------------------------------------------------------------------
(* The image builder.                                                      *)

Appended(i, s) == Turns(i, inode[i].size, s)

\* Mutated form of iappend: the last block taken is not marked in the bitmap.
iappend_short(i, s) ==
    /\ phase = "mkfs"
    /\ LET off == inode[i].size
           w == Appended(i, s)
       IN  IF off + Len(s) > MaxFile * BlockSize \/ w.full
           THEN phase' = "exited" /\ UNCHANGED <<image, next_datablock>>
           ELSE /\ inode' = [inode EXCEPT ![i] = [size |-> off + Len(s), addrs |-> w.addrs]]
                /\ disk' = w.disk /\ used' = w.used \ {w.next - 1}
                /\ next_datablock' = w.next
                /\ UNCHANGED phase
    /\ UNCHANGED <<file, got>>

\* Without room, or past the longest file, the builder exits and writes no image.
iappend(i, s) ==
    /\ phase = "mkfs"
    /\ LET off == inode[i].size
           w == Appended(i, s)
       IN  IF off + Len(s) > MaxFile * BlockSize \/ w.full
           THEN phase' = "exited" /\ UNCHANGED <<image, next_datablock>>
           ELSE /\ inode' = [inode EXCEPT ![i] = [size |-> off + Len(s), addrs |-> w.addrs]]
                /\ disk' = w.disk /\ used' = w.used
                /\ next_datablock' = w.next
                /\ UNCHANGED phase
    /\ UNCHANGED <<file, got>>

\* The image is written and the kernel starts on it.
init_fs ==
    /\ phase = "mkfs" /\ phase' = "kernel"
    /\ UNCHANGED <<image, next_datablock, file, got>>

-----------------------------------------------------------------------------
(* The kernel.                                                             *)

writei(i, off, s) == Turns(i, off, s)

Larger(a, b) == IF a >= b THEN a ELSE b

iupdate(i, size, addrs) ==
    inode' = [inode EXCEPT ![i] = [size |-> size, addrs |-> addrs]]

\* A write past the end, or past the longest file, is refused.  When the blocks
\* run out balloc panics: the disk is as far as the loop got, and the inode is
\* as it was.
fs_write(f, s) ==
    /\ phase = "kernel" /\ file[f] # Closed
    /\ LET i == file[f].inum
           off == file[f].off
           w == writei(i, off, s)
           refused == off > inode[i].size \/ off + Len(s) > MaxFile * BlockSize
       IN  IF refused THEN UNCHANGED <<image, phase, file>>
           ELSE /\ disk' = w.disk /\ used' = w.used
                /\ IF w.full
                   THEN phase' = "panicked" /\ UNCHANGED <<inode, file>>
                   ELSE /\ iupdate(i, Larger(off + Len(s), inode[i].size), w.addrs)
                        /\ file' = [file EXCEPT ![f].off = off + Len(s)]
                        /\ UNCHANGED phase
    /\ got' = <<>>
    /\ UNCHANGED next_datablock

fs_read(f, n) ==
    /\ phase = "kernel" /\ file[f] # Closed
    /\ got' = readi(file[f].inum, file[f].off, n)
    /\ file' = [file EXCEPT ![f].off = @ + Len(got')]
    /\ UNCHANGED <<image, phase, next_datablock>>

fs_open(f, i) ==
    /\ phase = "kernel" /\ file[f] = Closed
    /\ file' = [file EXCEPT ![f] = [inum |-> i, off |-> 0]]
    /\ got' = <<>>
    /\ UNCHANGED <<image, phase, next_datablock>>

fs_close(f) ==
    /\ phase = "kernel" /\ file[f] # Closed
    /\ file' = [file EXCEPT ![f] = Closed]
    /\ got' = <<>>
    /\ UNCHANGED <<image, phase, next_datablock>>

\* Any offset is accepted, past the end too.
fs_seek(f, off) ==
    /\ phase = "kernel" /\ file[f] # Closed
    /\ file' = [file EXCEPT ![f].off = off]
    /\ got' = <<>>
    /\ UNCHANGED <<image, phase, next_datablock>>

Next ==
    \/ \E i \in Inum : \E s \in Payload(i, inode[i].size) : iappend(i, s)
    \/ init_fs
    \/ \E f \in OpenFile :
          \/ \E i \in Inum : fs_open(f, i)
          \/ fs_close(f)
          \/ \E off \in Offset : fs_seek(f, off)
          \/ \E s \in Payload(file[f].inum, file[f].off) : fs_write(f, s)
          \/ \E n \in ReadLen : fs_read(f, n)

Spec == Init /\ [][Next]_vars

-----------------------------------------------------------------------------
(* Properties.                                                             *)

\* One type invariant for the module.
TypeOK ==
    /\ phase \in {"mkfs", "kernel", "exited", "panicked"}
    /\ inode \in [Inum -> [size : 0..(MaxFile * BlockSize), addrs : [Addr -> 0..(NBlocks - 1)]]]
    /\ disk \in [Block -> [Cell -> Nat]]
    /\ used \subseteq 0..(NBlocks - 1)
    /\ file \in [OpenFile -> [inum : Inum \cup {0}, off : Nat]]
    /\ \A f \in OpenFile : file[f] = Closed \/ file[f].inum \in Inum

\* The places in the tree of a file that m blocks of data fill.
Prefixes(n) == {SubSeq(Path(n), 1, k) : k \in 1..Len(Path(n))}
Filled(m) == UNION {Prefixes(n) : n \in 0..(m - 1)}

Places(i) == Filled((inode[i].size + BlockSize - 1) \div BlockSize)

Owned == UNION {{<<i, p>> : p \in Places(i)} : i \in Inum}

\* A data or index block belongs to one place of one file, across what mkfs built
\* and what the kernel added.
NoBlockShared ==
    \A x, y \in Owned : Lookup(x[1], x[2]) = Lookup(y[1], y[2]) => x = y

\* The bitmap marks the blocks of the files and no others, so none is handed out
\* twice and none is lost.
BitmapExact ==
    phase \in {"mkfs", "kernel"} =>
        used \ (0..(DataStart - 1)) = {Lookup(x[1], x[2]) : x \in Owned}

\* What the abstract specification sees: whole files, and that the program has ended.
Content == [i \in Inum |-> readi(i, 0, inode[i].size)]

Stage == IF phase \in {"exited", "panicked"} THEN "halted" ELSE phase

Files ==
    INSTANCE FileStore WITH
        content <- Content, phase <- Stage, MaxBytes <- MaxFile * BlockSize

\* Through direct, single, double and triple index blocks, appends of mkfs,
\* overwrites, extensions and refused writes, files are sequences of bytes.
ImplementsFileStore == Files!Spec

\* What the comment of balloc says: running out of space is reported.
FullDiskReported == phase # "panicked"

\* Every block has one owner and the bitmap knows it, in the builder and in the
\* kernel (mkfs balloc, iappend, balloc, writei).
BlocksConsistent ==
    /\ TypeOK
    /\ NoBlockShared
    /\ BitmapExact
=============================================================================

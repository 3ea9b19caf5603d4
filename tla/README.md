# TLA+ models of APO-OS

APO-OS is a small RISC-V operating system for QEMU: one hart, a kernel that is
never preempted, up to eight user processes under a round-robin scheduler, a
file system on a VirtIO disk behind a write-back cache, pipes, and VirtIO
devices for the desktop. This directory holds TLA+ models of its parts, the
TLC runs that check them on small instances, and TLAPS proofs of the main
results for every size of the tables.

Paths below are relative to the root of the repository.

## 1. Inventory

### What runs concurrently

There is one hart and traps run with interrupts off (`kernel/irq/trap.S`,
`handler.c`), so the kernel itself has no data races: a system call or a timer
trap is one indivisible step. Processes interleave between traps. What makes
the system hard is therefore not locking but

- *sequences of calls by several processes* on shared tables of fixed size
  (process slots, open files, pipes), in which slot numbers are names and are
  reused;
- *loops that span several steps*: the yield-and-retry loop of `waitpid` in the
  user library, the chunked loops of `read` and `write`;
- *state kept in two places*: cache and disk, a child's `parent_pid` and its
  parent's `sub_procs`, a file's reference count and the descriptors that refer
  to it, a pipe's counters and its open ends, the bitmap and the index blocks;
- *limits and failures*: full tables, a full disk, memory that runs out half
  way through a call, a device that refuses a request, loss of power;
- *devices*, which do run beside the kernel: they fill buffers, give them back
  in their own order and raise interrupts while the driver looks elsewhere.

### Components

| Component | State | Operations | Interacts with | Correct when |
|---|---|---|---|---|
| Process table and scheduler (`kernel/proc/proc.c`, `kernel/irq/handler.c`) | `PCBs[8]`, `current_proc`, the clock | fork, exit, kill, wait, sleep, yield, timer trap | every system call; the library's `waitpid` loop | a live process runs, nobody starves, family links are consistent across slot reuse, a zombie's status is kept until it is fetched |
| Descriptors, open files, pipe slots (`kernel/fs/fs.c`, `kernel/system/syscall.c`) | `fd_table` per process, `file_table[100]`, `pipe_table[16]` | open, close, pipe, dup, dup2; fork and exit | process table | reference counts are exact; an open pipe end keeps its pipe |
| Pipe data (`kernel/fs/fs.c`, `syscall.c`) | ring of 16384 bytes, two positions, a count | chunked read and write, create, close | descriptors | it is a bounded byte queue |
| File system (`kernel/fs/fs_*.c`, `fs.c`) | inodes, index blocks, bitmap, offsets | open, close, read, write, seek, `balloc` | disk cache | a file is a byte sequence; no block has two owners |
| Image builder (`usr/mkfs.c`) | the disk image | `iappend`, `balloc` | produces what the kernel boots from | the kernel reads what was put in |
| Disk cache (`kernel/disk/disk.c`, `kernel/system/system.c`) | 128 entries with LRU stamps, dirty bits | read, write, flush at shutdown and reboot | block driver | it is a block store; an orderly shutdown loses nothing |
| VirtIO queues (`kernel/device/virtio.c`, `disk.c`, `virtio_gpu.c`) | descriptors, avail and used rings with 16-bit indices | submit and poll | device | the answer waited for is the one that comes |
| Program loader (`kernel/proc/loader.c`, `sys_execve`) | the new address space | exec | file system, memory | the image is the file's, and the arguments arrive |
| Memory (`kernel/memory/memory.c`, `proc.c`, `syscall.c`) | free list, page tables | `kalloc`, `kfree`, fork's copy, brk, mmap, munmap, exit | processes, display | a page is in one place |
| Input (`kernel/device/virtio_input.c`, `device.c`) | ring of 128 events, posted buffers, the focus | interrupt, filtered read, focus | desktop, programs | keys arrive in order at whoever has the focus, and the ring drains |
| Sound (`virtio_sound.c`) | transmit slots and descriptors | write, reclaim | device | a slot is not reused before it was played |
| Display (`virtio_gpu.c`, `virtual_gpu.c`) | shadow frame buffers, dirty rectangles | draw, sync | desktop | every change reaches the screen |
| Desktop (`usr/apps/desktop`) | windows, focus, damage list | launch, close, focus, drag, compose | processes, display, input | windows match processes; a program's picture is shown |
| User libraries (`usr/libs/libndl`, `libminiSDL`, `libam`) | pending sound, pressed keys, damage | poll, play, draw | device files | sound is fed and not cut, keys are not stuck, damage is handed on |
| File manager (`usr/apps/files`) | list, selection, path | keys | file system, `libam` | what is listed belongs to the path |

Parts that are not modelled, with the reasons, are at the end (section 7).

## 2. Modules

| Module | Models | Used by |
|---|---|---|
| `Proc` | process table, scheduler, `waitpid` loop | `MCProc`, `ProcProofs` |
| `Files` | descriptors, open files, pipe slots | `MCPipes`, `PipesProofs` |
| `ByteQueue` | abstract: a bounded queue of bytes | `PipeBuffer` |
| `PipeBuffer` | ring buffer and chunked loops | `MCPipes`, `PipesProofs` |
| `BlockStore` | abstract: a block store with volatile and durable contents | `DiskCache`, `FsCrash` |
| `DiskCache` | write-back LRU cache, shutdown | `MCDisk`, `DiskProofs` |
| `FileStore` | abstract: files as byte sequences | `FileSystem` |
| `FileSystem` | index blocks, bitmap, inode; image builder | `MCFileSystem`, `FileSystemProofs` |
| `FsCrash` | the block writes of `writei` over a `BlockStore` that loses power | `MCDisk`, `DiskProofs` |
| `Lookup` | names in directories (`mkfs`) and path lookup (`fs_open`) | `MCPrograms`, `ProgramsProofs` |
| `AddrSpaces` | page allocator and page tables | `MCPrograms`, `ProgramsProofs` |
| `Exec` | arguments, stack and segments of a new program | `MCPrograms`, `ProgramsProofs` |
| `Virtqueue` | one request over a VirtIO queue | `MCAudio`, `SoundProofs` |
| `EventQueues` | abstract: key and pointer queues with a common bound | `InputQueue`, `Keys` |
| `InputQueue` | input devices, interrupt, event array, focus | `MCInput`, `InputProofs` |
| `Keys` | two libraries and the desktop on top of `EventQueues` | `MCInput`, `InputProofs` |
| `SoundStream` | abstract: frames taken are played, in order, once | `SoundTx` |
| `SoundTx` | transmit queue of the sound driver | `MCAudio`, `SoundProofs` |
| `AudioPump` | `SDL_UpdateAudio` and NDL's reckoning of pending sound | `MCAudio`, `SoundProofs` |
| `DamageList` | the list of damaged rectangles, in its four copies | `AppDamage` |
| `AppDamage` | a program's damage on its way to the desktop | `MCDisplay`, `DisplayProofs` |
| `Desktop` | main loop, windows, focus, picture buffers | `MCDesktop`, `MCDisplay`, `DisplayProofs` |
| `FileList` | the file manager | `MCPrograms`, `ProgramsProofs` |
| `*Proofs` | theorems and proofs | |
| `MC*` | constants for TLC | the `.cfg` files |

Most `MC` modules take several modules together, so that one run asks what can be
asked of one path through the system: `MCPipes` (descriptors and pipe data),
`MCDisk` (the cache, and files over what it promises), `MCPrograms` (path, image,
pages, file manager), `MCInput` (driver and libraries), `MCAudio` (control
requests, transmit queue, library) and `MCDisplay` (damage and desktop). The
modules taken together share no variable. A variable `part`, chosen in the first
state, says whose steps are taken; the others rest in one of their first states.
TLC thus explores the sum of their state spaces and not the product, every
behaviour of every one of them (but for the drags and the execs that `MCDisplay` leaves out) is
among the behaviours explored, and a property of one of them means what it means
alone. Fairness is that of each module; where a
resting part would owe a step, its fairness is restated for the part whose turn
it is.

A definition named like a function of the source is that function. A definition
commented *Mutated form of ...* is the same operation with a plausible bug; it
is never part of a specification and serves to show that a property notices
the bug.

### Proc

`PCBs`, `current` and `now` are the table, `current_proc` (as a pid) and
`timer_get_time()`. `cp` of a PCB only records that a saved context exists.
`panic` is set where the kernel calls `panic()`; it halts the model, as it halts
the machine. `upc` and `target` say where the *program* is: in its own code or
in the library's `waitpid`, which tries, yields and retries.

Each trap is an action, with the scheduling at its end: `proc_fork_current`,
`sys_exit`, `proc_kill_self`, `proc_kill_pid`, `proc_sleep_current`,
`sys_yield`, the four outcomes of a try of wait (`wait_reaps`, `wait_blocks`,
`wait_fails`, `wait_yields`), `timer_trap`. `schedule` wakes overdue sleepers,
then takes the first runnable slot after the current one, and panics if there
is none. `ForkPanics` and `ExecPanics` are the calls that halt the kernel when
memory runs out or a program cannot be loaded.

### Files

`fd_table`, `file_table` and `pipe_table` as in the kernel, with names and
offsets left out. `fs_close`, `fs_dup` and `pipe_maybe_free` act on a record of
both tables, so that a call that closes several descriptors (exit, dup2) is
their composition; `close_all` and `dup_all` are the loops over the descriptors of
a process, as functions of how far the loop has come. Failing calls give back what they took and have no action.
`MaxEnds` bounds the counters of a pipe, which the code never resets while the
slot is in use.

### PipeBuffer and ByteQueue

One pipe slot: `buf`, `rpos`, `wpos`, `count`; whether an end is open; and the
system call that runs on it. A turn of the loop in `sys_read` or `sys_write` is
a step (`pipe_read`, `pipe_write`) that moves at most `CopyChunk` bytes and
leaves the loop when it falls short. `got` and `todo` are the bytes copied to,
and still to come from, the caller; the abstract queue has the same two
variables, so refinement says which bytes arrive, in which order.

### DiskCache and BlockStore

`block_cache`, `clock` and `disk` are the cache entries, the LRU clock and the
medium. Reads and writes are split by outcome: hit, miss, refused by the
device. `shutdown` enters the loop of `disk_flush`, one entry per step, and
`system_reset` follows it; `power_cycle` may happen at any moment and empties
the cache. The block store has a volatile and a durable copy of every block;
the cache implements it with the volatile copy mapped to the entry of the
block, or the disk if there is none.

### FileSystem and FileStore

`inode`, `disk` and `used` are the inodes, the data and index blocks, and the
bitmap. `Path` is the index arithmetic of `readi`, `writei` and `iappend`: which
entry of `addrs` leads to a block, and which entry of each index block below.
`Descend` goes down one level and fills in a missing pointer with a block of the
allocator in charge, `mkfs_balloc` or `balloc`, and `Walk` takes the one to four
steps of a path; `Store` is the read-modify-write of one block. A `Turn` of the
loop is both, and a call is the row of its turns (`Turns`), which the builder and
the kernel have alike. The model starts in the image builder, which appends to files, and
boots the kernel on its image.

A block is a row of cells. In a data block a cell is a byte, in an index block
a block number; a model block may hold fewer pointers than bytes, as a real one
does. Writes come from `sys_write` in pieces of at most `USER_COPY_CHUNK`, so
`off + n` cannot wrap around and that test of `writei` is left out.

### FsCrash

`FsCrash` puts the block writes of one `writei` (bitmap, index block, data,
inode) as single steps on top of `BlockStore`, the abstract specification that
`DiskCache` is proved to implement, instantiated with variables of its own.
`PowerCycle` may come between any two steps. A file is *safe* unless it was written
between the last orderly shutdown and a loss of power; `SafeFilesIntact` says that
what a safe file holds is what was written to it. Others may be damaged (`risky`):
the bitmap may lack the mark of a block they use, so a later allocation may give
it out again. Damaged files are not written again in the model, since their index
block may hold anything.

### Lookup

`mkfs` stores names with `strncpy` into `DIRSIZ` characters, `skipelem` copies an
element into a buffer of that size, cut and ended by NUL, and `fs_open` compares
the arrays. A step is one element or one directory entry, with the buffer kept
from element to element as in the code. Below `/device` the name is kept as the
device's. A name of `DIRSIZ` characters or more is stored without a NUL while the
kernel ends the element it looks for, so such a file is on the image and cannot be
opened; `LookupExact` speaks of shorter names. Its reference, `Elements`, reads the
path on its own: `Behind[k]` is what is left of it behind `k` elements, however
many slashes stand between them.

### AddrSpaces

`free` is the free list; `root`, `l1`, `l0` and `pte` are the tables of a process
and what they map; `op` is the call in progress, one page per step, so that
`kalloc` can fail at each. `lost` collects pages no table leads to. mmap of the
frame buffer maps pages that belong to the display (`Shared`) and are never freed.
A call that fails may lose pages, but only when memory is used up
(`LostOnlyAtTheEnd`). brk does not look where the mappings begin:
`PanicJustified` says that this is the only way to the panic on a remap.

### Exec

`copy_args` cuts the argument vector as `sys_execve` does, `build_stack` and
`put_string` lay it out as `context_uload` does, `load_page` is a turn of the
loader's loop over a segment. `ArgsArrive` reads the result the way `call_main`
does. Two segments that share a page make `map_pages` panic;
`PanicOnlyIfShared` says nothing else does. The environment is always empty.

### Virtqueue

`virtio_submit_and_poll`: the driver fills a chain, publishes it and spins until
the used index moves, without comparing the entry with its own. The device takes
and answers in its own time. `NothingLeftOver` is why that is enough.

### InputQueue, EventQueues and Keys

`q` is the array between `q_head` and `q_tail`; `remove_event_at` closes the gap.
The device raises its interrupt with every buffer it gives back; a turn of the
polling loop and the acknowledgement are steps of their own, between which the
device goes on (`SilentOnlyAfterAck`). A read filters by who reads and who has
the focus. `EventQueues` is the promise: two queues with a common bound. `Only`
keeps the events of a set and their order; it says what a read leaves and what
each of the queues is.

`Keys` takes that promise as the kernel and adds a program (`prog`) that uses
miniSDL's `key_state` or libam's ring with `pump_input_events`, whose reads are
system calls that others come between. Keys go to whoever has the focus when it *reads*. `missed` and
`dropped` record, for the properties only, whose last event went elsewhere: a key
held while the focus moves stays pressed for the program that lost it, and
`KeyStateTrue` says that this and a full queue are the only ways.

### SoundTx, SoundStream and AudioPump

`in_use` and `d0` of a slot, the free descriptors, and four places a buffer can
be: handed over, taken, played, given back in any order. `audio_write` reclaims,
takes a slot and three descriptors, and gives them back if there are too few.
`SoundStream` is what the file promises: the frames of a write that it says it took
are played, write by write in that order, and no others.

`AudioPump` is the other end: `SDL_UpdateAudio` calls the program's callback until
two buffers are pending, where pending is reckoned from the clock. NDL first looks at
the clock (`NDL_PlayAudio`) and then writes (`play_write`); other processes run in
between, and if the device falls silent meanwhile, the reckoning later counts that
time as played. The estimate may therefore be ahead of the device, by the frames of
one such gap (`Lag`), and `EstimateCovers` says that it is never more than that
however many writes come late. `MaxGap` is the longest gap the properties allow for.
The assumption is that the driver's slots hold one buffer more than that many late
frames leave in it. In the source a buffer of 1024 stereo samples is one of five slots:
a gap of two buffers' time (46 ms at 44100 Hz) is allowed for. With 2048 samples half
buffers would be lost. The program's rate is not above the device's
(`LibTicks >= DevTicks`).

The frames consumed since the last look pass through an `int`. Behind `MaxSince` the
model no longer counts time, and what the cast makes of the frames is any `int`: the
pending frames may go down, up or below zero. `unsure` marks the queues for which
nothing is promised: what began behind a longer gap, what another program or an
earlier opening left there, and what was written while an overflow was in the
reckoning. NDL rounds down at every look: a program that polls more often than once a
frame never sees anything played, hence the fairness assumed.

### DamageList and AppDamage

The code has one algorithm four times; `owner` says whose list it is, and the
desktop's differs when it is full. The inner loop is a step per turn. `owed` is what
has been marked since the last flush, `lost` what two slips drop: the merge loop
moves the last rectangle into the gap even if the one that grows *is* the last,
and `add_damage_rect` keeps only the first rectangle of a full list.
`AppDamage` follows a library's list through the kernel's one rectangle per
program, which `fbsync_write` grows by one rectangle of the list after another, to
the desktop's read; `NothingDropped` says that nothing gets lost but
by these slips.

### Desktop

A step of the main loop has one system call that others can see; programs start,
map their buffer, draw, fork, exec and end between any two. `foreign` has the slots
whose pages may still hold the picture of an earlier process, `moved` records that
the layout changed since all was drawn. The kernel's limit of children (4) is below
the desktop's of windows (7), so `launch_app` always finds a window.

A picture comes to the screen on three ways: with a frame of everything (`frame`),
with a frame of all windows when the list of damage is empty (`windows`), or with the
rectangles of the list, one after the other (`damage`). The module keeps the number of
rectangles only (`damages`), and `collects` what `add_damage_rect` may make of it: any
merging, and, once there are two rectangles besides a new one, the two slips that
`DamageList` has in detail, which may leave out the damage of any program. `unshown`
has the programs whose damage the desktop has taken from the kernel and not shown,
`dropped` those of them that a slip or a buffer that could not be mapped has left
out: the mask is cleared for them all the same, and only a frame of all windows
makes good for them. `mmap_child_fb` may fail for a program that has no buffer, and at any time
for want of a file, a page or an address. `NothingForgotten` says that `unshown` stays
in the mask but for `dropped`; `PictureIsShown` that all the rest comes to the screen.

### FileList

Keys of the list and of the view; a directory is loaded in one step, in which
open may fail, or stat for some entries, since the kernel's table of open files
is shared. A name is a number in the order of `strcmp`, a path the sequence of
its names. The list is read as the row of lists behind each entry of the directory
(`read_entry`), and sorted as the row of lists behind each insertion.

## 3. Runs

| Run | Instance | Checks |
|---|---|---|
| `proc_family` | 4 processes, 2 children each | `FamilySound`, `WaitStaysValid`, `ZombieKept`, `ZombieLostForEver` |
| `proc_live` | 3 processes, sleeping, fair | `TypedAndRunning`, `SchedulerSound`, `EveryoneRuns`, `WaitersServed` |
| `pipes` | 2 processes, 2 descriptors, 4 files, 2 pipes | `FilesConsistent`, `LostPipeStaysLost` |
| | ring of 3, chunk of 2, calls up to 4, fair | `RingConsistent`, `ImplementsByteQueue`, `CallsReturn` |
| `files_pipe_leak` | the same with 1 pipe | `PipeAvailable` (violated) |
| `disk` | 2 entries, 3 blocks, 2 data, fair | `CacheConsistent`, `ImplementsBlockStore`, `LastUsedStays`, `ShutdownEnds` |
| | 2 files, 3 blocks, 3 writes, 2 losses of power | `FilesSurvive` |
| `file_system` | 2 files, 2 open files, 26 data blocks, all index levels, longest file 30 bytes | `BlocksConsistent`, `ImplementsFileStore` |
| `file_full` | 3 blocks | `FullDiskReported` (violated) |
| `programs` | entries of 3 characters, names up to 2, all paths up to 4 | `LookupExact` |
| | up to 2 segments around the edges of 3 pages; up to 4 arguments of up to 4 characters, 3 of 3 kept | `ProgramExact` |
| | 2 processes, 13 pages, 6 addresses in 3 regions | `PagesConsistent`, `LostOnlyAtTheEnd` |
| | 4 directories, 2 lines, lists of 5 | `ListConsistent` |
| `input` | 3 events of room, 2 buffers, an event of each class, 2 processes, fair | `BuffersConsistent`, `ImplementsEventQueues`, `InputGoesOn` |
| | queue of 1, ring of 2, 2 reads a turn, 2 keys, fair | `KeysTrue`, `ReleaseArrives` |
| `audio` | 4 descriptors, indices modulo 8, fair | `OwnAnswers`, `AudioGoesOn` |
| | 2 slots, 7 descriptors, fair | `SlotsConsistent`, `ImplementsSoundStream`, `AudioGoesOn` |
| | buffers of 2 slots, 6 slots, writes up to 2 ticks late, fair | `PumpSafe`, `AudioGoesOn` |
| `desktop` | 3 processes, 2 windows, bursts of 2, 2 rectangles | `WindowsTrue`, `PicturesTrue` |
| `display` | 3 rectangles on 5 x 3, three owners, fair | `DamageConsistent`, `DamageComesThrough` |
| | 3 processes, 2 windows, bursts of 1, 2 rectangles, no drags or execs, fair | `DesktopKeepsUp` |

A property of a run is often the conjunction of the named parts that say one thing
about a component, its type invariant included:

| Property | Parts |
|---|---|
| `FamilySound` | `FamilyConsistent`, `FamilyAcyclic` |
| `TypedAndRunning` | `TypeOK`, `CurrentRuns` |
| `SchedulerSound` | `ContextIffLive`, `IdlePanicJustified` |
| `EveryoneRuns` | `NoStarvation`, `SleepersWake` |
| `FilesConsistent` | `FilesTypeOK`, `RefsExact`, `DeadHoldNothing`, `PipeEndsCovered` |
| `RingConsistent` | `TypeOK`, `PositionsAgree`, `ShortOnlyAtLimit` |
| `CacheConsistent` | `TypeOK`, `OneEntryPerBlock`, `CleanIsOnDisk`, `FlushedIsClean`, `NothingLostByShutdown` |
| `FilesSurvive` | `CrashTypeOK`, `SafeFilesIntact` |
| `BlocksConsistent` | `TypeOK`, `NoBlockShared`, `BitmapExact` |
| `ProgramExact` | `ImageExact`, `PanicOnlyIfShared`, `StackFits`, `ArgsArrive` |
| `PagesConsistent` | `TypeOK`, `OneUse`, `TablesLead`, `PanicJustified`, `GapUnmapped` |
| `ListConsistent` | `SelectedShown`, `ListIsOfPath`, `ListSorted`, `PathsExist` |
| `BuffersConsistent` | `TypeOK`, `SilentOnlyAfterAck` |
| `InputGoesOn` | `RoomReturns`, `DeadFocusFallsBack` |
| `KeysTrue` | `KeysTypeOK`, `KeyStateTrue`, `ViewTrue` |
| `OwnAnswers` | `QueueTypeOK`, `AnswerIsOurs`, `NothingLeftOver` |
| `SlotsConsistent` | `TypeOK`, `DescOwned`, `InUseIsInFlight`, `AllocSuffices` |
| `PumpSafe` | `PumpTypeOK`, `EstimateCovers`, `NothingCut` |
| `AudioGoesOn` | `RequestReturns`, `FullIsTemporary`, `SoundGoesOn` |
| `WindowsTrue` | `TypeOK`, `WindowsAreChildren`, `KeysGoToWindow`, `FocusAgrees` |
| `PicturesTrue` | `NoForeignPicture`, `DamageIsEnough`, `NothingForgotten` |
| `DamageConsistent` | `DamageTypeOK`, `BoxOK`, `NothingDropped` |
| `DamageComesThrough` | `MergeEnds`, `DrawnIsHandedOver` |
| `DesktopKeepsUp` | `PictureIsShown`, `ZombiesGo` |

A run takes at most about three minutes with two workers.

### Why the bounds are enough

*Processes.* Family links involve a process, its parent, and whoever takes a
slot one of them left. Four slots hold a grandparent, parent, child and a
stranger that reuses a slot; two entries in `sub_procs` fill up and have a
first and a second position. Sleeping multiplies the states and does not touch
the links, so it has a run of its own with three processes and a short clock.

*Files.* Two processes share files through fork, and two descriptors each are
enough for dup2 onto the other end of a pipe. Four files and two pipe slots let
every table run out at every point of `pipe()`.

*Pipe.* Three bytes of ring, chunks of two and calls of four: chunks do not
divide the ring, calls are longer than it, and every position is passed. The
proofs cover the other sizes.

*Cache.* Two entries for three blocks make every third access evict. The clock
bound `MaxClock` leaves five accesses between two losses of power.

*File system.* With one direct block and two pointers per index block the longest
file has fifteen blocks over all four kinds of address and eleven index blocks;
the disk has just these 26. Two writes of thirteen bytes cross all levels, one
after a seek ends exactly at the longest file, the next is refused; a second file
makes the disk run out at many points of a growing one. Bytes carry the file and
offset they were written for, which keeps the states few and still shows any byte
that ends up elsewhere; the first bytes of one file come in two kinds, so that an
overwrite is visible. The two entries of `file_table` are alike (`SYMMETRY`):
nothing looks at which of them is used.

*Power.* Two losses let a file be damaged by the first and another be drawn in
by allocating after it; three blocks for two files that want three each fill the
disk. *Lookup.* An element may be longer than an entry, with any
number of slashes around it; nothing in the code depends on more than the
comparison with `DIRSIZ`.

*Pages.* A fresh process takes six of the thirteen pages, so memory ends at
every page of every call. Six addresses in three regions make heap, mappings and
stack meet. States that differ only in which page is where count once (`VIEW`):
the code never looks at a page's address but to find it again.

*Queues.* Indices modulo eight wrap twice round four descriptors. Three events
of room let one be taken from the middle across the wrap. One event of each class
is enough for TLC: pointer events and frame marks are one queue, so two that
change places are seen, and `InputIsQueues` holds for any events. The ring of `libam`
fills up because two are moved in for one taken out. Two sound slots come back
in either order; as with the driver's own numbers there are more than three
descriptors for each slot, and `AllocSuffices` says that they never run out.

*Sound.* Two slots a buffer, the device's own rate and exactly the slots that the
assumption asks for leave the reckoning nothing to spare but the lag of a late write,
here one frame. `MaxGap` of two ticks lets the device fall silent between look and
write. `MaxSince` is just above the time in which everything pending has been played,
and `IntMax` just large enough to hold it, so that an overflow is met soon. The proofs
cover other sizes, slots that a buffer does not fill among them.

*Rectangles.* Three rectangles and a handful of marks let a merge swallow any
of the others, including the last, and let the list run full.

*Desktop.* Three slots hold the desktop and two programs of its own, or one and
a child without a window, and each slot is taken again: two programs may draw, or be
over, at once. Two rectangles are enough for a list that is merged, full or lost. The
liveness run leaves drags out, which do to `ui_dirty` and `moved` what a click does too,
and execs of programs that have a buffer, which give up their marks and what is still to
be shown; `desktop` has both.

*File manager.* More entries than lines and more than the list has room for, and
an empty directory among them.

### Fairness

`proc_live` assumes that the timer keeps firing (`timer_set_next` arms it at
every trap, 10 ms ahead), that the clock goes on until its bound, and strong
fairness of the `waitpid` loop of each process: a program in the loop is in no
code that could stop, but takes a step only while it is scheduled, which
happens again and again. Nothing is assumed of programs in their own code.
`pipes` and `disk` assume that a loop of the kernel that has
begun goes on, since nothing preempts it; for the cache this includes that the
device answers. A refused write ends the flush in a panic, which
`ShutdownEnds` admits.

Devices serve what they were given (`audio`): weak fairness of each
of their steps. In `input` the handler runs to its end, and again and again
the polling loop is idle, since a person is slower than the loop; strong fairness
of reads says that every live process reads now and then, whatever the focus does
in between. Programs poll while they have the focus.
`display` assumes that a program syncs what it draws and the desktop polls; the
sync has strong fairness because the merge loop comes between. There, too, the
main loop of the desktop goes on (`Turn`, weak fairness), and a frame falls due again
and again when there is something to draw (`render_damage`, strong fairness), since
bursts are bounded and the clock moves. `audio` assumes that a program polls again and
again at least a frame of sound after its last poll (`InTime`), as programs that draw
between two polls do, and in the long run less than hours after it: without a bound
the cast could make the reckoning larger at every look. In all of
these nothing is assumed of the user.

### What the violated runs show

*A duplicated pipe end is never counted down.* `fs_dup` adds one to the counter
of a pipe end with each duplicate, `fs_close` subtracts one only when the last
reference goes. After fork or dup the pipe keeps its slot for ever
(`LostPipeStaysLost` states exactly that and holds), and after sixteen of them
`pipe()` fails although none is open. `syscall-extended-smoke.c` asserts that
`pipe()` succeeds.

*A full disk halts the machine.* The comment of `balloc` says it returns 0 when
the disk is full; it panics. Its callers do not look at the result.

Two more results are stated as properties that hold and that a reader may not
expect: `ZombieLostForEver` (a zombie whose parent is gone keeps its slot) and
`IdlePanicJustified` (the kernel panics when all processes sleep, only then).

## 4. Hazards

`PROJECT.json` lists what is hard to test, at its line, with the properties that
would notice. In short: reuse of slots as names (Proc, Desktop, InputQueue),
counters that must agree with descriptors (Files), wrap-around and chunking
(PipeBuffer, Virtqueue, InputQueue, Keys), stale or lost blocks between memory
and disk (DiskCache, FsCrash), index arithmetic and ownership (FileSystem,
AddrSpaces, SoundTx), lists edited under a running loop (DamageList, Desktop),
what an estimate by the clock hides (AudioPump), and layouts at the edge of a page
or an entry (Exec, Lookup). One has no property: `readi` and `writei` use an
uninitialised buffer when the disk refuses a read, after which nothing can be
promised of the files.

## 5. Proofs

All proofs are for arbitrary constants that satisfy the named assumptions:
`TableAssumption`, `ProgramAssumption`, `ClockAssumption` (at least one slot;
statuses, signals and times are numbers), `CacheAssumption` (blocks and data
exist, at least one entry), `PipeAssumption` (ring and chunk are not empty),
`SizeAssumption` (a pipe counter can count), `VirtqueueAssumption` and
`SoundAssumption` (an index goes round the ring a whole number of times; slots and
descriptors exist), `PumpAssumption` (the device's pace is not below the program's,
the driver's slots hold one buffer more than late writes leave there, and time is
counted and an int goes beyond what is pending), `InputAssumption` (every event has a class, the array has room
for one event, there is a buffer, and the desktop is process 1), `KeysAssumption`
(queue and ring have room for an event, and a pump reads), the assumptions of `AddrSpaces` on the order of its addresses,
those of `DamageList` on the size of screen and list, `DesktopAssumption` (there is
a slot besides the desktop's, and the list holds two rectangles), `FsCrashAssumption` (bitmap, inodes and data are
different blocks, and 0 is none of them), and `FileSystemAssumption` (an index block
holds at least one block number and no more of them than bytes, as `NINDIRECT` is
`BLOCK_SIZE / 4`; the layout is at least block 0 and fits on the disk; 0 is no inode;
what is written are bytes), `ListAssumption` (directories are a tree under the root
with a name at most once in each, and the list has room for an entry),
`ExecAssumption` (pages are whole words, no segment is empty or longer in the file
than in memory, and the arguments that are kept fit on a page, as 16 of 64 bytes do)
and `LookupAssumption` (slash and NUL are no letters of a name, no name of the host is
empty, and an entry holds at least one character and its NUL). TLC evaluates each of
them in the runs.

**ProcProofs.** `TypedAndRunning` is the type invariant together with
`CurrentRuns`. Neither is inductive alone: that a fork or sleep leaves a
well-formed table needs the current process to be one, and that `schedule`
finds a process with a context needs the table to be well-formed. The family
theorems rest on `FamilyInv`, which adds that links are consistent and acyclic
and that nobody is listed twice; the argument for acyclicity is that a fork
adds a leaf, and every other step only removes links. From it follow
`FamilyAlwaysSound` and the two action properties
`ZombieAlwaysKept` and `LostZombieStaysLost`. `SchedInv` says that a context is
saved exactly for the live processes, that a sleeper has a deadline, and that the
idle panic had its cause; a deadline of 0 would hide a sleeper from
`proc_wakeup_sleepers`, so the second is needed for the third
(`SchedulerAlwaysSound`). `WaitInv` says that a program in the `waitpid` loop is
alive and lists a child it waits for: only its own reaping strikes a child off its
list, and that leaves the loop (`WaitAlwaysValid`).

**DiskProofs, the cache.** The invariant is: types, one entry per block, clean
entries equal the disk, the flush loop leaves clean entries behind, and the
machine is off only after the loop. "Clean equals disk" is what lets a victim
be dropped; "one entry" is what makes the entry found the newest. It gives
`CacheAlwaysConsistent`. With it every
step of the cache is a step of the block store or leaves it alone
(`CacheImplementsStore`). `StampInv` says that no stamp is ahead of the clock and
that one entry at most bears the present one; of two or more entries the one used
last is then never the least recently used (`LastUsedAlwaysStays`).

**PipesProofs.** `FilesInv` says that the tables agree: a reference count is the
number of descriptors that refer to the file (`Exact`), a file of an open pipe
end has a pipe that is allocated and whose counter is at least its references
(`Covered`), and a pipe end is one file (`Apart`). fork and exit run over all
descriptors, and between two turns of their loop the tables agree with a set of
descriptors that is neither the old nor the new one; `CloseLoop` and `DupLoop`
carry `Agree` from turn to turn, stated for a table of descriptors that is a
parameter. Cardinalities move by one at a time.

For the data of a pipe the invariant adds two facts to `RingConsistent`:
while a write has not been cut short its loop counter equals the bytes left,
and the end a call works on stays open. `WrittenSlots` is the heart: counted
from the read position, the slots a write fills are those behind the contents,
in order, wherever the ring wraps. `ReadTurn` and `WriteTurn` turn a turn of a
loop into taking from and putting into a sequence, and `RingImplementsQueue`
puts them together.

**SoundProofs.** `QueueInv` says where a request is at each place of the driver:
in the ring, with the device or answered, and the ring otherwise empty. That
there is never a second request is what makes the unchecked used entry the right
one (`AlwaysOwnAnswers`). `TxInv` says of the transmit queue that every
descriptor has one owner, that the heads of the slots in use are each in exactly
one of ring, device, played and used ring, and that each leads to the buffer of
its slot. `SlotsAlwaysConsistent` counts: slots in use hold three descriptors
each. `SoundIsStream` maps the frames to be played to the writes whose heads are
in the ring or with the device, and shows each step of driver or device to be a
step of `SoundStream` or none.

`PumpInv` says what NDL's reckoning rests on: what it takes to be pending lasts, at
the library's pace and with the `MaxGap` of one late write, at least as long as the
frames the device still has, less what of the first has been played (`Reckoned`).
Each look drops part of a frame, which only adds to it; a write behind frames that are
there leaves the time of the look as it was, and one to a device that stood still
starts the reckoning anew, no more than `MaxGap` late: this is why gaps do not add up
(`WriteKeeps`). That no look comes so late that its frames exceed an `int` while there
are own frames is part of the invariant (`Age`): they are over before. It gives
`EstimateCovers`. For `NothingCut` frames have to be counted in slots: behind the slot
being played lie whole buffers (`WholeBuffers`), so less than two buffers pending are,
with the lag, at most `BuffersAhead` buffers' slots (`RoomForBuffer`), and one more
fits. All of it holds while the queue is not `unsure`. `frames_in` adds up a
row of slots by a recursion over its places, and the lemmas about it are inductions
over them (`UpTo`, as for `Only` below). `PumpAlwaysSafe` is the result.

**InputProofs.** `InputInv` adds to `BuffersConsistent` what the used ring looked
like at the last look: until the acknowledgement an empty ring has only been filled
behind the driver's back (`LookSeen`). It gives `BuffersAlwaysConsistent`.

`InputIsQueues` rests on what `Only` does to a sequence: it can be taken part by part
(`OnlyConcat`), a second filter meets the first (`OnlyTwice`), and filters that share
no event and cover all of them share out the length (`OnlyShares`). These are
inductions over the places of the sequence. The library's rule of induction cannot
be instantiated, but its fact about least elements can: the set of the places at
which a claim fails has a first one, and the place before it, where the claim holds,
refutes it (`UpTo`, and `Along` for two sequences). A read then splits the array at
the event it ends with (`ReadSplits`): of each queue, what lies before that event
stays or is skipped as a whole, and what lies behind it stays (`KindRead`). That is
a read of the abstract queues (`ReadRefines`), and a turn of the polling loop an
`Accept` or a `Drop` (`PollRefines`).

`KeysInv` adds to `KeysTrue` that the last event about a key, in the kernel's queue
or what arrives there, tells where that key is (`ArrivingTells`, `KeysTell`), and
that the ring of `libam` holds events between its head and its tail wherever it wraps
(`RingOK`). What one holds down behind a row of events is decided by the last event
about each key (`HeldAfter`), so an event at the end of the ring changes its own
key and no other (`HeldAppend`), and to take the oldest out of the ring changes
nothing (`HeldTail`). `KeysAlwaysTrue` follows by cases on who reads.

**ProgramsProofs.** `PagesInv` is `PagesConsistent` with each part in a form
that a single page step keeps: types, the one use of a page including the source
and target of a call in progress, the tables that lead to a mapping, the process
a call runs for, the cause of a panic, and the gap between heap and mappings with
what the running call has already put there. `PagesLostOnlyAtTheEnd` follows by
cases on the calls that give up.

The loops of the file manager, of a path and of a start-up stack are rows in which
each element is a function of the one before. `RowExists` and `Iterates`, by least
elements, give such a row its defining equation, so that an invariant of the loop is
one lemma about a turn. For the list, `ReadSoFar` says what has been read: the entries of
the directory, each once, behind the entry for the parent; `InsertFacts` that
an insertion puts the entry before the first one larger and keeps the others in
their order (`SortedSoFar`). `ListInv` says of the list that it is the path's
(`ListOf`), of the selection that it is on the screen (`Shown`), and of the view that
its file is one of the directory.

For a new program, `ArgsInv` follows the arguments through the cut of `sys_execve`
and onto the stack. Where a string lies is the sum of the lengths of those before it
(`CharsUpTo`), so that strings are apart and none reaches the pointers (`Layout`,
`Placed`), and by the assumption the whole stays on one page (`StackInv`).
`ImageInv` says of each cell of memory what it holds (`CellInv`) and of each page which
segment took it (`PageInv`): a page is copied once and a second segment that wants
it halts the kernel (`OnePageTwice`); segments whose pages are apart never meet
(`PagesApart`). `ProgramAlwaysExact` is both at the end of loading.

For a path, `BehindRow` gives `Elements` its equation, `Carries` says which element the
buffer holds, whatever an earlier and longer one has left behind its NUL, and `MatchExact` that
comparing the arrays compares the names, as long as they are shorter than an entry.
`WalkInv` then says where the walk stands: in front of an element (`AtElement`), at
an entry all of whose predecessors had other names (`AtEntry`), or at the end with
the host's answer (`Answer`).

**DisplayProofs.** `DamageInv` adds to `DamageConsistent` that the kernel's
rectangle lies on the screen, which `BoxOK` alone does not give back after
growing. The covering of what is owed is kept by the merge loop because the
rectangle that grows covers both it was made of, by `gpu_sync` because
`fbsync_write` leaves a rectangle that covers every one of the list, and by the
desktop's read because it clears what it takes.

For the desktop, `WindowsInv` adds to `WindowsTrue` what holds in the middle of a
call: in `launch_app` the child has no window yet but its slot is taken, and behind
the kill of `close_window` it is a zombie that only the wait can free (`MidCall`);
and the kernel's focus is the desktop's own idea of it or has fallen back
(`FocusFollows`). The heart is `SlotsMoveBasics`: a slot with a window is never
free, so that no fork can take it, whoever dies. `PicturesInv` adds to
`PicturesTrue` that a buffer that is mapped holds nothing foreign (`PagesOwn`),
which needs that a slot that is taken has no window, and that `ui_dirty` is set with
every change of the windows and already by the kill that precedes one
(`DrawnWhole`). `DebtInv` adds to `NothingForgotten` that only programs that run and
have a window are owed anything, so that no window goes with a debt, and that a frame
owes nothing but what was dropped to the windows it is through with (`Through`), so
that the mask may be cleared behind the last of them.

**DiskProofs, loss of power.** `CrashInv` has five parts: both disks are well formed; where
power, call and file may stand to one another; the undamaged files that no call is
changing read as they should, from blocks of their own that are marked in the
bitmap (`Kept`); those not written since the last orderly shutdown are the same on
the durable disk, marks included (`Clean`); and the writes a call has still to
make change no other undamaged file and, unless they end in a panic, lead to a
disk that has its own file as wanted (`InCall`). `SafeFilesIntact` says nothing of
the last three, and without them no block write is known to spare another file.
The writes of `writei` are built up by `Planned`, one at a time and as the code
appends them, with the disk they lead to; `DirectCall` and `IndirectCall` show
where they end, whether blocks exist, are new or are not to be had. `CallStep`
takes one of them from the list to the disk, while `BackSame` lets any blocks
become durable. After a loss of power only clean files are still safe, and those
are on the durable disk (`CrashInvPower`). `FilesAlwaysSurvive` is the result.

**FileSystemProofs.** The index blocks are a tree kept in an array of blocks, and
the proofs speak of the tree: a set of places for each file, the paths and parts of
paths that lead somewhere, and the block of each place. `Fits` says that the pointer
stored for a place is its block, with the place above it in the tree, and that no two
places have one block; `Blank`, that where a tree goes no further the pointer is 0;
`Marks`, that the bitmap has the layout and the blocks of all places and no others.
`FsInv` asks for `Fits` with the places that the *sizes* of the files need, and, until
the builder gives up or the kernel panics, for `Blank` and `Marks`. `NoBlockShared` alone is not
inductive: without `Blank` a step down the tree could follow a pointer nobody owns,
without `Marks` a block in use could be taken again, and while mkfs runs, its bitmap
is only exact because it takes blocks in order.

`PathInverse` shows that the index arithmetic has an inverse, so that different
blocks of a file never share a path (`PathsDiffer`), and `FilledFacts` that the parts
of the paths of the first blocks are closed under parents. `FitsFollow` and
`BlankFollow` turn `Lookup`, which walks the blocks, into a look at the tree.
`Descend` then either stands where it was going (`DescendFollows`), or adds one place
with a free block (`DescendTakes`), or finds no block and stays there
(`FullStays`); in each case the tree is `Grown`: places keep their blocks, and blocks of
data their bytes. `ReachGrows` puts the up to four steps together and `TurnLoops` adds
the bytes of one block. The turns of a call are an induction over them
(`TurnRow`, `TurnsLoop`), by least elements as for `Only` above. `PlacesGrow` is where
sizes and trees meet: what a write adds is exactly what the larger size needs, which
holds because no write begins beyond the end. A write for which the blocks run out
leaves the old places as they were (`WriteStops`), which is why `NoBlockShared` holds
after the panic, when the bitmap no longer agrees with the sizes.
`BlocksAlwaysConsistent` follows.

For the refinement every file is the row of its bytes, each in the cell its
path leads to (`Byte`), and `Reads` says that a read returns those and stops nowhere
early, because no block below the size is missing. After a write each byte comes from
the write or from before (`BytesDone`), at the end of the file that is appending
(`OverlaidEnd`); after one that halts the machine only its own file differs, from its
offset on (`BytesStopped`). `FilesImplementStore` is the result: what
`ImplementsFileStore` checks for index blocks of two entries holds for any number of
them, the 128 of the source included.

**Only model-checked.** Liveness: `CallsReturn`, `EveryoneRuns`, `WaitersServed`,
`ShutdownEnds`, `InputGoesOn`, `ReleaseArrives`, `AudioGoesOn`, `DamageComesThrough`
and `DesktopKeepsUp` rest on fairness and `ENABLED`, which are beyond the provers used
here. Every other property of a passing run is stated by a theorem. `PipeAvailable`
and `FullDiskReported` are false, and their runs show how.

## 6. Plan

Done, in this order: the process table, which every other part hangs on, and the
disk path, where errors last; then input, queues, sound, memory, damage, the
desktop, loss of power, the loader, path lookup and the libraries; then proofs of
the safety of processes, disk cache, pipes, VirtIO requests, sound, memory,
descriptors, damage, the desktop, files under losses of power, input from the device
to the keys a program takes for pressed, the library's reckoning of sound, the
file system with its index blocks, and last the file manager's list, the loading of
a program and path lookup.

Still open: Proc with Files in one module, with the theorems of both on top of
it; and the file system on a disk that refuses a read or a write.

## 7. Not modelled

- Boot code, trap entry, console, the kernel's C library: straight-line code or
  pure formatting without state a property could be about.
- The handshake of VirtIO devices at start-up, the set-up of screen and sound
  card, and the dispatch of device files by name.
- `poll`, `select`, `ioctl`, `stat`, time: they only read. mmap at an address the
  program chooses, which no program does; munmap of anything but a mapping.
- A read or write that the disk refuses inside the file system (section 4).
- Drawing: pixels, fonts, scaling, the boot animation, surfaces of miniSDL; WAV
  parsing and mixing. The desktop's clicks that shut down or restart the machine
  (the shutdown itself is in DiskCache). A forked child that draws before it
  calls exec.
- The menu and the example programs: single processes on top of the calls modelled
  here.
- Third-party code: newlib, fceux, PAL, bird, SDL_image and the compiler's headers
  are about 95 percent of the lines of the repository and not its own logic. Of
  the kernel's own lines the models stand for more than two fifths.

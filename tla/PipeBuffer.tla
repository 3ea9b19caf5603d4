----------------------------- MODULE PipeBuffer -----------------------------
(***************************************************************************)
(* One slot of pipe_table: the ring buffer of a pipe (kernel/fs/fs.c) and  *)
(* the chunked loops of sys_read and sys_write around it (kernel/system/   *)
(* syscall.c).  A turn of a loop is one step.  The kernel is not           *)
(* preempted, so calls do not overlap.  Which descriptors keep an end open *)
(* is the subject of module Files; here an end is open or closed.          *)
(***************************************************************************)
EXTENDS Integers, Sequences

CONSTANTS
    Byte,         \* the bytes
    PipeBufSize,  \* PIPE_BUF_SIZE
    CopyChunk,    \* USER_COPY_CHUNK
    MaxLen        \* bound on the length of one read or write

ASSUME PipeAssumption ==
    /\ PipeBufSize \in Nat \ {0}
    /\ CopyChunk \in Nat \ {0}
    /\ MaxLen \in Nat
    /\ Byte # {}

VARIABLES
    buf, rpos, wpos, count,   \* the ring
    readers, writers,         \* an end is open
    op,                       \* the system call that runs
    left,                     \* len - total of its loop
    todo,                     \* the bytes a write has left
    got,                      \* the bytes a read has copied to its caller
    short                     \* the loop was left with a break

ring == <<buf, rpos, wpos, count>>
vars == <<buf, rpos, wpos, count, readers, writers, op, left, todo, got, short>>

Slots == 0..(PipeBufSize - 1)

\* One type invariant for the module: the positions are in the ring.
TypeOK ==
    /\ buf \in [Slots -> Byte]
    /\ rpos \in Slots /\ wpos \in Slots
    /\ count \in 0..PipeBufSize
    /\ readers \in BOOLEAN /\ writers \in BOOLEAN
    /\ op \in {"idle", "read", "write"}
    /\ left \in 0..MaxLen
    /\ todo \in Seq(Byte) /\ got \in Seq(Byte)
    /\ short \in BOOLEAN

Least(a, b) == IF a <= b THEN a ELSE b

\* The slot of the ring k places after position pos.
Slot(pos, k) == (pos + k) % PipeBufSize

\* pipe_alloc: the slot is handed out with an empty ring.  What buf holds does
\* not matter.
Init ==
    /\ buf \in [Slots -> Byte]
    /\ rpos = 0 /\ wpos = 0 /\ count = 0
    /\ readers = FALSE /\ writers = FALSE
    /\ op = "idle" /\ left = 0 /\ todo = <<>> /\ got = <<>> /\ short = FALSE

Idle == op = "idle" /\ UNCHANGED <<op, left, todo, got, short>>

fs_pipe_create ==
    /\ Idle
    /\ ~readers /\ ~writers
    /\ readers' = TRUE /\ writers' = TRUE
    /\ rpos' = 0 /\ wpos' = 0 /\ count' = 0
    /\ UNCHANGED buf

\* Mutated form of close_end: pipe_maybe_free forgets the write position.
close_end_keeps_wpos ==
    /\ Idle
    /\ \/ readers /\ readers' = FALSE /\ UNCHANGED writers
       \/ writers /\ writers' = FALSE /\ UNCHANGED readers
    /\ IF ~readers' /\ ~writers' THEN rpos' = 0 /\ count' = 0
                                ELSE UNCHANGED <<rpos, count>>
    /\ UNCHANGED <<buf, wpos>>

\* fs_close of the last reference to one or the other end, and pipe_maybe_free.
close_end ==
    /\ Idle
    /\ \/ readers /\ readers' = FALSE /\ UNCHANGED writers
       \/ writers /\ writers' = FALSE /\ UNCHANGED readers
    /\ IF ~readers' /\ ~writers'
       THEN rpos' = 0 /\ wpos' = 0 /\ count' = 0
       ELSE UNCHANGED <<rpos, wpos, count>>
    /\ UNCHANGED buf

-----------------------------------------------------------------------------
(* sys_read.                                                               *)

sys_read(n) ==
    /\ op = "idle" /\ readers
    /\ op' = "read" /\ left' = n /\ got' = <<>> /\ short' = FALSE
    /\ UNCHANGED <<ring, readers, writers, todo>>

\* What pipe_read moves when it is asked for n bytes.
can_read(n) == Least(n, count)

\* Mutated form of pipe_read: a chunk longer than what is there restarts from the
\* position the chunk would have had.
pipe_read_skips ==
    /\ op = "read" /\ left > 0
    /\ LET chunk == Least(left, CopyChunk)
           can == can_read(chunk)
       IN  /\ got' = got \o [i \in 1..can |-> buf[Slot(rpos, i - 1)]]
           /\ rpos' = Slot(rpos, chunk)
           /\ count' = count - can
           /\ short' = (can < chunk)
           /\ left' = IF can < chunk THEN 0 ELSE left - can
    /\ UNCHANGED <<buf, wpos, readers, writers, op, todo>>

\* Mutated form of pipe_read: the loop waits for bytes instead of breaking.
pipe_read_waits ==
    /\ op = "read" /\ left > 0
    /\ LET chunk == Least(left, CopyChunk)
           can == can_read(chunk)
       IN  /\ got' = got \o [i \in 1..can |-> buf[Slot(rpos, i - 1)]]
           /\ rpos' = Slot(rpos, can)
           /\ count' = count - can
           /\ short' = FALSE
           /\ left' = left - can
    /\ UNCHANGED <<buf, wpos, readers, writers, op, todo>>

\* A turn of the loop.  A chunk that comes back short, or empty, ends it.
pipe_read ==
    /\ op = "read" /\ left > 0
    /\ LET chunk == Least(left, CopyChunk)
           can == can_read(chunk)
       IN  /\ got' = got \o [i \in 1..can |-> buf[Slot(rpos, i - 1)]]
           /\ rpos' = Slot(rpos, can)
           /\ count' = count - can
           /\ short' = (can < chunk)
           /\ left' = IF can < chunk THEN 0 ELSE left - can
    /\ UNCHANGED <<buf, wpos, readers, writers, op, todo>>

-----------------------------------------------------------------------------
(* sys_write.                                                              *)

sys_write(s) ==
    /\ op = "idle" /\ writers
    /\ op' = "write" /\ left' = Len(s) /\ todo' = s /\ short' = FALSE
    /\ UNCHANGED <<ring, readers, writers, got>>

\* What pipe_write moves when it is given n bytes; nothing without readers, an
\* error that sys_write turns into a short count.
can_write(n) == IF readers THEN Least(n, PipeBufSize - count) ELSE 0

pipe_write ==
    /\ op = "write" /\ left > 0
    /\ LET chunk == Least(left, CopyChunk)
           can == can_write(chunk)
       IN  /\ buf' = [j \in Slots |->
                        IF Slot(j, -wpos) < can THEN todo[Slot(j, -wpos) + 1]
                                                ELSE buf[j]]
           /\ wpos' = Slot(wpos, can)
           /\ count' = count + can
           /\ todo' = SubSeq(todo, can + 1, Len(todo))
           /\ short' = (can < chunk)
           /\ left' = IF can < chunk THEN 0 ELSE left - can
    /\ UNCHANGED <<rpos, readers, writers, op, got>>

\* The call returns.
call_returns ==
    /\ op # "idle" /\ left = 0
    /\ op' = "idle" /\ todo' = <<>> /\ got' = <<>> /\ short' = FALSE
    /\ UNCHANGED <<ring, readers, writers, left>>

Messages == UNION {[1..n -> Byte] : n \in 0..MaxLen}

Next ==
    \/ fs_pipe_create
    \/ close_end
    \/ \E n \in 0..MaxLen : sys_read(n)
    \/ pipe_read
    \/ \E s \in Messages : sys_write(s)
    \/ pipe_write
    \/ call_returns

Spec == Init /\ [][Next]_vars

\* A loop that has begun goes on: nothing preempts the kernel.
Fairness == WF_vars(pipe_read \/ pipe_write \/ call_returns)

FairSpec == Spec /\ Fairness

-----------------------------------------------------------------------------
(* Properties.                                                             *)

\* The bytes in the ring, oldest first.
Contents == [i \in 1..count |-> buf[Slot(rpos, i - 1)]]

Queue ==
    INSTANCE ByteQueue WITH Capacity <- PipeBufSize, queue <- Contents,
                            reads <- readers, writes <- writers

\* The ring is a bounded queue of bytes: across wrap-around, chunks, partial
\* reads and writes and reuse of the slot, no byte is lost, doubled, reordered or
\* left over from an earlier pipe.
ImplementsByteQueue == Queue!Spec

\* The write position is where the contents end; pipe_read and pipe_write move
\* rpos, wpos and count on their own.
PositionsAgree == wpos = Slot(rpos, count)

\* A call moves less than it was asked to only because the pipe is empty, full
\* or without readers: the break of the chunk loop never comes too early.
ShortOnlyAtLimit ==
    /\ short /\ op = "read" => count = 0
    /\ short /\ op = "write" => count = PipeBufSize \/ ~readers
    /\ op = "write" /\ left = 0 /\ ~short => todo = <<>>

\* Every call returns.
CallsReturn == op # "idle" ~> op = "idle"

\* Positions and count agree around the ring and across its reuse, and a call falls
\* short only at its limits (pipe_read, pipe_write, the loops of sys_read, sys_write).
RingConsistent ==
    /\ TypeOK
    /\ PositionsAgree
    /\ ShortOnlyAtLimit
=============================================================================

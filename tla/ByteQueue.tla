----------------------------- MODULE ByteQueue ------------------------------
(***************************************************************************)
(* What a pipe promises: a bounded queue of bytes.  A call that writes     *)
(* moves its bytes from the front of what it has to the end of the queue,  *)
(* a call that reads takes bytes from the front, both in any number of     *)
(* pieces.  The queue is empty when the pipe is made and is dropped when   *)
(* both ends are closed.                                                   *)
(***************************************************************************)
EXTENDS Integers, Sequences

CONSTANTS
    Byte,       \* the bytes
    Capacity    \* bytes the queue holds

VARIABLES
    queue,      \* bytes in the pipe, oldest first
    reads,      \* the read end is open
    writes,     \* the write end is open
    todo,       \* what the current call has still to write
    got         \* what the current call has read

vars == <<queue, reads, writes, todo, got>>

Init ==
    /\ queue = <<>>
    /\ reads = FALSE /\ writes = FALSE
    /\ todo = <<>> /\ got = <<>>

Create ==
    /\ ~reads /\ ~writes
    /\ reads' = TRUE /\ writes' = TRUE
    /\ queue' = <<>>
    /\ UNCHANGED <<todo, got>>

\* A call begins or ends.
Call ==
    /\ todo' \in Seq(Byte)
    /\ got' = <<>>
    /\ UNCHANGED <<queue, reads, writes>>

\* k bytes go into the queue; nobody writes what nobody can read.
Put(k) ==
    /\ writes /\ reads
    /\ Len(queue) + k <= Capacity
    /\ queue' = queue \o SubSeq(todo, 1, k)
    /\ todo' = SubSeq(todo, k + 1, Len(todo))
    /\ UNCHANGED <<reads, writes, got>>

\* k bytes come out of the queue.
Take(k) ==
    /\ reads
    /\ got' = got \o SubSeq(queue, 1, k)
    /\ queue' = SubSeq(queue, k + 1, Len(queue))
    /\ UNCHANGED <<reads, writes, todo>>

Close ==
    /\ reads' => reads
    /\ writes' => writes
    /\ queue' = IF reads' \/ writes' THEN queue ELSE <<>>
    /\ UNCHANGED <<todo, got>>

Next ==
    \/ Create
    \/ Call
    \/ \E k \in 1..Len(todo) : Put(k)
    \/ \E k \in 1..Len(queue) : Take(k)
    \/ Close

Spec == Init /\ [][Next]_vars
=============================================================================

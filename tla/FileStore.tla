----------------------------- MODULE FileStore ------------------------------
(***************************************************************************)
(* What the file system promises: files are sequences of bytes.  The image *)
(* builder appends to them, then the system boots; an open file has an     *)
(* offset of its own, a write replaces or extends from there but leaves no *)
(* hole, a read returns what is there.                                     *)
(***************************************************************************)
EXTENDS Integers, Sequences

CONSTANTS
    Inum,           \* the files
    OpenFile,       \* the entries of the open file table
    Offset,         \* offsets a caller may seek to
    Payload(_, _),  \* the byte sequences written to a file at an offset
    ReadLen,        \* the lengths of reads
    MaxBytes        \* the longest file

VARIABLES
    content,        \* inum -> the bytes of the file
    file,           \* open file -> its inum and offset, or closed
    phase,          \* "mkfs", "kernel" or "halted"
    got             \* the bytes a read has just returned

vars == <<content, file, phase, got>>

Closed == [inum |-> 0, off |-> 0]

Init ==
    /\ content = [i \in Inum |-> <<>>]
    /\ file = [f \in OpenFile |-> Closed]
    /\ phase = "mkfs"
    /\ got = <<>>

Smaller(a, b) == IF a <= b THEN a ELSE b

Larger(a, b) == IF a >= b THEN a ELSE b

\* c with s put at offset off.
Overlaid(c, off, s) ==
    [k \in 1..Larger(Len(c), off + Len(s)) |->
       IF off < k /\ k <= off + Len(s) THEN s[k - off] ELSE c[k]]

Grow(i) ==
    /\ phase = "mkfs"
    /\ \E s \in Payload(i, Len(content[i])) :
          content' = [content EXCEPT ![i] = @ \o s]
    /\ UNCHANGED <<file, phase, got>>

Boot ==
    /\ phase = "mkfs" /\ phase' = "kernel"
    /\ UNCHANGED <<content, file, got>>

\* A file is opened or closed, or its offset moved.
Position(f) ==
    /\ phase = "kernel"
    /\ \/ \E i \in Inum : file' = [file EXCEPT ![f] = [inum |-> i, off |-> 0]]
       \/ file[f] # Closed /\ file' = [file EXCEPT ![f] = Closed]
       \/ file[f] # Closed /\ \E o \in Offset : file' = [file EXCEPT ![f].off = o]
    /\ got' = <<>>
    /\ UNCHANGED <<content, phase>>

Write(f) ==
    /\ phase = "kernel" /\ file[f] # Closed
    /\ LET i == file[f].inum
           off == file[f].off
       IN  \E s \in Payload(i, off) :
              /\ off <= Len(content[i]) /\ off + Len(s) <= MaxBytes
              /\ content' = [content EXCEPT ![i] = Overlaid(@, off, s)]
              /\ file' = [file EXCEPT ![f].off = off + Len(s)]
    /\ got' = <<>>
    /\ UNCHANGED phase

Read(f) ==
    /\ phase = "kernel" /\ file[f] # Closed
    /\ LET c == content[file[f].inum]
           off == file[f].off
       IN  /\ \E n \in ReadLen : got' = SubSeq(c, off + 1, Smaller(off + n, Len(c)))
           /\ file' = [file EXCEPT ![f].off = off + Len(got')]
    /\ UNCHANGED <<content, phase>>

\* A call that fails, and the next call's first step, return no bytes.
Fail == got' = <<>> /\ UNCHANGED <<content, file, phase>>

\* The builder or the kernel gives up; a write under way may have replaced bytes
\* of its file from its offset on, and nothing else.
Halt ==
    /\ phase # "halted" /\ phase' = "halted"
    /\ got' = <<>>
    /\ UNCHANGED file
    /\ \/ UNCHANGED content
       \/ \E f \in OpenFile :
             LET i == file[f].inum
             IN  /\ file[f] # Closed
                 /\ content' = [content EXCEPT ![i] = content'[i]]
                 /\ Len(content'[i]) = Len(content[i])
                 /\ \A k \in 1..file[f].off : content'[i][k] = content[i][k]

Next ==
    \/ \E i \in Inum : Grow(i)
    \/ Boot
    \/ \E f \in OpenFile : Position(f) \/ Write(f) \/ Read(f)
    \/ Fail
    \/ Halt

Spec == Init /\ [][Next]_vars
=============================================================================

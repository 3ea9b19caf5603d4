---------------------------- MODULE MCFileSystem ----------------------------
(* FileSystem for TLC.  A byte says which file and offset it was written   *)
(* for, and at the start of file 1 comes in two kinds, so that a byte    *)
(* that is lost, moved, crossed over or not overwritten is seen.           *)
EXTENDS FileSystem, TLC

CONSTANT WriteLen

Mark(i, off, kind) == 100 * i + off + 50 * kind

MarkedBytes(i, off) ==
    {[k \in 1..n |-> Mark(i, off + k, kind)] :
        n \in WriteLen, kind \in IF i = 1 /\ off = 0 THEN 0..1 ELSE {0}}

\* Entries of file_table are alike: nothing but their contents tells them apart.
OpenFilesAlike == Permutations(OpenFile)
=============================================================================

------------------------------- MODULE MCDisk -------------------------------
(* The cache of blocks and, over what it promises, the writes of files with *)
(* losses of power, for TLC.  FsCrash uses the promise (BlockStore) and no  *)
(* variable of the cache: TLC takes one of them at a time.                  *)
EXTENDS DiskCache, FsCrash

CONSTANTS b1, b2, b3, d1, d2

VARIABLE part

MCBlocks == {b1, b2, b3}
MCData == {d1, d2}

MCDiskInit ==
    /\ part \in {"cache", "files"}
    /\ Init /\ CrashInit
    /\ part = "files" => disk = [b \in Blocks |-> d1]

MCDiskNext ==
    \/ part = "cache" /\ Next /\ UNCHANGED <<part, crashVars>>
    \/ part = "files" /\ CrashNext /\ UNCHANGED <<part, vars>>

\* A cache that rests is in no shutdown and asks for no step.
MCDiskSpec ==
    /\ MCDiskInit /\ [][MCDiskNext]_<<part, vars, crashVars>>
    /\ WF_vars(flush_entry) /\ WF_vars(system_reset)
=============================================================================

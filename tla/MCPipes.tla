------------------------------ MODULE MCPipes -------------------------------
(* Descriptors with the ends of pipes, and the bytes in a pipe, for TLC.   *)
(* What a ring holds depends on which of its ends are open, which both     *)
(* modules let happen in any order; beyond that they share nothing, and    *)
(* TLC takes one of them at a time.                                        *)
EXTENDS Files, PipeBuffer

VARIABLE part

PipesInit ==
    /\ part \in {"descriptors", "bytes"}
    /\ FilesInit /\ Init
    /\ part = "descriptors" => buf = [s \in Slots |-> CHOOSE b \in Byte : TRUE]

PipesNext ==
    \/ part = "descriptors" /\ FilesNext /\ UNCHANGED <<part, vars>>
    \/ part = "bytes" /\ Next /\ UNCHANGED <<part, filesVars>>

\* A call on a ring that has begun goes on.
PipesSpec ==
    /\ PipesInit /\ [][PipesNext]_<<part, vars, filesVars>>
    /\ Fairness
=============================================================================

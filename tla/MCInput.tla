------------------------------ MODULE MCInput -------------------------------
(* The driver's queue and the libraries above it, for TLC.  They share no  *)
(* variable: what holds of each alone holds of both together, so TLC takes *)
(* one of them at a time and meets the sum of their states, not the        *)
(* product.  The one that rests stays where it begins, where its fairness  *)
(* asks for no step.                                                       *)
EXTENDS InputQueue, Keys

VARIABLE part

MCClassOf ==
    [k |-> "key", p |-> "pointer", s |-> "sync", o |-> "other"]

InputInit ==
    /\ part \in {"driver", "libraries"}
    /\ Init /\ KeysInit
    /\ part = "driver" => prog = "sdl"

InputNext ==
    \/ part = "driver" /\ Next /\ UNCHANGED <<part, keysVars>>
    \/ part = "libraries" /\ KeysNext /\ UNCHANGED <<part, vars>>

InputSpec ==
    /\ InputInit /\ [][InputNext]_<<part, vars, keysVars>>
    /\ Fairness /\ KeysFairness
=============================================================================

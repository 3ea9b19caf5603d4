----------------------------- MODULE EventQueues ----------------------------
(***************************************************************************)
(* What the input driver promises its readers: keys and pointer events are *)
(* two queues of their own, first in first out, that share a bound with    *)
(* the events nobody reads.  What has arrived is accepted in order and is  *)
(* dropped only when the bound is reached.  One read hands out at most one *)
(* event; frame marks ("sync") between pointer events are skipped.         *)
(***************************************************************************)
EXTENDS Integers, Sequences

CONSTANTS
    Event,      \* the events
    ClassOf,    \* [Event -> {"key", "pointer", "sync", "other"}]
    Capacity    \* events the queues hold together

VARIABLES
    arriving,   \* what the device has filled in and the driver not looked at
    keys,       \* key events, oldest first
    pointers,   \* pointer events and frame marks, oldest first
    others      \* events no reader ever takes

vars == <<arriving, keys, pointers, others>>

Init == arriving = <<>> /\ keys = <<>> /\ pointers = <<>> /\ others = <<>>

Arrive ==
    /\ \E e \in Event : arriving' = Append(arriving, e)
    /\ UNCHANGED <<keys, pointers, others>>

AppendIf(s, e, classes) == IF ClassOf[e] \in classes THEN Append(s, e) ELSE s

Accept ==
    /\ arriving # <<>>
    /\ Len(keys) + Len(pointers) + Len(others) < Capacity
    /\ arriving' = Tail(arriving)
    /\ keys' = AppendIf(keys, Head(arriving), {"key"})
    /\ pointers' = AppendIf(pointers, Head(arriving), {"pointer", "sync"})
    /\ others' = AppendIf(others, Head(arriving), {"other"})

Drop ==
    /\ arriving # <<>>
    /\ Len(keys) + Len(pointers) + Len(others) = Capacity
    /\ arriving' = Tail(arriving)
    /\ UNCHANGED <<keys, pointers, others>>

\* The oldest key, the oldest pointer event or neither is handed out, and the
\* frame marks before it are skipped.
Read ==
    \E n \in 0..Len(pointers) :
        /\ pointers' = SubSeq(pointers, n + 1, Len(pointers))
        /\ \A i \in 1..(n - 1) : ClassOf[pointers[i]] = "sync"
        /\ keys' \in {keys} \cup (IF keys # <<>> THEN {Tail(keys)} ELSE {})
        /\ n > 0 /\ ClassOf[pointers[n]] = "pointer" => keys' = keys
        /\ UNCHANGED <<arriving, others>>

Next == Arrive \/ Accept \/ Drop \/ Read

Spec == Init /\ [][Next]_vars
=============================================================================

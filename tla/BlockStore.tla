----------------------------- MODULE BlockStore -----------------------------
(***************************************************************************)
(* What the disk layer promises its callers: reads see the last write, and *)
(* blocks become durable at moments of the store's own choosing, but all   *)
(* of them before the machine is switched off.  A loss of power forgets    *)
(* what is not durable.                                                    *)
(***************************************************************************)
CONSTANTS
    Blocks,   \* block numbers
    Data,     \* contents of a block
    Failed    \* what a read that fails leaves

VARIABLES
    store,     \* what a read of a block returns
    durable,   \* what survives a loss of power
    mode,      \* "run", "flush" while shutting down, "off", "panic"
    out        \* result of the last read

vars == <<store, durable, mode, out>>

\* Any set of blocks may be written back in any step.
WriteBack ==
    \E B \in SUBSET Blocks :
        durable' = [b \in Blocks |-> IF b \in B THEN store[b] ELSE durable[b]]

Init ==
    /\ durable \in [Blocks -> Data]
    /\ store = durable
    /\ mode = "run"
    /\ out = Failed

Read(b) ==
    /\ mode = "run"
    /\ out' \in {store[b], Failed}
    /\ WriteBack
    /\ UNCHANGED <<store, mode>>

Write(b, d) ==
    /\ mode = "run"
    /\ store' = [store EXCEPT ![b] = d]
    /\ WriteBack
    /\ UNCHANGED <<mode, out>>

Shutdown ==
    /\ mode = "run"
    /\ mode' = "flush"
    /\ UNCHANGED <<store, durable, out>>

Sync ==
    /\ mode = "flush"
    /\ WriteBack
    /\ UNCHANGED <<store, mode, out>>

PowerOff ==
    /\ mode = "flush"
    /\ durable = store
    /\ mode' = "off"
    /\ UNCHANGED <<store, durable, out>>

Panic ==
    /\ mode \in {"run", "flush"}
    /\ mode' = "panic"
    /\ UNCHANGED <<store, durable, out>>

\* Loss of power, reset or switching on again.
PowerCycle ==
    /\ store' = durable
    /\ mode' = "run"
    /\ out' = Failed
    /\ UNCHANGED durable

Next ==
    \/ \E b \in Blocks : Read(b) \/ \E d \in Data : Write(b, d)
    \/ Shutdown
    \/ Sync
    \/ PowerOff
    \/ Panic
    \/ PowerCycle

Spec == Init /\ [][Next]_vars
=============================================================================

------------------------------- MODULE SoundTx ------------------------------
(***************************************************************************)
(* The transmit queue of the sound driver (kernel/device/virtio_sound.c)   *)
(* and the device file "audio" in front of it (kernel/device/device.c).    *)
(* A slot owns a data buffer and, while in use, three descriptors; it is   *)
(* handed to the device with the write that fills it and comes back with   *)
(* an interrupt or the next write.  The rings themselves are the subject   *)
(* of module Virtqueue; here they are the queues they stand for.           *)
(***************************************************************************)
EXTENDS Integers, Sequences, FiniteSets, FiniteSetsExt, SequencesExt

CONSTANTS
    Frame,      \* four bytes of sound
    Slots,      \* SND_TX_SLOTS
    TxDesc,     \* SND_TX_DESC
    BufFrames,  \* SND_TX_BUFFER_BYTES / 4
    MaxWrite    \* bound on the length of one write, in frames

ASSUME SoundAssumption ==
    /\ Slots \in Nat \ {0} /\ TxDesc \in Nat \ {0}
    /\ BufFrames \in Nat \ {0} /\ MaxWrite \in Nat

VARIABLES
    in_use,     \* tx[i].in_use
    d,          \* tx[i].d0, d1, d2
    data,       \* what tx[i].data holds up to the length in the descriptor
    addr,       \* the slot that descriptor points to, when it is a data descriptor
    next,       \* the next field of each descriptor
    free_desc,  \* free descriptors
    avail,      \* heads in the available ring the device has not taken
    taken,      \* heads the device has taken and not played, oldest first
    played,     \* heads the device has played and not given back
    used,       \* heads in the used ring
    focused,    \* the writer has the input focus
    ret         \* what the last write returned, in frames; -1 before the first

tx == <<in_use, d, data, addr, next, free_desc>>
vars == <<in_use, d, data, addr, next, free_desc, avail, taken, played, used, focused, ret>>

Slot == 0..(Slots - 1)
Desc == 0..(TxDesc - 1)
Writes == UNION {[1..n -> Frame] : n \in 0..MaxWrite}
Buffers == UNION {[1..n -> Frame] : n \in 0..BufFrames}

\* One type invariant for the module.
TypeOK ==
    /\ in_use \in [Slot -> BOOLEAN]
    /\ d \in [Slot -> Desc \X Desc \X Desc]
    /\ data \in [Slot -> Buffers]
    /\ addr \in [Desc -> Slot] /\ next \in [Desc -> Desc]
    /\ free_desc \subseteq Desc
    /\ avail \in Seq(Desc) /\ taken \in Seq(Desc) /\ used \in Seq(Desc)
    /\ played \subseteq Desc
    /\ focused \in BOOLEAN
    /\ ret \in {-1} \cup 0..MaxWrite

\* virtio_sound_init, when it succeeds.
Init ==
    /\ in_use = [i \in Slot |-> FALSE]
    /\ d = [i \in Slot |-> <<0, 0, 0>>]
    /\ data = [i \in Slot |-> <<>>]
    /\ addr = [e \in Desc |-> 0] /\ next = [e \in Desc |-> 0]
    /\ free_desc = Desc
    /\ avail = <<>> /\ taken = <<>> /\ played = {} /\ used = <<>>
    /\ focused = TRUE /\ ret = -1

Parts(c) == {c[1], c[2], c[3]}

\* Mutated form of reclaimed: a slot comes back when its data descriptor is used.
reclaimed_d1(heads) == {i \in Slot : in_use[i] /\ d[i][2] \in heads}

\* The slots snd_tx_reclaim finds for the heads in the used ring.
reclaimed(heads) == {i \in Slot : in_use[i] /\ d[i][1] \in heads}

\* Mutated form of freed_on_reclaim: the status descriptor is forgotten.
freed_two(S) == UNION {{d[i][1], d[i][2]} : i \in S}

\* The descriptors snd_tx_reclaim frees with the slots S.
freed_on_reclaim(S) == UNION {Parts(d[i]) : i \in S}

\* Three calls of q_alloc_desc.
three_of(S) ==
    LET a == Min(S)  b == Min(S \ {a})  c == Min(S \ {a, b}) IN <<a, b, c>>

\* Fewer than three descriptors are free: those that were found are given back.
after_failure(S) == S

\* A write is cut to the buffer of a slot.
copied(s) == SubSeq(s, 1, Min({Len(s), BufFrames}))

\* Mutated form of free_slots: a slot is free as soon as the device has taken it.
free_slots_early(busy) == {i \in Slot : i \notin busy \/ d[i][1] \in ToSet(taken)}

\* The slots not in use.
free_slots(busy) == Slot \ busy

-----------------------------------------------------------------------------
(* The driver.                                                             *)

\* virtio_sound_write: what has been played is taken back first.
virtio_sound_write(s) ==
    LET back == reclaimed(ToSet(used))
        busy == {i \in Slot : in_use[i]} \ back
        descs == free_desc \cup freed_on_reclaim(back)
        slot == Min(free_slots(busy))
        c == three_of(descs)
    IN  IF Len(s) = 0
        THEN ret' = -1 /\ UNCHANGED <<tx, avail, used>>
        ELSE /\ used' = <<>>
             /\ IF free_slots(busy) = {} \/ Cardinality(descs) < 3
                THEN /\ in_use' = [i \in Slot |-> i \in busy]
                     /\ IF free_slots(busy) = {}
                        THEN ret' = 0 /\ free_desc' = descs
                        ELSE ret' = -1 /\ free_desc' = after_failure(descs)
                     /\ UNCHANGED <<d, data, addr, next, avail>>
                ELSE /\ ret' = Len(copied(s))
                     /\ in_use' = [i \in Slot |-> i \in busy \cup {slot}]
                     /\ d' = [d EXCEPT ![slot] = c]
                     /\ data' = [data EXCEPT ![slot] = copied(s)]
                     /\ addr' = [addr EXCEPT ![c[2]] = slot]
                     /\ next' = [next EXCEPT ![c[1]] = c[2], ![c[2]] = c[3]]
                     /\ free_desc' = descs \ Parts(c)
                     /\ avail' = Append(avail, c[1])

\* A write to "audio": without the focus it is reported as done and dropped.
audio_write(s) ==
    /\ IF focused THEN virtio_sound_write(s)
                  ELSE ret' = Len(s) /\ UNCHANGED <<tx, avail, used>>
    /\ UNCHANGED <<taken, played, focused>>

\* The interrupt of the device: snd_tx_reclaim.
virtio_sound_poll ==
    /\ used # <<>>
    /\ LET back == reclaimed(ToSet(used))
       IN  /\ in_use' = [i \in Slot |-> in_use[i] /\ i \notin back]
           /\ free_desc' = free_desc \cup freed_on_reclaim(back)
    /\ used' = <<>>
    /\ UNCHANGED <<d, data, addr, next, avail, taken, played, focused, ret>>

set_focus ==
    /\ focused' = ~focused
    /\ UNCHANGED <<tx, avail, taken, played, used, ret>>

-----------------------------------------------------------------------------
(* The device takes buffers in order, plays them in order from the memory  *)
(* their descriptors lead to, and gives them back in any order.            *)

device_take ==
    /\ avail # <<>>
    /\ taken' = Append(taken, Head(avail)) /\ avail' = Tail(avail)
    /\ UNCHANGED <<tx, played, used, focused, ret>>

device_play ==
    /\ taken # <<>>
    /\ played' = played \cup {Head(taken)} /\ taken' = Tail(taken)
    /\ UNCHANGED <<tx, avail, used, focused, ret>>

device_done(h) ==
    /\ h \in played
    /\ played' = played \ {h} /\ used' = Append(used, h)
    /\ UNCHANGED <<tx, avail, taken, focused, ret>>

Next ==
    \/ \E s \in Writes : audio_write(s)
    \/ virtio_sound_poll
    \/ set_focus
    \/ device_take
    \/ device_play
    \/ \E h \in Desc : device_done(h)

Spec == Init /\ [][Next]_vars

\* A sound card plays at its own pace, its interrupt is taken, and a program that
\* has sound to play goes on writing.
FairSpec ==
    /\ Spec
    /\ WF_vars(\E s \in Writes \ {<<>>} : audio_write(s))
    /\ WF_vars(virtio_sound_poll) /\ WF_vars(device_take) /\ WF_vars(device_play)
    /\ \A h \in Desc : WF_vars(device_done(h))

-----------------------------------------------------------------------------
(* Properties.                                                             *)

InUse == {i \in Slot : in_use[i]}

\* The heads the device has or will have, and those on their way back.
Heads == ToSet(avail) \cup ToSet(taken) \cup played \cup ToSet(used)

\* Descriptors are neither shared nor lost: each is free or belongs to exactly one
\* slot in use, over writes that fail, completions out of order and interrupts
\* that come late.
DescOwned ==
    /\ free_desc = Desc \ UNION {Parts(d[i]) : i \in InUse}
    /\ \A i \in InUse : Cardinality(Parts(d[i])) = 3
    /\ \A i, j \in InUse : i # j => Parts(d[i]) \cap Parts(d[j]) = {}

\* A slot is in use as long as the device can still come to it and no longer, so
\* snd_tx_reclaim, which matches heads, always finds the one slot it looks for.
InUseIsInFlight ==
    /\ Heads = {d[i][1] : i \in InUse}
    /\ Len(avail) + Len(taken) + Cardinality(played) + Len(used) = Cardinality(InUse)

\* While three descriptors for each slot exist, a write fails for want of a slot
\* only: the error path of the allocation is never taken.
AllocSuffices ==
    3 * Slots <= TxDesc /\ InUse # Slot => Cardinality(free_desc) >= 3

\* What the device will play: the buffers its heads lead to, as they are now.
ToPlay ==
    [i \in 1..Len(taken \o avail) |-> data[addr[next[(taken \o avail)[i]]]]]

Stream == INSTANCE SoundStream WITH stream <- ToPlay

\* The frames reported as taken are heard once and in order: a buffer is not
\* written again, and its descriptors not reused, before it has been played.
ImplementsSoundStream == Stream!Spec

\* A write that found the queue full succeeds when it is repeated, as the callers
\* do: slots come back.
FullIsTemporary == focused /\ ret = 0 ~> ~focused \/ ret # 0

\* Descriptors have one owner, a slot is in use while the device has it, and a free
\* slot always finds its descriptors (virtio_sound_write, snd_tx_reclaim).
SlotsConsistent ==
    /\ TypeOK
    /\ DescOwned
    /\ InUseIsInFlight
    /\ AllocSuffices
=============================================================================

------------------------------ MODULE Virtqueue -----------------------------
(***************************************************************************)
(* A request to a VirtIO device over its queue, and the wait for the       *)
(* answer: virtio_alloc_desc, virtio_submit_and_poll and virtio_free_desc  *)
(* (kernel/device/virtio.c) as gpu_cmd uses them; virtio_blk_rw            *)
(* (kernel/disk/disk.c) and the control queue of the sound driver are the  *)
(* same code again.  The driver waits without being interrupted; the       *)
(* device works beside it.  Indices are 16-bit counters that wrap.         *)
(***************************************************************************)
EXTENDS Integers, FiniteSets, FiniteSetsExt

CONSTANTS
    Request,    \* what can be asked
    NoAnswer,   \* in place of a request: none
    NumDesc,    \* descriptors, and slots of either ring
    ChainLen,   \* descriptors of a request
    IdxMod      \* 2^16: the indices wrap here

ASSUME VirtqueueAssumption ==
    /\ NoAnswer \notin Request
    /\ NumDesc \in Nat \ {0} /\ ChainLen \in 1..NumDesc
    /\ IdxMod \in Nat /\ IdxMod > NumDesc /\ IdxMod % NumDesc = 0

VARIABLES
    free,             \* free_desc
    chain,            \* the descriptors of the request
    avail_ring, avail_idx, \* the available ring and its index
    used_ring, used_dev,   \* the used ring and used->idx
    used_idx,         \* how far the driver has looked
    seen,             \* how far the device has looked
    busy,             \* heads the device works on
    header,           \* what the first descriptor of each chain points to
    request,          \* what the driver asks
    answer,           \* what the answer buffer holds: the request it answers
    req_pc

ring == <<avail_ring, avail_idx, used_ring, used_dev>>
queueVars == <<free, chain, avail_ring, avail_idx, used_ring, used_dev, used_idx, seen, busy,
          header, request, answer, req_pc>>

RingDesc == 0..(NumDesc - 1)
Idx == 0..(IdxMod - 1)

\* An increment of a 16-bit index.
Succ(i) == (i + 1) % IdxMod

\* One type invariant for the module.
QueueTypeOK ==
    /\ free \subseteq RingDesc /\ chain \subseteq RingDesc
    /\ avail_ring \in [RingDesc -> RingDesc] /\ used_ring \in [RingDesc -> RingDesc]
    /\ {avail_idx, used_dev, used_idx, seen} \subseteq Idx
    /\ busy \subseteq RingDesc
    /\ header \in [RingDesc -> Request \cup {NoAnswer}]
    /\ {request, answer} \subseteq Request \cup {NoAnswer}
    /\ req_pc \in {"idle", "submit", "poll", "free"}

\* virtio_mmio_init_queue: a zeroed page.
QueueInit ==
    /\ free = RingDesc /\ chain = {}
    /\ avail_ring = [i \in RingDesc |-> 0] /\ used_ring = [i \in RingDesc |-> 0]
    /\ avail_idx = 0 /\ used_dev = 0 /\ used_idx = 0 /\ seen = 0
    /\ busy = {}
    /\ header = [d \in RingDesc |-> NoAnswer]
    /\ request = NoAnswer /\ answer = NoAnswer
    /\ req_pc = "idle"

\* The k smallest elements of S, as k calls of virtio_alloc_desc take them.
virtio_alloc_desc(S, k) == {d \in S : Cardinality({e \in S : e < d}) < k}

\* The descriptors are taken and point to the request and the answer buffer.  With
\* too few left the call would fail; NothingLeftOver shows that it never does.
gpu_cmd(r) ==
    /\ req_pc = "idle"
    /\ Cardinality(free) >= ChainLen
    /\ chain' = virtio_alloc_desc(free, ChainLen)
    /\ free' = free \ chain'
    /\ header' = [header EXCEPT ![Min(chain')] = r]
    /\ request' = r
    /\ answer' = NoAnswer
    /\ req_pc' = "submit"
    /\ UNCHANGED <<ring, used_idx, seen, busy>>

\* The head goes into the available ring.
submit ==
    /\ req_pc = "submit"
    /\ avail_ring' = [avail_ring EXCEPT ![avail_idx % NumDesc] = Min(chain)]
    /\ avail_idx' = Succ(avail_idx)
    /\ req_pc' = "poll"
    /\ UNCHANGED <<free, chain, used_ring, used_dev, used_idx, seen, busy, header, request, answer>>

\* Mutated form of poll: the driver's index is not moved.
poll_keeps_index ==
    /\ req_pc = "poll" /\ used_dev # used_idx
    /\ req_pc' = "free"
    /\ UNCHANGED <<free, chain, ring, used_idx, seen, busy, header, request, answer>>

\* The wait ends; which entry of the used ring ended it is not looked at.
poll ==
    /\ req_pc = "poll" /\ used_dev # used_idx
    /\ used_idx' = Succ(used_idx)
    /\ req_pc' = "free"
    /\ UNCHANGED <<free, chain, ring, seen, busy, header, request, answer>>

free_chain ==
    /\ req_pc = "free"
    /\ free' = free \cup chain /\ chain' = {}
    /\ req_pc' = "idle"
    /\ UNCHANGED <<ring, used_idx, seen, busy, header, request, answer>>

-----------------------------------------------------------------------------
(* The device.                                                             *)

device_fetches ==
    /\ seen # avail_idx
    /\ busy' = busy \cup {avail_ring[seen % NumDesc]}
    /\ seen' = Succ(seen)
    /\ UNCHANGED <<free, chain, ring, used_idx, header, request, answer, req_pc>>

device_answers(d) ==
    /\ d \in busy
    /\ answer' = header[d]
    /\ busy' = busy \ {d}
    /\ used_ring' = [used_ring EXCEPT ![used_dev % NumDesc] = d]
    /\ used_dev' = Succ(used_dev)
    /\ UNCHANGED <<free, chain, avail_ring, avail_idx, used_idx, seen, header, request, req_pc>>

QueueNext ==
    \/ \E r \in Request : gpu_cmd(r)
    \/ submit
    \/ poll
    \/ free_chain
    \/ device_fetches
    \/ \E d \in RingDesc : device_answers(d)

QueueSpec == QueueInit /\ [][QueueNext]_queueVars

\* The driver spins and the device serves what it has been given.
QueueFairness ==
    /\ WF_queueVars(submit \/ poll \/ free_chain)
    /\ WF_queueVars(device_fetches) /\ \A d \in RingDesc : WF_queueVars(device_answers(d))

QueueFairSpec == QueueSpec /\ QueueFairness

-----------------------------------------------------------------------------
(* Properties.                                                             *)

\* The wait ends with the answer to this request and no other, also after the
\* indices have wrapped: the code does not compare the used entry with its own.
AnswerIsOurs == req_pc = "free" => answer = request

\* Between requests nothing is left over: every descriptor is free, and the device
\* has nothing to take or to give back that could end a later wait.
NothingLeftOver ==
    req_pc = "idle" => /\ free = RingDesc /\ busy = {}
                   /\ seen = avail_idx /\ used_dev = used_idx

\* Every request comes to its end.
RequestReturns == req_pc # "idle" ~> req_pc = "idle"

\* The wait ends with the answer to the request that waits, because nothing is left
\* over from another (virtio_submit_and_poll, virtio_free_desc).
OwnAnswers ==
    /\ QueueTypeOK
    /\ AnswerIsOurs
    /\ NothingLeftOver
=============================================================================

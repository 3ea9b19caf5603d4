----------------------------- MODULE SoundProofs ----------------------------
(***************************************************************************)
(* Theorems about a request on a VirtIO queue (Virtqueue, which the sound, *)
(* graphics and block drivers share), about the transmit queue of the sound*)
(* card (SoundTx), and about how a program keeps it fed (AudioPump), for   *)
(* any number of descriptors and slots and any rates.                      *)
(***************************************************************************)
EXTENDS Virtqueue, SoundTx, AudioPump, FiniteSetTheorems, SequenceTheorems,
        WellFoundedInduction, TLAPS

-----------------------------------------------------------------------------
(* Helpers.                                                                *)

\* A nonempty set of naturals has a least element, and Min is it.
LEMMA MinMember ==
    ASSUME NEW S, S \subseteq Nat, S # {}
    PROVE  Min(S) \in S /\ \A j \in S : Min(S) <= j
  <1>1. PICK x \in S : \A y \in S : ~(<<y, x>> \in OpToRel(<, Nat))
    BY NatLessThanWellFounded, WFMin
  <1>2. \A y \in S : ~(y < x)
    BY <1>1, Zenon DEF OpToRel
  <1>3. \A y \in S : x <= y
    BY <1>2
  <1>. QED
    BY <1>3, Zenon DEF Min

-----------------------------------------------------------------------------
(* A request and its answer.                                               *)

\* An index that has gone on is another index, also where it wraps.
LEMMA SuccMoves ==
    ASSUME NEW i \in Idx
    PROVE  Succ(i) \in Idx /\ Succ(i) # i
  <1>1. IdxMod \in Nat /\ IdxMod > 1 /\ i \in Nat /\ i < IdxMod
    BY VirtqueueAssumption DEF Idx
  <1>2. i + 1 < IdxMod => (i + 1) % IdxMod = i + 1
    BY <1>1
  <1>3. i + 1 = IdxMod => (i + 1) % IdxMod = 0
    BY <1>1
  <1>. QED
    BY <1>1, <1>2, <1>3 DEF Succ, Idx

\* An index modulo the ring size is a place of the ring.
LEMMA RingSlot ==
    ASSUME NEW i \in Idx
    PROVE  i % NumDesc \in RingDesc
  BY VirtqueueAssumption DEF Idx, RingDesc

\* The request is made of free descriptors, and of one at least.
LEMMA AllocatedChain ==
    ASSUME NEW S, S \subseteq RingDesc, S # {}
    PROVE  /\ virtio_alloc_desc(S, ChainLen) \subseteq S
           /\ virtio_alloc_desc(S, ChainLen) # {}
           /\ Min(virtio_alloc_desc(S, ChainLen)) \in S
  <1>1. S \subseteq Nat /\ RingDesc \subseteq Nat
    BY DEF RingDesc
  <1>2. Min(S) \in S /\ \A e \in S : Min(S) <= e
    BY <1>1, MinMember
  <1>3. {e \in S : e < Min(S)} = {}
    <2>1. \A e \in S : e \in Nat /\ Min(S) \in Nat /\ Min(S) <= e
      BY <1>1, <1>2
    <2>2. \A e \in S : ~(e < Min(S))
      BY <2>1
    <2>. QED
      BY <2>2
  <1>4. Cardinality({e \in S : e < Min(S)}) < ChainLen
    BY <1>3, FS_EmptySet, VirtqueueAssumption
  <1>5. Min(S) \in virtio_alloc_desc(S, ChainLen)
    BY <1>2, <1>4 DEF virtio_alloc_desc
  <1>6. virtio_alloc_desc(S, ChainLen) \subseteq S
    BY DEF virtio_alloc_desc
  <1>. QED
    BY <1>1, <1>5, <1>6, MinMember

\* Nobody has anything of a request: all of it has been taken, done and seen.
Quiet == busy = {} /\ seen = avail_idx /\ used_dev = used_idx

\* Where the request is while the driver polls: in the available ring, with the
\* device, or answered.
InRing ==
    /\ busy = {} /\ avail_idx = Succ(seen) /\ used_dev = used_idx
    /\ avail_ring[seen % NumDesc] = Min(chain)
WithDevice == busy = {Min(chain)} /\ seen = avail_idx /\ used_dev = used_idx
Answered ==
    busy = {} /\ seen = avail_idx /\ used_dev = Succ(used_idx) /\ answer = request

\* What holds at each place of the driver.
QueueInv ==
    /\ QueueTypeOK
    /\ req_pc = "idle" => free = RingDesc /\ chain = {} /\ Quiet
    /\ req_pc # "idle" => /\ chain # {} /\ free = RingDesc \ chain
                          /\ header[Min(chain)] = request
    /\ req_pc = "submit" => Quiet
    /\ req_pc = "poll" => InRing \/ WithDevice \/ Answered
    /\ req_pc = "free" => Quiet /\ answer = request

\* The queue starts with no request in flight.
LEMMA QueueInvInit == QueueInit => QueueInv
  BY VirtqueueAssumption DEF QueueInit, QueueInv, QueueTypeOK, Quiet, RingDesc, Idx

\* Every step of driver or device keeps the queue's invariant.
LEMMA QueueInvStep == QueueInv /\ [QueueNext]_queueVars => QueueInv'
  <1>. SUFFICES ASSUME QueueInv, [QueueNext]_queueVars PROVE QueueInv'
    OBVIOUS
  <1>0. /\ QueueTypeOK
        /\ avail_idx \in Idx /\ used_dev \in Idx /\ used_idx \in Idx /\ seen \in Idx
        /\ chain # {} => Min(chain) \in RingDesc
        /\ req_pc \in {"idle", "submit", "poll", "free"}
    <2>1. chain \subseteq RingDesc /\ chain \subseteq Nat
      BY DEF QueueInv, QueueTypeOK, RingDesc
    <2>. QED
      BY <2>1, MinMember DEF QueueInv, QueueTypeOK
  <1>1. ASSUME NEW r \in Request, gpu_cmd(r) PROVE QueueInv'
    <2>1. free = RingDesc /\ free # {} /\ Quiet /\ req_pc = "idle"
      <3>1. 0 \in RingDesc
        BY VirtqueueAssumption DEF RingDesc
      <3>. QED
        BY <1>1, <3>1 DEF gpu_cmd, QueueInv
    <2>2. chain' \subseteq RingDesc /\ chain' # {} /\ Min(chain') \in RingDesc
      BY <1>1, <2>1, AllocatedChain DEF gpu_cmd
    <2>3. header'[Min(chain')] = r /\ header' \in [RingDesc -> Request \cup {NoAnswer}]
      BY <1>0, <1>1, <2>2 DEF gpu_cmd, QueueTypeOK
    <2>4. QueueTypeOK'
      BY <1>0, <1>1, <2>1, <2>2, <2>3 DEF gpu_cmd, QueueTypeOK, ring
    <2>5. Quiet' /\ req_pc' = "submit" /\ free' = RingDesc \ chain' /\ request' = r
      BY <1>1, <2>1 DEF gpu_cmd, Quiet, ring
    <2>. QED
      BY <2>2, <2>3, <2>4, <2>5 DEF QueueInv
  <1>2. CASE submit
    <2>1. /\ Quiet /\ chain # {} /\ free = RingDesc \ chain
          /\ header[Min(chain)] = request
      BY <1>2 DEF submit, QueueInv
    <2>2. avail_idx % NumDesc \in RingDesc /\ Succ(avail_idx) \in Idx
      BY <1>0, RingSlot, SuccMoves
    <2>3. /\ avail_ring' \in [RingDesc -> RingDesc]
          /\ avail_ring'[avail_idx % NumDesc] = Min(chain)
      BY <1>0, <1>2, <2>1, <2>2 DEF submit, QueueTypeOK
    <2>4. QueueTypeOK'
      BY <1>0, <1>2, <2>2, <2>3 DEF submit, QueueTypeOK
    <2>5. InRing'
      BY <1>2, <2>1, <2>3 DEF submit, InRing, Quiet
    <2>. QED
      BY <1>2, <2>1, <2>4, <2>5 DEF submit, QueueInv
  <1>3. CASE poll
    <2>1. Answered
      BY <1>3 DEF poll, QueueInv, InRing, WithDevice
    <2>2. Succ(used_idx) \in Idx
      BY <1>0, SuccMoves
    <2>3. QueueTypeOK'
      BY <1>0, <1>3, <2>2 DEF poll, QueueTypeOK, ring
    <2>4. Quiet' /\ answer' = request' /\ req_pc' = "free"
      BY <1>3, <2>1 DEF poll, Answered, Quiet, ring
    <2>. QED
      BY <1>3, <2>3, <2>4 DEF poll, QueueInv
  <1>4. CASE free_chain
    <2>1. chain \subseteq RingDesc /\ free = RingDesc \ chain /\ Quiet
      BY <1>0, <1>4 DEF free_chain, QueueInv, QueueTypeOK
    <2>2. free' = RingDesc
      BY <1>4, <2>1 DEF free_chain
    <2>3. QueueTypeOK'
      BY <1>0, <1>4, <2>2 DEF free_chain, QueueTypeOK, ring
    <2>. QED
      BY <1>4, <2>1, <2>2, <2>3 DEF free_chain, QueueInv, Quiet, ring
  <1>5. CASE device_fetches
    <2>1. req_pc = "poll" /\ InRing /\ chain # {}
      BY <1>0, <1>5 DEF device_fetches, QueueInv, Quiet, WithDevice, Answered
    <2>2. busy' = {Min(chain)} /\ seen' = avail_idx
      BY <1>5, <2>1 DEF device_fetches, InRing
    <2>3. QueueTypeOK'
      BY <1>0, <1>5, <2>1, <2>2 DEF device_fetches, QueueTypeOK, ring
    <2>4. WithDevice'
      BY <1>5, <2>1, <2>2 DEF device_fetches, WithDevice, InRing, ring
    <2>. QED
      BY <1>5, <2>1, <2>3, <2>4 DEF device_fetches, QueueInv
  <1>6. ASSUME NEW e \in RingDesc, device_answers(e) PROVE QueueInv'
    <2>1. req_pc = "poll" /\ WithDevice /\ chain # {} /\ e = Min(chain)
      BY <1>0, <1>6 DEF device_answers, QueueInv, Quiet, InRing, Answered, WithDevice
    <2>2. used_dev % NumDesc \in RingDesc /\ Succ(used_dev) \in Idx
      BY <1>0, RingSlot, SuccMoves
    <2>3. answer' = request /\ busy' = {}
      BY <1>6, <2>1 DEF device_answers, QueueInv, WithDevice
    <2>4. used_ring' \in [RingDesc -> RingDesc]
      BY <1>0, <1>6, <2>2 DEF device_answers, QueueTypeOK
    <2>5. QueueTypeOK'
      BY <1>0, <1>6, <2>2, <2>3, <2>4 DEF device_answers, QueueTypeOK
    <2>6. Answered'
      BY <1>6, <2>1, <2>3 DEF device_answers, Answered, WithDevice
    <2>. QED
      BY <1>6, <2>1, <2>5, <2>6 DEF device_answers, QueueInv
  <1>7. CASE UNCHANGED queueVars
    BY <1>7 DEF queueVars, QueueInv, QueueTypeOK, Quiet, InRing, WithDevice, Answered
  <1>. QED
    BY <1>1, <1>2, <1>3, <1>4, <1>5, <1>6, <1>7 DEF QueueNext

\* Where a request is at each place of the driver, in every reachable state.
THEOREM QueueInvHolds == QueueSpec => []QueueInv
  BY QueueInvInit, QueueInvStep, PTL DEF QueueSpec

\* The wait of virtio_submit_and_poll ends with the answer to its own request and
\* nothing is left over, for any number of descriptors and any wrap of the indices.
THEOREM AlwaysOwnAnswers == QueueSpec => []OwnAnswers
  <1>1. QueueInv => OwnAnswers
    BY DEF QueueInv, OwnAnswers, AnswerIsOurs, NothingLeftOver, Quiet
  <1>. QED
    BY <1>1, QueueInvHolds, PTL

-----------------------------------------------------------------------------
(* Rings without repetition.                                               *)

\* No head is twice in the sequence.
Once(s) == \A i, j \in 1..Len(s) : s[i] = s[j] => i = j

\* The elements of a sequence are the values at its places.
LEMMA InRange ==
    ASSUME NEW S, NEW s \in Seq(S)
    PROVE  /\ \A x : x \in ToSet(s) <=> \E i \in 1..Len(s) : s[i] = x
           /\ ToSet(s) \subseteq S
  BY DEF ToSet

\* Appending a new element keeps the elements distinct.
LEMMA AppendOnce ==
    ASSUME NEW S, NEW s \in Seq(S), NEW x \in S
    PROVE  /\ Append(s, x) \in Seq(S)
           /\ \A y : y \in ToSet(Append(s, x)) <=> y \in ToSet(s) \/ y = x
           /\ Once(s) /\ x \notin ToSet(s) => Once(Append(s, x))
  <1>. DEFINE t == Append(s, x)
  <1>1. /\ t \in Seq(S) /\ Len(t) = Len(s) + 1 /\ Len(s) \in Nat
        /\ \A i \in 1..Len(s) : t[i] = s[i]
        /\ t[Len(s) + 1] = x
    BY AppendProperties
  <1>. HIDE DEF t
  <1>2. \A i \in 1..Len(t) : i \in 1..Len(s) \/ i = Len(s) + 1
    BY <1>1
  <1>3. /\ \A y : y \in ToSet(s) <=> \E i \in 1..Len(s) : s[i] = y
        /\ \A y : y \in ToSet(t) <=> \E i \in 1..Len(t) : t[i] = y
    BY <1>1, InRange
  <1>4. \A y : y \in ToSet(t) <=> y \in ToSet(s) \/ y = x
    BY <1>1, <1>2, <1>3
  <1>5. ASSUME Once(s), x \notin ToSet(s) PROVE Once(t)
    BY <1>1, <1>2, <1>3, <1>5 DEF Once
  <1>. QED
    BY <1>1, <1>4, <1>5 DEF t

\* Taking the head off a sequence of distinct elements removes just the head.
LEMMA TailOnce ==
    ASSUME NEW S, NEW s \in Seq(S), s # <<>>
    PROVE  /\ Tail(s) \in Seq(S) /\ Head(s) \in S /\ Head(s) \in ToSet(s)
           /\ \A y \in ToSet(Tail(s)) : y \in ToSet(s)
           /\ \A y \in ToSet(s) : y = Head(s) \/ y \in ToSet(Tail(s))
           /\ Once(s) => Once(Tail(s)) /\ Head(s) \notin ToSet(Tail(s))
  <1>. DEFINE t == Tail(s)
  <1>1. /\ t \in Seq(S) /\ Head(s) \in S /\ Len(s) \in Nat /\ Len(s) > 0
        /\ Len(t) = Len(s) - 1 /\ \A i \in 1..Len(t) : t[i] = s[i + 1]
        /\ Head(s) = s[1]
    BY HeadTailProperties
  <1>. HIDE DEF t
  <1>2. \A i \in 1..Len(s) : i = 1 \/ (i - 1 \in 1..Len(t) /\ t[i - 1] = s[i])
    BY <1>1
  <1>3. /\ \A y : y \in ToSet(s) <=> \E i \in 1..Len(s) : s[i] = y
        /\ \A y : y \in ToSet(t) <=> \E i \in 1..Len(t) : t[i] = y
    BY <1>1, InRange
  <1>4. \A i \in 1..Len(t) : i + 1 \in 1..Len(s) /\ i + 1 # 1 /\ t[i] = s[i + 1]
    BY <1>1
  <1>5. 1 \in 1..Len(s)
    BY <1>1
  <1>6. /\ Head(s) \in ToSet(s)
        /\ \A y \in ToSet(t) : y \in ToSet(s)
        /\ \A y \in ToSet(s) : y = Head(s) \/ y \in ToSet(t)
    BY <1>1, <1>2, <1>3, <1>4, <1>5, SMTT(30)
  <1>7. ASSUME Once(s) PROVE Once(t) /\ Head(s) \notin ToSet(t)
    <2>1. Head(s) \notin ToSet(t)
      BY <1>1, <1>3, <1>4, <1>5, <1>7 DEF Once
    <2>2. \A i, j \in 1..Len(t) : t[i] = t[j] => i + 1 = j + 1
      BY <1>4, <1>7 DEF Once
    <2>3. Once(t)
      BY <2>2 DEF Once
    <2>. QED
      BY <2>1, <2>3
  <1>. QED
    BY <1>1, <1>6, <1>7 DEF t

\* 1..n has n elements.
LEMMA CountUpTo ==
    ASSUME NEW n \in Nat
    PROVE  IsFiniteSet(1..n) /\ Cardinality(1..n) = n
  <1>1. n \in Int /\ 1 \in Int
    OBVIOUS
  <1>2. IsFiniteSet(1..n) /\ Cardinality(1..n) = IF 1 > n THEN 0 ELSE n - 1 + 1
    BY <1>1, FS_Interval, Zenon
  <1>. QED
    BY <1>2

\* Without repetition, the length counts the heads.
LEMMA OnceCounts ==
    ASSUME NEW S, NEW s \in Seq(S), Once(s)
    PROVE  IsFiniteSet(ToSet(s)) /\ Cardinality(ToSet(s)) = Len(s)
  <1>1. s \in [1..Len(s) -> ToSet(s)] /\ Len(s) \in Nat
    BY DEF ToSet
  <1>2. s \in Bijection(1..Len(s), ToSet(s))
    BY <1>1, InRange DEF Bijection, Injection, Surjection, IsInjective, Once
  <1>3. ExistsBijection(1..Len(s), ToSet(s))
    BY <1>2 DEF ExistsBijection
  <1>4. IsFiniteSet(1..Len(s)) /\ Cardinality(1..Len(s)) = Len(s)
    BY <1>1, CountUpTo
  <1>. QED
    BY <1>3, <1>4, FS_Bijection

-----------------------------------------------------------------------------
(* The inductive invariant of the transmit queue.                          *)

\* Every descriptor is free or part of one slot in use.
Owned ==
    /\ \A e \in Desc : e \in free_desc <=> \A i \in InUse : e \notin Parts(d[i])
    /\ \A i \in InUse : /\ d[i][1] # d[i][2] /\ d[i][1] # d[i][3]
                        /\ d[i][2] # d[i][3]
    /\ \A i, j \in InUse : i # j => Parts(d[i]) \cap Parts(d[j]) = {}

\* The heads of the slots in use are on their way, each at one place.
Travelling ==
    /\ \A h \in Desc : h \in Heads <=> \E i \in InUse : h = d[i][1]
    /\ Once(avail) /\ Once(taken) /\ Once(used)
    /\ ToSet(avail) \cap ToSet(taken) = {} /\ ToSet(avail) \cap played = {}
    /\ ToSet(avail) \cap ToSet(used) = {} /\ ToSet(taken) \cap played = {}
    /\ ToSet(taken) \cap ToSet(used) = {} /\ played \cap ToSet(used) = {}

\* The head of a slot in use leads to its buffer.
Linked == \A i \in InUse : next[d[i][1]] = d[i][2] /\ addr[d[i][2]] = i

TxInv == TypeOK /\ Owned /\ Travelling /\ Linked

\* The chains of the slots and the rings hold descriptors.
LEMMA TxTypes ==
    ASSUME TypeOK
    PROVE  /\ InUse \subseteq Slot
           /\ \A i \in Slot : /\ d[i][1] \in Desc /\ d[i][2] \in Desc /\ d[i][3] \in Desc
                              /\ Parts(d[i]) \subseteq Desc
           /\ ToSet(avail) \subseteq Desc /\ ToSet(taken) \subseteq Desc
           /\ ToSet(used) \subseteq Desc /\ played \subseteq Desc
  <1>1. \A i \in Slot : d[i] \in Desc \X Desc \X Desc
    BY DEF TypeOK
  <1>2. \A i \in Slot : d[i][1] \in Desc /\ d[i][2] \in Desc /\ d[i][3] \in Desc
    BY <1>1
  <1>. QED
    BY <1>2, InRange DEF TypeOK, InUse, Parts

\* What snd_tx_reclaim leaves in use, and what is then free.
Back == reclaimed(ToSet(used))
Kept == InUse \ Back
Spare == free_desc \cup freed_on_reclaim(Back)

\* Kept are the slots whose heads the device still has or will have, and free is
\* everything that is not theirs.
LEMMA AfterReclaim ==
    ASSUME TxInv
    PROVE  /\ Spare \subseteq Desc
           /\ \A e \in Desc : e \in Spare <=> \A i \in Kept : e \notin Parts(d[i])
           /\ \A h \in Desc : h \in ToSet(avail) \cup ToSet(taken) \cup played
                                <=> \E i \in Kept : h = d[i][1]
  <1>0. TypeOK /\ Back \subseteq InUse /\ InUse \subseteq Slot
    BY DEF TxInv, reclaimed, InUse, Back
  <1>1. \A e : e \in Spare <=> e \in free_desc \/ \E i \in Back : e \in Parts(d[i])
    BY DEF freed_on_reclaim, Spare
  <1>2. Spare \subseteq Desc
    BY <1>0, <1>1, TxTypes DEF TypeOK
  <1>3. ASSUME NEW e \in Desc
        PROVE  e \in Spare <=> \A i \in Kept : e \notin Parts(d[i])
    BY <1>0, <1>1, <1>3 DEF TxInv, Owned, Kept
  <1>4. \A i \in InUse : i \in Back <=> d[i][1] \in ToSet(used)
    BY DEF Back, reclaimed, InUse
  <1>5. \A i, j \in InUse : d[i][1] = d[j][1] => i = j
    BY DEF TxInv, Owned, Parts
  <1>6. \A h \in Desc : h \in ToSet(avail) \cup ToSet(taken) \cup played
                          => \E i \in Kept : h = d[i][1]
    BY <1>4 DEF TxInv, Travelling, Heads, Kept
  <1>7. \A i \in Kept : d[i][1] \in ToSet(avail) \cup ToSet(taken) \cup played
    <2>. SUFFICES ASSUME NEW i \in Kept
                  PROVE  d[i][1] \in ToSet(avail) \cup ToSet(taken) \cup played
      OBVIOUS
    <2>1. i \in InUse /\ d[i][1] \in Desc /\ d[i][1] \notin ToSet(used)
      BY <1>0, <1>4, TxTypes DEF Kept
    <2>2. d[i][1] \in Heads
      BY <2>1 DEF TxInv, Travelling
    <2>. QED
      BY <2>1, <2>2 DEF Heads
  <1>. QED
    BY <1>2, <1>3, <1>6, <1>7

\* snd_tx_reclaim, by an interrupt or a write that then fails.
LEMMA ReclaimStep ==
    ASSUME TxInv, in_use' = [i \in Slot |-> i \in Kept], free_desc' = Spare, used' = <<>>,
           UNCHANGED <<d, data, addr, next, avail, taken, played, focused>>,
           ret' \in {-1} \cup 0..MaxWrite
    PROVE  TxInv'
  <1>0. TypeOK
    BY DEF TxInv
  <1>1. InUse' = Kept
    BY DEF InUse, Kept
  <1>2. /\ free_desc' \subseteq Desc
        /\ \A e \in Desc : e \in free_desc' <=> \A i \in Kept : e \notin Parts(d[i])
        /\ \A h \in Desc : h \in ToSet(avail) \cup ToSet(taken) \cup played
                             <=> \E i \in Kept : h = d[i][1]
    BY AfterReclaim
  <1>3. Kept \subseteq InUse
    BY DEF Kept
  <1>4. in_use' \in [Slot -> BOOLEAN]
    OBVIOUS
  <1>5. used' \in Seq(Desc) /\ ToSet(used') = {} /\ Once(used')
    BY DEF ToSet, Once
  <1>6. TypeOK'
    BY <1>0, <1>2, <1>4, <1>5 DEF TypeOK
  <1>7. Owned'
    BY <1>1, <1>2, <1>3 DEF Owned, TxInv
  <1>8. Travelling'
    BY <1>1, <1>2, <1>5 DEF Travelling, Heads, TxInv
  <1>9. Linked'
    BY <1>1, <1>3 DEF Linked, TxInv
  <1>. QED
    BY <1>6, <1>7, <1>8, <1>9 DEF TxInv

\* Three different descriptors, when there are three.
LEMMA ThreeOf ==
    ASSUME NEW S, S \subseteq Desc, Cardinality(S) >= 3
    PROVE  LET c == three_of(S)
           IN  /\ c \in S \X S \X S
               /\ c[1] # c[2] /\ c[1] # c[3] /\ c[2] # c[3]
  <1>. DEFINE a == Min(S)  b == Min(S \ {a})  e == Min(S \ {a, b})
  <1>1. S \subseteq Nat /\ IsFiniteSet(S) /\ Cardinality(S) \in Nat
    <2>1. IsFiniteSet(Desc)
      BY SoundAssumption, FS_Interval DEF Desc
    <2>2. S \subseteq Nat
      BY DEF Desc
    <2>3. IsFiniteSet(S)
      BY <2>1, FS_Subset
    <2>. QED
      BY <2>2, <2>3, FS_CardinalityType
  <1>2. S # {}
    BY <1>1, FS_EmptySet
  <1>3. a \in S
    BY <1>1, <1>2, MinMember
  <1>. HIDE DEF a
  <1>4. IsFiniteSet(S \ {a}) /\ Cardinality(S \ {a}) = Cardinality(S) - 1
    BY <1>1, <1>3, FS_RemoveElement
  <1>5. S \ {a} # {}
    BY <1>1, <1>4, FS_EmptySet
  <1>6. b \in S \ {a}
    BY <1>1, <1>5, MinMember
  <1>. HIDE DEF b
  <1>7. /\ IsFiniteSet((S \ {a}) \ {b})
        /\ Cardinality((S \ {a}) \ {b}) = Cardinality(S \ {a}) - 1
    BY <1>4, <1>6, FS_RemoveElement
  <1>8. (S \ {a}) \ {b} # {}
    BY <1>1, <1>4, <1>7, FS_EmptySet
  <1>9. S \ {a, b} # {} /\ S \ {a, b} \subseteq Nat
    BY <1>1, <1>8
  <1>10. e \in S \ {a, b}
    BY <1>9, MinMember
  <1>11. three_of(S) = <<a, b, e>>
    BY DEF three_of, a, b, e
  <1>. HIDE DEF e
  <1>. QED
    BY <1>3, <1>6, <1>10, <1>11

\* What a program writes is a bounded sequence of frames.
LEMMA WriteTypes ==
    ASSUME NEW s \in Writes
    PROVE  s \in Seq(Frame) /\ Len(s) \in 0..MaxWrite
  BY DEF Writes

\* What is copied is the start of the write, at least a frame of it.
LEMMA Copied ==
    ASSUME NEW s \in Writes, Len(s) # 0
    PROVE  /\ copied(s) \in Buffers
           /\ Len(copied(s)) \in 1..Len(s)
           /\ copied(s) = SubSeq(s, 1, Len(copied(s)))
  <1>. DEFINE n == Min({Len(s), BufFrames})
  <1>1. /\ s \in Seq(Frame) /\ Len(s) \in Nat \ {0} /\ BufFrames \in Nat \ {0}
    BY WriteTypes, SoundAssumption
  <1>2. n \in {Len(s), BufFrames} /\ n <= Len(s) /\ n <= BufFrames
    <2>1. {Len(s), BufFrames} \subseteq Nat /\ {Len(s), BufFrames} # {}
      BY <1>1
    <2>. QED
      BY <2>1, MinMember
  <1>3. n \in 1..Len(s) /\ n \in 0..BufFrames
    BY <1>1, <1>2
  <1>. HIDE DEF n
  <1>4. \A i \in 1..n : s[i] \in Frame
    BY <1>1, <1>3
  <1>5. SubSeq(s, 1, n) \in [1..n -> Frame] /\ Len(SubSeq(s, 1, n)) = n
    <2>1. SubSeq(s, 1, n) = [i \in 1..n |-> s[i]]
      BY <1>1, <1>3
    <2>2. SubSeq(s, 1, n) \in [1..n -> Frame]
      BY <1>4, <2>1
    <2>3. Len(SubSeq(s, 1, n)) = n
      BY <1>1, <1>3
    <2>. QED
      BY <2>2, <2>3
  <1>6. copied(s) = SubSeq(s, 1, n)
    BY DEF copied, n
  <1>7. SubSeq(s, 1, n) \in Buffers
    BY <1>3, <1>5 DEF Buffers
  <1>. QED
    BY <1>3, <1>5, <1>6, <1>7

\* What a write takes: a slot nobody keeps and three spare descriptors.
NewSlot == Min(free_slots(Kept))
NewChain == three_of(Spare)

\* A write finds both.
Room == free_slots(Kept) # {} /\ Cardinality(Spare) >= 3

\* The effect of a write that found them.
Accept(s) ==
    /\ used' = <<>> /\ ret' = Len(copied(s))
    /\ in_use' = [i \in Slot |-> i \in Kept \cup {NewSlot}]
    /\ d' = [d EXCEPT ![NewSlot] = NewChain]
    /\ data' = [data EXCEPT ![NewSlot] = copied(s)]
    /\ addr' = [addr EXCEPT ![NewChain[2]] = NewSlot]
    /\ next' = [next EXCEPT ![NewChain[1]] = NewChain[2], ![NewChain[2]] = NewChain[3]]
    /\ free_desc' = Spare \ Parts(NewChain)
    /\ avail' = Append(avail, NewChain[1])
    /\ UNCHANGED <<taken, played, focused>>

\* A write that finds room takes a slot that is not kept and three distinct spare
\* descriptors, none of them part of another chain.
LEMMA TakenForWrite ==
    ASSUME TxInv, Room
    PROVE  /\ NewSlot \in Slot \ Kept
           /\ NewChain \in Desc \X Desc \X Desc
           /\ NewChain[1] \in Desc /\ NewChain[2] \in Desc /\ NewChain[3] \in Desc
           /\ Parts(NewChain) \subseteq Spare
           /\ NewChain[1] # NewChain[2] /\ NewChain[1] # NewChain[3]
           /\ NewChain[2] # NewChain[3]
           /\ \A i \in Kept : Parts(NewChain) \cap Parts(d[i]) = {}
  <1>1. free_slots(Kept) = Slot \ Kept /\ Slot \subseteq Nat
    BY DEF free_slots, Slot
  <1>2. NewSlot \in Slot \ Kept
    BY <1>1, MinMember DEF NewSlot, Room
  <1>3. Spare \subseteq Desc /\ Cardinality(Spare) >= 3
    BY AfterReclaim DEF Room
  <1>4. /\ NewChain \in Spare \X Spare \X Spare
        /\ NewChain[1] # NewChain[2] /\ NewChain[1] # NewChain[3]
        /\ NewChain[2] # NewChain[3]
    BY <1>3, ThreeOf DEF NewChain
  <1>5. NewChain[1] \in Spare /\ NewChain[2] \in Spare /\ NewChain[3] \in Spare
    BY <1>4
  <1>6. NewChain \in Desc \X Desc \X Desc
    BY <1>3, <1>4
  <1>7. \A i \in Kept : \A e \in Spare : e \notin Parts(d[i])
    BY <1>3, AfterReclaim
  <1>. QED
    BY <1>2, <1>3, <1>4, <1>5, <1>6, <1>7 DEF Parts

\* The slots that were kept stay as they were.
LEMMA KeptIntact ==
    ASSUME TxInv, Room, NEW s, Accept(s), NEW i \in Kept
    PROVE  /\ i \in Slot /\ i # NewSlot /\ i \in InUse
           /\ d'[i] = d[i] /\ data'[i] = data[i]
           /\ next'[d[i][1]] = next[d[i][1]] /\ addr'[d[i][2]] = addr[d[i][2]]
  <1>1. i \in Slot /\ i \in InUse /\ TypeOK
    BY DEF Kept, InUse, TxInv
  <1>2. i # NewSlot
    BY TakenForWrite
  <1>3. d[i][1] \in Desc /\ d[i][2] \in Desc
    BY <1>1, TxTypes
  <1>4. /\ d[i][1] # NewChain[1] /\ d[i][1] # NewChain[2] /\ d[i][2] # NewChain[2]
    BY TakenForWrite DEF Parts
  <1>. QED
    BY <1>1, <1>2, <1>3, <1>4 DEF Accept, TypeOK

\* The new slot is linked.
LEMMA NewLinked ==
    ASSUME TxInv, Room, NEW s, Accept(s)
    PROVE  /\ d'[NewSlot] = NewChain /\ data'[NewSlot] = copied(s)
           /\ next'[NewChain[1]] = NewChain[2] /\ addr'[NewChain[2]] = NewSlot
  <1>1. /\ NewSlot \in Slot /\ NewChain[1] \in Desc /\ NewChain[2] \in Desc
        /\ NewChain[1] # NewChain[2]
    BY TakenForWrite
  <1>. QED
    BY <1>1 DEF Accept, TxInv, TypeOK

\* Filling a slot and offering its chain keeps the invariant.
LEMMA AcceptStep ==
    ASSUME TxInv, Room, NEW s \in Writes, Len(s) # 0, Accept(s)
    PROVE  TxInv'
  <1>0. TypeOK
    BY DEF TxInv
  <1>1. /\ NewSlot \in Slot \ Kept /\ NewChain \in Desc \X Desc \X Desc
        /\ NewChain[1] \in Desc /\ NewChain[2] \in Desc /\ NewChain[3] \in Desc
        /\ Parts(NewChain) \subseteq Spare
    BY TakenForWrite
  <1>2. InUse' = Kept \cup {NewSlot}
    BY <1>1 DEF InUse, Kept, Accept
  <1>3. copied(s) \in Buffers /\ ret' \in 0..MaxWrite
    <2>1. copied(s) \in Buffers /\ Len(copied(s)) \in 1..Len(s)
      BY Copied
    <2>2. Len(s) \in 0..MaxWrite /\ MaxWrite \in Nat
      BY WriteTypes, SoundAssumption
    <2>. QED
      BY <2>1, <2>2 DEF Accept
  <1>4. used' \in Seq(Desc) /\ ToSet(used') = {} /\ Once(used')
    BY DEF ToSet, Once, Accept
  <1>5. Spare \subseteq Desc
    BY AfterReclaim
  <1>6. avail' \in Seq(Desc)
    BY <1>0, <1>1, AppendOnce DEF TypeOK, Accept
  <1>7. TypeOK'
    <2>1. in_use' \in [Slot -> BOOLEAN]
      BY DEF Accept
    <2>2. d' \in [Slot -> Desc \X Desc \X Desc] /\ data' \in [Slot -> Buffers]
      BY <1>0, <1>1, <1>3 DEF Accept, TypeOK
    <2>3. addr' \in [Desc -> Slot] /\ next' \in [Desc -> Desc]
      BY <1>0, <1>1 DEF Accept, TypeOK
    <2>4. /\ free_desc' \subseteq Desc /\ taken' \in Seq(Desc) /\ played' \subseteq Desc
          /\ focused' \in BOOLEAN
      BY <1>0, <1>5 DEF Accept, TypeOK
    <2>. QED
      BY <1>3, <1>4, <1>6, <2>1, <2>2, <2>3, <2>4 DEF TypeOK
  <1>8. \A i \in Kept : i \in InUse /\ d'[i] = d[i]
    BY KeptIntact
  <1>9. d'[NewSlot] = NewChain
    BY NewLinked
  <1>10. Owned'
    <2>1. \A e \in Desc : e \in Spare <=> \A i \in Kept : e \notin Parts(d[i])
      BY AfterReclaim
    <2>2. \A e \in Desc : e \in free_desc' <=> \A i \in InUse' : e \notin Parts(d'[i])
      BY <1>2, <1>8, <1>9, <2>1 DEF Accept
    <2>3. \A i \in InUse' : /\ d'[i][1] # d'[i][2] /\ d'[i][1] # d'[i][3]
                            /\ d'[i][2] # d'[i][3]
      BY <1>2, <1>8, <1>9, TakenForWrite DEF TxInv, Owned
    <2>4. \A i \in Kept : Parts(NewChain) \cap Parts(d[i]) = {}
      BY TakenForWrite
    <2>5. \A i, j \in InUse' : i # j => Parts(d'[i]) \cap Parts(d'[j]) = {}
      BY <1>2, <1>8, <1>9, <2>4 DEF TxInv, Owned
    <2>. QED
      BY <2>2, <2>3, <2>5 DEF Owned
  <1>11. Travelling'
    <2>1. /\ \A h \in Desc : h \in ToSet(avail) \cup ToSet(taken) \cup played
                               <=> \E i \in Kept : h = d[i][1]
          /\ \A i \in Kept : Parts(NewChain) \cap Parts(d[i]) = {}
      BY AfterReclaim, TakenForWrite
    <2>2. NewChain[1] \notin ToSet(avail) \cup ToSet(taken) \cup played
      BY <1>1, <2>1 DEF Parts
    <2>3. /\ \A y : y \in ToSet(avail') <=> y \in ToSet(avail) \/ y = NewChain[1]
          /\ Once(avail')
      BY <1>0, <1>1, <2>2, AppendOnce DEF TypeOK, Accept, TxInv, Travelling
    <2>4. taken' = taken /\ played' = played
      BY DEF Accept
    <2>5. \A h \in Desc : h \in Heads' <=> \E i \in InUse' : h = d'[i][1]
      BY <1>2, <1>4, <1>8, <1>9, <2>1, <2>3, <2>4 DEF Heads
    <2>. QED
      BY <1>4, <2>2, <2>3, <2>4, <2>5 DEF Travelling, TxInv
  <1>12. Linked'
    BY <1>2, <1>9, KeptIntact, NewLinked DEF Linked, TxInv
  <1>. QED
    BY <1>7, <1>10, <1>11, <1>12 DEF TxInv

\* The effect of snd_tx_reclaim alone.
Reclaim ==
    /\ in_use' = [i \in Slot |-> i \in Kept] /\ free_desc' = Spare /\ used' = <<>>
    /\ UNCHANGED <<d, data, addr, next, avail, taken, played, focused>>

\* What a write to "audio" comes to.
LEMMA WriteCases ==
    ASSUME TxInv, NEW s \in Writes, audio_write(s)
    PROVE  \/ ~focused /\ ret' = Len(s) /\ UNCHANGED <<tx, avail, taken, played, used, focused>>
           \/ focused /\ ret' = -1 /\ UNCHANGED <<tx, avail, taken, played, used, focused>>
           \/ focused /\ ret' \in {-1, 0} /\ Reclaim
           \/ focused /\ Len(s) # 0 /\ Room /\ Accept(s)
  <1>1. CASE ~focused
    BY <1>1 DEF audio_write
  <1>2. CASE focused /\ Len(s) = 0
    BY <1>2 DEF audio_write, virtio_sound_write
  <1>3. CASE focused /\ Len(s) # 0 /\ ~Room
    <2>1. free_slots(Kept) = {} \/ Cardinality(Spare) < 3
      <3>1. IsFiniteSet(Desc) /\ Spare \subseteq Desc
        BY SoundAssumption, FS_Interval, AfterReclaim DEF Desc
      <3>2. Cardinality(Spare) \in Nat
        BY <3>1, FS_Subset, FS_CardinalityType
      <3>. QED
        BY <1>3, <3>2 DEF Room
    <2>2. Reclaim /\ ret' \in {-1, 0}
      BY <1>3, <2>1 DEF audio_write, virtio_sound_write, Reclaim, after_failure,
                        Kept, Spare, Back, InUse
    <2>. QED
      BY <1>3, <2>2
  <1>4. CASE focused /\ Len(s) # 0 /\ Room
    <2>1. ~(free_slots(Kept) = {} \/ Cardinality(Spare) < 3)
      <3>1. IsFiniteSet(Desc) /\ Spare \subseteq Desc
        BY SoundAssumption, FS_Interval, AfterReclaim DEF Desc
      <3>2. Cardinality(Spare) \in Nat
        BY <3>1, FS_Subset, FS_CardinalityType
      <3>. QED
        BY <1>4, <3>2 DEF Room
    <2>2. Accept(s)
      BY <1>4, <2>1 DEF audio_write, virtio_sound_write, Accept, NewSlot, NewChain,
                        Kept, Spare, Back, InUse
    <2>. QED
      BY <1>4, <2>2
  <1>. QED
    BY <1>1, <1>2, <1>3, <1>4

\* A write, whether it is refused, empty or accepted, keeps the invariant.
LEMMA WriteStep ==
    ASSUME TxInv, NEW s \in Writes, audio_write(s)
    PROVE  TxInv'
  <1>1. Len(s) \in 0..MaxWrite /\ MaxWrite \in Nat
    BY WriteTypes, SoundAssumption
  <1>2. ASSUME ret' = Len(s) \/ ret' = -1,
               UNCHANGED <<tx, avail, taken, played, used, focused>>
        PROVE  TxInv'
    <2>1. ret' \in {-1} \cup 0..MaxWrite
      BY <1>1, <1>2
    <2>. QED
      BY <1>2, <2>1 DEF TxInv, TypeOK, Owned, Travelling, Linked, InUse, Heads, tx
  <1>3. ASSUME ret' \in {-1, 0}, Reclaim PROVE TxInv'
    <2>1. ret' \in {-1} \cup 0..MaxWrite
      BY <1>1, <1>3
    <2>. QED
      BY <1>3, <2>1, ReclaimStep DEF Reclaim
  <1>4. ASSUME Len(s) # 0, Room, Accept(s) PROVE TxInv'
    BY <1>4, AcceptStep
  <1>. QED
    BY <1>2, <1>3, <1>4, WriteCases

\* All slots and descriptors are free at the start.
LEMMA TxInvInit == Init => TxInv
  <1>. SUFFICES ASSUME Init PROVE TxInv
    OBVIOUS
  <1>1. InUse = {} /\ ToSet(avail) = {} /\ ToSet(taken) = {} /\ ToSet(used) = {}
    BY DEF Init, InUse, ToSet
  <1>2. TypeOK
    <2>1. Slot # {} => 0 \in Slot
      BY SoundAssumption DEF Slot
    <2>2. 0 \in Desc
      BY SoundAssumption DEF Desc
    <2>. QED
      BY <2>1, <2>2 DEF Init, TypeOK
  <1>. QED
    BY <1>1, <1>2 DEF TxInv, Owned, Travelling, Linked, Heads, Once, Init

\* Every step of driver or device keeps the invariant.
LEMMA TxInvStep == TxInv /\ [Next]_vars => TxInv'
  <1>. SUFFICES ASSUME TxInv, [Next]_vars PROVE TxInv'
    OBVIOUS
  <1>0. TypeOK
    BY DEF TxInv
  <1>1. ASSUME NEW s \in Writes, audio_write(s) PROVE TxInv'
    BY <1>1, WriteStep
  <1>2. CASE virtio_sound_poll
    <2>1. Reclaim /\ ret' = ret
      BY <1>2 DEF virtio_sound_poll, Reclaim, Kept, Spare, Back, InUse
    <2>. QED
      BY <1>0, <2>1, ReclaimStep DEF Reclaim, TypeOK
  <1>3. CASE set_focus
    BY <1>3 DEF set_focus, TxInv, TypeOK, Owned, Travelling, Linked, InUse, Heads, tx
  <1>4. CASE device_take
    <2>1. /\ avail # <<>> /\ avail \in Seq(Desc) /\ taken \in Seq(Desc)
          /\ Once(avail) /\ Once(taken) /\ ToSet(avail) \cap ToSet(taken) = {}
      BY <1>0, <1>4 DEF device_take, TypeOK, TxInv, Travelling
    <2>2. /\ avail' \in Seq(Desc) /\ Once(avail') /\ Head(avail) \in Desc
          /\ \A y : y \in ToSet(avail) <=> y = Head(avail) \/ y \in ToSet(avail')
          /\ Head(avail) \notin ToSet(avail')
      BY <1>4, <2>1, TailOnce DEF device_take
    <2>3. /\ taken' \in Seq(Desc) /\ Once(taken')
          /\ \A y : y \in ToSet(taken') <=> y \in ToSet(taken) \/ y = Head(avail)
      BY <1>4, <2>1, <2>2, AppendOnce DEF device_take
    <2>4. Travelling'
      <3>1. Heads' = Heads
        BY <1>4, <2>2, <2>3 DEF device_take, Heads
      <3>. QED
        BY <1>4, <2>2, <2>3, <3>1 DEF device_take, tx, TxInv, Travelling, InUse
    <2>. QED
      BY <1>0, <1>4, <2>2, <2>3, <2>4
         DEF device_take, tx, TxInv, TypeOK, Owned, Linked, InUse
  <1>5. CASE device_play
    <2>1. taken # <<>> /\ taken \in Seq(Desc) /\ Once(taken)
      BY <1>0, <1>5 DEF device_play, TypeOK, TxInv, Travelling
    <2>2. /\ taken' \in Seq(Desc) /\ Once(taken') /\ Head(taken) \in Desc
          /\ \A y : y \in ToSet(taken) <=> y = Head(taken) \/ y \in ToSet(taken')
          /\ Head(taken) \notin ToSet(taken')
      BY <1>5, <2>1, TailOnce DEF device_play
    <2>3. played' = played \cup {Head(taken)}
      BY <1>5 DEF device_play
    <2>4. Travelling'
      <3>1. Heads' = Heads
        BY <1>5, <2>2, <2>3 DEF device_play, Heads
      <3>. QED
        BY <1>5, <2>2, <2>3, <3>1 DEF device_play, tx, TxInv, Travelling, InUse
    <2>. QED
      BY <1>0, <1>5, <2>2, <2>3, <2>4
         DEF device_play, tx, TxInv, TypeOK, Owned, Linked, InUse
  <1>6. ASSUME NEW h \in Desc, device_done(h) PROVE TxInv'
    <2>1. used \in Seq(Desc) /\ Once(used) /\ h \in played /\ h \notin ToSet(used)
      BY <1>0, <1>6 DEF device_done, TypeOK, TxInv, Travelling
    <2>2. /\ used' \in Seq(Desc) /\ Once(used')
          /\ \A y : y \in ToSet(used') <=> y \in ToSet(used) \/ y = h
      BY <1>6, <2>1, AppendOnce DEF device_done
    <2>3. played' = played \ {h}
      BY <1>6 DEF device_done
    <2>4. Travelling'
      <3>1. Heads' = Heads
        BY <1>6, <2>1, <2>2, <2>3 DEF device_done, Heads
      <3>. QED
        BY <1>6, <2>1, <2>2, <2>3, <3>1 DEF device_done, tx, TxInv, Travelling, InUse
    <2>. QED
      BY <1>0, <1>6, <2>2, <2>3, <2>4
         DEF device_done, tx, TxInv, TypeOK, Owned, Linked, InUse
  <1>7. CASE UNCHANGED vars
    BY <1>7 DEF vars, TxInv, TypeOK, Owned, Travelling, Linked, InUse, Heads
  <1>. QED
    BY <1>1, <1>2, <1>3, <1>4, <1>5, <1>6, <1>7 DEF Next

\* Every descriptor has one owner, the heads of the slots in use travel through
\* rings and device without being doubled, and lead to their buffers.
THEOREM TxInvHolds == Spec => []TxInv
  BY TxInvInit, TxInvStep, PTL DEF Spec

-----------------------------------------------------------------------------
(* What the invariant says of slots and descriptors.                       *)

\* A function has at most as many values as arguments, and as many when it is
\* injective.
LEMMA ValuesCount ==
    ASSUME NEW S, IsFiniteSet(S), NEW V, NEW f \in [S -> V],
           \A v \in V : \E i \in S : f[i] = v
    PROVE  /\ IsFiniteSet(V) /\ Cardinality(V) \in Nat
           /\ Cardinality(V) <= Cardinality(S)
           /\ (\A i, j \in S : f[i] = f[j] => i = j) => Cardinality(V) = Cardinality(S)
  <1>1. f \in Surjection(S, V)
    BY DEF Surjection
  <1>2. (\A i, j \in S : f[i] = f[j] => i = j) => f \in Injection(S, V)
    BY <1>1 DEF Surjection, Injection, IsInjective
  <1>3. /\ IsFiniteSet(V) /\ Cardinality(V) <= Cardinality(S)
        /\ (Cardinality(V) = Cardinality(S) <=> f \in Injection(S, V))
    BY <1>1, FS_Surjection
  <1>4. Cardinality(V) \in Nat
    BY <1>3, FS_CardinalityType
  <1>5. (\A i, j \in S : f[i] = f[j] => i = j) => Cardinality(V) = Cardinality(S)
    BY <1>2, <1>3, Zenon
  <1>. QED
    BY <1>3, <1>4, <1>5

\* Three distinct parts are three.
LEMMA ThreeParts ==
    ASSUME NEW a, NEW b, NEW c, a # b, a # c, b # c
    PROVE  Cardinality({a, b, c}) = 3
  <1>1. IsFiniteSet({a}) /\ Cardinality({a}) = 1
    BY FS_Singleton
  <1>2. IsFiniteSet({a} \cup {b}) /\ Cardinality({a} \cup {b}) = 2
    <2>1. b \notin {a}
      OBVIOUS
    <2>. QED
      BY <1>1, <2>1, FS_AddElement
  <1>3. Cardinality(({a} \cup {b}) \cup {c}) = 3
    <2>1. c \notin {a} \cup {b}
      OBVIOUS
    <2>. QED
      BY <1>2, <2>1, FS_AddElement
  <1>4. ({a} \cup {b}) \cup {c} = {a, b, c}
    OBVIOUS
  <1>. QED
    BY <1>3, <1>4

\* The sizes of disjoint finite sets add up.
LEMMA DisjointUnion ==
    ASSUME NEW S, IsFiniteSet(S), NEW T, IsFiniteSet(T), S \cap T = {}
    PROVE  /\ IsFiniteSet(S \cup T)
           /\ Cardinality(S \cup T) = Cardinality(S) + Cardinality(T)
  <1>1. /\ IsFiniteSet(S \cup T)
        /\ Cardinality(S \cup T) = Cardinality(S) + Cardinality(T) - Cardinality(S \cap T)
    BY FS_Union
  <1>2. Cardinality(S \cap T) = 0
    BY FS_EmptySet
  <1>3. Cardinality(S) \in Nat /\ Cardinality(T) \in Nat
    BY FS_CardinalityType
  <1>. QED
    BY <1>1, <1>2, <1>3

\* There are as many slots and descriptors as the driver declares.
LEMMA SlotsFinite ==
    ASSUME TypeOK
    PROVE  /\ IsFiniteSet(Slot) /\ Cardinality(Slot) = Slots
           /\ IsFiniteSet(Desc) /\ Cardinality(Desc) = TxDesc
           /\ IsFiniteSet(InUse) /\ Cardinality(InUse) \in Nat
           /\ InUse # Slot => Cardinality(InUse) < Slots
  <1>1. /\ Slots \in Nat \ {0} /\ TxDesc \in Nat \ {0} /\ 0 \in Int
        /\ Slots - 1 \in Int /\ TxDesc - 1 \in Int
    BY SoundAssumption
  <1>2. /\ IsFiniteSet(0..(Slots - 1))
        /\ Cardinality(0..(Slots - 1)) = IF 0 > Slots - 1 THEN 0 ELSE Slots - 1 - 0 + 1
        /\ IsFiniteSet(0..(TxDesc - 1))
        /\ Cardinality(0..(TxDesc - 1)) = IF 0 > TxDesc - 1 THEN 0 ELSE TxDesc - 1 - 0 + 1
    BY <1>1, FS_Interval, Zenon
  <1>3. /\ IsFiniteSet(Slot) /\ Cardinality(Slot) = Slots
        /\ IsFiniteSet(Desc) /\ Cardinality(Desc) = TxDesc
    BY <1>1, <1>2 DEF Slot, Desc
  <1>4. /\ IsFiniteSet(InUse) /\ Cardinality(InUse) <= Cardinality(Slot)
        /\ Cardinality(Slot) = Cardinality(InUse) => Slot = InUse
    <2>1. InUse \in SUBSET Slot
      BY DEF InUse
    <2>. QED
      BY <1>3, <2>1, FS_Subset
  <1>5. Cardinality(InUse) \in Nat
    BY <1>4, FS_CardinalityType
  <1>. QED
    BY <1>1, <1>3, <1>4, <1>5

\* The invariant gives what the run checks of the descriptors' owners.
LEMMA OwnedMeans == TxInv => DescOwned
  <1>. SUFFICES ASSUME TxInv PROVE DescOwned
    OBVIOUS
  <1>1. \A e : e \in UNION {Parts(d[i]) : i \in InUse} <=> \E i \in InUse : e \in Parts(d[i])
    OBVIOUS
  <1>2. free_desc \subseteq Desc
    BY DEF TxInv, TypeOK
  <1>3. free_desc = Desc \ UNION {Parts(d[i]) : i \in InUse}
    BY <1>1, <1>2 DEF TxInv, Owned
  <1>4. \A i \in InUse : Cardinality(Parts(d[i])) = 3
    <2>. SUFFICES ASSUME NEW i \in InUse PROVE Cardinality(Parts(d[i])) = 3
      OBVIOUS
    <2>1. d[i][1] # d[i][2] /\ d[i][1] # d[i][3] /\ d[i][2] # d[i][3]
      BY DEF TxInv, Owned
    <2>2. Cardinality({d[i][1], d[i][2], d[i][3]}) = 3
      BY <2>1, ThreeParts, Zenon
    <2>. QED
      BY <2>2 DEF Parts
  <1>. QED
    BY <1>3, <1>4 DEF DescOwned, TxInv, Owned

\* The counts of rings and device add up.
LEMMA TravellingMeans == TxInv => InUseIsInFlight
  <1>. SUFFICES ASSUME TxInv PROVE InUseIsInFlight
    OBVIOUS
  <1>0. /\ TypeOK /\ Travelling /\ Owned
        /\ IsFiniteSet(InUse) /\ Cardinality(InUse) \in Nat /\ InUse \subseteq Slot
        /\ IsFiniteSet(Desc)
    BY SlotsFinite, TxTypes DEF TxInv
  <1>. DEFINE f == [i \in InUse |-> d[i][1]]
  <1>1. Heads \subseteq Desc
    BY <1>0, TxTypes DEF Heads
  <1>2. \A i \in InUse : d[i][1] \in Desc
    BY <1>0, TxTypes
  <1>3. Heads = {d[i][1] : i \in InUse}
    BY <1>0, <1>1, <1>2 DEF Travelling
  <1>4. f \in [InUse -> Heads] /\ \A h \in Heads : \E i \in InUse : f[i] = h
    BY <1>2, <1>3
  <1>5. \A i, j \in InUse : f[i] = f[j] => i = j
    BY <1>0 DEF Owned, Parts
  <1>. HIDE DEF f
  <1>6. Cardinality(Heads) = Cardinality(InUse)
    BY <1>0, <1>4, <1>5, ValuesCount
  <1>7. /\ IsFiniteSet(ToSet(avail)) /\ Cardinality(ToSet(avail)) = Len(avail)
        /\ IsFiniteSet(ToSet(taken)) /\ Cardinality(ToSet(taken)) = Len(taken)
        /\ IsFiniteSet(ToSet(used)) /\ Cardinality(ToSet(used)) = Len(used)
        /\ Len(avail) \in Nat /\ Len(taken) \in Nat /\ Len(used) \in Nat
    BY <1>0, OnceCounts DEF TypeOK, Travelling
  <1>8. IsFiniteSet(played) /\ Cardinality(played) \in Nat
    BY <1>0, FS_Subset, FS_CardinalityType DEF TypeOK
  <1>. DEFINE A == ToSet(avail)  B == ToSet(taken)  C == ToSet(used)
  <1>9. A \cap B = {} /\ (A \cup B) \cap played = {} /\ (A \cup B \cup played) \cap C = {}
    BY <1>0 DEF Travelling
  <1>10. Heads = (A \cup B \cup played) \cup C
    BY DEF Heads
  <1>. HIDE DEF A, B, C
  <1>11. /\ IsFiniteSet(A) /\ Cardinality(A) = Len(avail)
         /\ IsFiniteSet(B) /\ Cardinality(B) = Len(taken)
         /\ IsFiniteSet(C) /\ Cardinality(C) = Len(used)
    BY <1>7 DEF A, B, C
  <1>13. IsFiniteSet(A \cup B) /\ Cardinality(A \cup B) = Len(avail) + Len(taken)
    <2>1. IsFiniteSet(A) /\ IsFiniteSet(B) /\ A \cap B = {}
      BY <1>9, <1>11
    <2>2. IsFiniteSet(A \cup B) /\ Cardinality(A \cup B) = Cardinality(A) + Cardinality(B)
      BY <2>1, DisjointUnion
    <2>. QED
      BY <1>11, <2>2
  <1>14. /\ IsFiniteSet(A \cup B \cup played)
         /\ Cardinality(A \cup B \cup played) = Len(avail) + Len(taken) + Cardinality(played)
    BY <1>8, <1>9, <1>13, DisjointUnion
  <1>15. Cardinality((A \cup B \cup played) \cup C)
           = Len(avail) + Len(taken) + Cardinality(played) + Len(used)
    BY <1>9, <1>11, <1>14, DisjointUnion
  <1>. QED
    BY <1>3, <1>6, <1>10, <1>15 DEF InUseIsInFlight

\* Five slots cannot use up sixteen descriptors.
LEMMA AllocMeans == TxInv => AllocSuffices
  <1>. SUFFICES ASSUME TxInv, 3 * Slots <= TxDesc, InUse # Slot
                PROVE  Cardinality(free_desc) >= 3
    BY DEF AllocSuffices
  <1>0. /\ TypeOK /\ IsFiniteSet(Desc) /\ Cardinality(Desc) = TxDesc
        /\ IsFiniteSet(InUse) /\ Cardinality(InUse) \in Nat /\ Cardinality(InUse) < Slots
        /\ InUse \subseteq Slot /\ Slots \in Nat /\ TxDesc \in Nat
    BY SlotsFinite, TxTypes, SoundAssumption DEF TxInv
  <1>. DEFINE f1 == [i \in InUse |-> d[i][1]]  f2 == [i \in InUse |-> d[i][2]]
              f3 == [i \in InUse |-> d[i][3]]
              V1 == {f1[i] : i \in InUse}  V2 == {f2[i] : i \in InUse}
              V3 == {f3[i] : i \in InUse}
              n == Cardinality(InUse)
              U == (V1 \cup V2) \cup V3
  <1>1. U = UNION {Parts(d[i]) : i \in InUse}
    BY DEF Parts
  <1>2. free_desc = Desc \ U
    BY <1>1, OwnedMeans DEF DescOwned
  <1>3. /\ f1 \in [InUse -> V1] /\ \A v \in V1 : \E i \in InUse : f1[i] = v
        /\ f2 \in [InUse -> V2] /\ \A v \in V2 : \E i \in InUse : f2[i] = v
        /\ f3 \in [InUse -> V3] /\ \A v \in V3 : \E i \in InUse : f3[i] = v
    OBVIOUS
  <1>. HIDE DEF f1, f2, f3, V1, V2, V3
  <1>4. /\ IsFiniteSet(V1) /\ Cardinality(V1) \in Nat /\ Cardinality(V1) <= n
        /\ IsFiniteSet(V2) /\ Cardinality(V2) \in Nat /\ Cardinality(V2) <= n
        /\ IsFiniteSet(V3) /\ Cardinality(V3) \in Nat /\ Cardinality(V3) <= n
    <2>1. IsFiniteSet(V1) /\ Cardinality(V1) \in Nat /\ Cardinality(V1) <= n
      BY <1>0, <1>3, ValuesCount
    <2>2. IsFiniteSet(V2) /\ Cardinality(V2) \in Nat /\ Cardinality(V2) <= n
      BY <1>0, <1>3, ValuesCount
    <2>3. IsFiniteSet(V3) /\ Cardinality(V3) \in Nat /\ Cardinality(V3) <= n
      BY <1>0, <1>3, ValuesCount
    <2>. QED
      BY <2>1, <2>2, <2>3
  <1>. HIDE DEF V1, V2, V3
  <1>5. IsFiniteSet(V1 \cup V2) /\ Cardinality(V1 \cup V2) <= 2 * n /\ Cardinality(V1 \cup V2) \in Nat
    <2>1. /\ IsFiniteSet(V1 \cup V2)
          /\ Cardinality(V1 \cup V2) = Cardinality(V1) + Cardinality(V2) - Cardinality(V1 \cap V2)
      BY <1>4, FS_Union
    <2>2. Cardinality(V1 \cap V2) \in Nat
      BY <1>4, FS_Intersection, FS_CardinalityType
    <2>3. Cardinality(V1 \cup V2) \in Nat
      BY <2>1, FS_CardinalityType
    <2>. QED
      BY <1>0, <1>4, <2>1, <2>2, <2>3
  <1>6. IsFiniteSet(U) /\ Cardinality(U) <= 3 * n /\ Cardinality(U) \in Nat
    <2>1. /\ IsFiniteSet(U)
          /\ Cardinality(U) = Cardinality(V1 \cup V2) + Cardinality(V3)
                               - Cardinality((V1 \cup V2) \cap V3)
      BY <1>4, <1>5, FS_Union
    <2>2. Cardinality((V1 \cup V2) \cap V3) \in Nat
      BY <1>4, <1>5, FS_Intersection, FS_CardinalityType
    <2>3. Cardinality(U) \in Nat
      BY <2>1, FS_CardinalityType
    <2>. QED
      BY <1>0, <1>4, <1>5, <2>1, <2>2, <2>3
  <1>. HIDE DEF U
  <1>7. Cardinality(Desc \ U) = TxDesc - Cardinality(Desc \cap U)
    BY <1>0, FS_Difference
  <1>8. Cardinality(Desc \cap U) <= Cardinality(U) /\ Cardinality(Desc \cap U) \in Nat
    BY <1>6, FS_Subset, FS_CardinalityType
  <1>. QED
    BY <1>0, <1>2, <1>6, <1>7, <1>8

\* Descriptors have one owner, a slot is in use exactly while its head is on its
\* way, and a free slot finds its descriptors, for any number of slots and
\* descriptors and any order of completions (virtio_sound_write, snd_tx_reclaim).
THEOREM SlotsAlwaysConsistent == Spec => []SlotsConsistent
  <1>1. TxInv => SlotsConsistent
    BY OwnedMeans, TravellingMeans, AllocMeans DEF SlotsConsistent, TxInv
  <1>. QED
    BY <1>1, TxInvHolds, PTL

-----------------------------------------------------------------------------
(* The transmit queue implements the stream of sound.                      *)

\* The buffers the heads of a queue lead to.
LEMMA Followed ==
    ASSUME NEW D, NEW I, NEW B, NEW q \in Seq(D), NEW nx \in [D -> D],
           NEW ad \in [D -> I], NEW bu \in [I -> B],
           NEW p, p = [i \in 1..Len(q) |-> bu[ad[nx[q[i]]]]]
    PROVE  /\ p \in Seq(B) /\ Len(p) = Len(q) /\ Len(q) \in Nat
           /\ \A i \in 1..Len(q) : q[i] \in D /\ p[i] = bu[ad[nx[q[i]]]]
  <1>1. Len(q) \in Nat /\ \A i \in 1..Len(q) : q[i] \in D
    BY LenProperties
  <1>2. \A i \in 1..Len(q) : bu[ad[nx[q[i]]]] \in B
    BY <1>1
  <1>3. p \in [1..Len(q) -> B]
    BY <1>2
  <1>4. p \in Seq(B) /\ Len(p) = Len(q)
    BY <1>1, <1>3
  <1>. QED
    BY <1>1, <1>4

\* What the device has still to play.
Queue == taken \o avail

\* The elements of a concatenation come from one of its parts.
LEMMA QueueTypes ==
    ASSUME NEW D, NEW s \in Seq(D), NEW t \in Seq(D)
    PROVE  /\ s \o t \in Seq(D) /\ Len(s \o t) = Len(s) + Len(t)
           /\ \A x \in D : (\E i \in 1..Len(s \o t) : (s \o t)[i] = x)
                            => x \in ToSet(s) \/ x \in ToSet(t)
  <1>1. /\ s \o t \in Seq(D) /\ Len(s \o t) = Len(s) + Len(t)
        /\ \A i \in 1..(Len(s) + Len(t)) :
             (s \o t)[i] = IF i <= Len(s) THEN s[i] ELSE t[i - Len(s)]
        /\ Len(s) \in Nat /\ Len(t) \in Nat
    BY ConcatProperties, LenProperties
  <1>2. ASSUME NEW i \in 1..(Len(s) + Len(t))
        PROVE  (s \o t)[i] \in ToSet(s) \/ (s \o t)[i] \in ToSet(t)
    <2>1. CASE i <= Len(s)
      <3>1. i \in 1..Len(s) /\ (s \o t)[i] = s[i]
        BY <1>1, <2>1
      <3>. QED
        BY <3>1, InRange
    <2>2. CASE ~(i <= Len(s))
      <3>1. i - Len(s) \in 1..Len(t) /\ (s \o t)[i] = t[i - Len(s)]
        BY <1>1, <2>2
      <3>. QED
        BY <3>1, InRange
    <2>. QED
      BY <2>1, <2>2
  <1>. QED
    BY <1>1, <1>2

\* A head moves from the available ring to the device: the queue is the same.
LEMMA TakeKeepsQueue ==
    ASSUME NEW D, NEW s \in Seq(D), NEW t \in Seq(D), t # <<>>
    PROVE  Append(s, Head(t)) \o Tail(t) = s \o t
  <1>1. Head(t) \in D /\ Tail(t) \in Seq(D) /\ <<Head(t)>> \in Seq(D)
    BY HeadTailProperties
  <1>2. Append(s, Head(t)) = s \o <<Head(t)>>
    BY <1>1, AppendIsConcat
  <1>3. (s \o <<Head(t)>>) \o Tail(t) = s \o (<<Head(t)>> \o Tail(t))
    BY <1>1, ConcatAssociative
  <1>4. <<Head(t)>> \o Tail(t) = t
    <2>. DEFINE u == <<Head(t)>>  v == Tail(t)  w == u \o v
    <2>1. /\ Len(u) = 1 /\ u[1] = t[1] /\ Len(v) = Len(t) - 1 /\ Len(t) \in Nat
          /\ Len(t) > 0 /\ \A i \in 1..Len(v) : v[i] = t[i + 1]
      BY HeadTailProperties, EmptySeq
    <2>2. u \in Seq(D) /\ v \in Seq(D)
      BY <1>1
    <2>. HIDE DEF u, v
    <2>3. /\ w \in Seq(D) /\ Len(w) = Len(u) + Len(v)
          /\ \A i \in 1..(Len(u) + Len(v)) :
               w[i] = IF i <= Len(u) THEN u[i] ELSE v[i - Len(u)]
      BY <2>2, ConcatProperties
    <2>. HIDE DEF w
    <2>4. Len(w) = Len(t) /\ \A i \in 1..Len(w) : w[i] = t[i]
      <3>. SUFFICES ASSUME NEW i \in 1..Len(t) PROVE Len(w) = Len(t) /\ w[i] = t[i]
        BY <2>1, <2>3
      <3>1. CASE i = 1
        BY <2>1, <2>3, <3>1
      <3>2. CASE i # 1
        <4>1. i - 1 \in 1..Len(v) /\ v[i - 1] = t[(i - 1) + 1] /\ (i - 1) + 1 = i
          BY <2>1, <3>2
        <4>. QED
          BY <2>1, <2>3, <3>2, <4>1
      <3>. QED
        BY <3>1, <3>2
    <2>5. w = t
      BY <2>3, <2>4, SeqEqual
    <2>. QED
      BY <2>5 DEF w, u, v
  <1>. QED
    BY <1>2, <1>3, <1>4

\* A new head is the last of the queue.
LEMMA AppendToQueue ==
    ASSUME NEW D, NEW s \in Seq(D), NEW t \in Seq(D), NEW x \in D
    PROVE  s \o Append(t, x) = Append(s \o t, x)
  <1>1. <<x>> \in Seq(D) /\ s \o t \in Seq(D)
    BY ConcatProperties
  <1>2. Append(t, x) = t \o <<x>> /\ Append(s \o t, x) = (s \o t) \o <<x>>
    BY <1>1, AppendIsConcat
  <1>. QED
    BY <1>1, <1>2, ConcatAssociative

\* The head that is played is the first of the queue.
LEMMA TailOfQueue ==
    ASSUME NEW D, NEW s \in Seq(D), NEW t \in Seq(D), s # <<>>
    PROVE  s \o t # <<>> /\ Tail(s) \o t = Tail(s \o t)
  <1>. DEFINE u == s \o t  v == Tail(s)  w == Tail(s) \o t
  <1>1. /\ Len(s) \in Nat /\ Len(t) \in Nat /\ Len(s) > 0
        /\ v \in Seq(D) /\ Len(v) = Len(s) - 1 /\ \A i \in 1..Len(v) : v[i] = s[i + 1]
    BY HeadTailProperties, EmptySeq, LenProperties
  <1>2. /\ u \in Seq(D) /\ Len(u) = Len(s) + Len(t)
        /\ \A i \in 1..(Len(s) + Len(t)) : u[i] = IF i <= Len(s) THEN s[i] ELSE t[i - Len(s)]
    BY ConcatProperties
  <1>3. /\ w \in Seq(D) /\ Len(w) = Len(v) + Len(t)
        /\ \A i \in 1..(Len(v) + Len(t)) : w[i] = IF i <= Len(v) THEN v[i] ELSE t[i - Len(v)]
    BY <1>1, ConcatProperties
  <1>. HIDE DEF u, v, w
  <1>4. u # <<>>
    BY <1>1, <1>2, EmptySeq
  <1>5. /\ Tail(u) \in Seq(D) /\ Len(Tail(u)) = Len(u) - 1
        /\ \A i \in 1..Len(Tail(u)) : Tail(u)[i] = u[i + 1]
    BY <1>2, <1>4, HeadTailProperties
  <1>6. ASSUME NEW i \in 1..Len(w) PROVE w[i] = Tail(u)[i]
    <2>1. i + 1 \in 1..(Len(s) + Len(t)) /\ i \in 1..Len(Tail(u)) /\ Tail(u)[i] = u[i + 1]
      BY <1>1, <1>2, <1>3, <1>5
    <2>2. CASE i <= Len(v)
      <3>1. i \in 1..Len(v) /\ i + 1 <= Len(s)
        BY <1>1, <2>2
      <3>. QED
        BY <1>1, <1>2, <1>3, <2>1, <2>2, <3>1
    <2>3. CASE ~(i <= Len(v))
      <3>1. ~(i + 1 <= Len(s)) /\ (i + 1) - Len(s) = i - Len(v)
        BY <1>1, <2>3
      <3>. QED
        BY <1>2, <1>3, <2>1, <2>3, <3>1
    <2>. QED
      BY <2>2, <2>3
  <1>7. Len(w) = Len(Tail(u))
    BY <1>1, <1>2, <1>3, <1>5
  <1>8. w = Tail(u)
    BY <1>3, <1>5, <1>6, <1>7, SeqEqual
  <1>. QED
    BY <1>4, <1>8 DEF u, w

\* What remains to be played is, place by place, the data of the queued chains.
LEMMA ToPlayIs ==
    ASSUME TypeOK
    PROVE  /\ Queue \in Seq(Desc) /\ ToPlay \in Seq(Buffers)
           /\ Len(ToPlay) = Len(Queue) /\ Len(Queue) \in Nat
           /\ \A i \in 1..Len(Queue) : /\ Queue[i] \in Desc
                                       /\ Queue[i] \in ToSet(taken) \cup ToSet(avail)
                                       /\ ToPlay[i] = data[addr[next[Queue[i]]]]
  <1>1. Queue \in Seq(Desc)
    BY QueueTypes DEF TypeOK, Queue
  <1>2. /\ next \in [Desc -> Desc] /\ addr \in [Desc -> Slot] /\ data \in [Slot -> Buffers]
        /\ ToPlay = [i \in 1..Len(Queue) |-> data[addr[next[Queue[i]]]]]
    BY DEF TypeOK, ToPlay, Queue
  <1>3. /\ ToPlay \in Seq(Buffers) /\ Len(ToPlay) = Len(Queue) /\ Len(Queue) \in Nat
        /\ \A i \in 1..Len(Queue) : /\ Queue[i] \in Desc
                                    /\ ToPlay[i] = data[addr[next[Queue[i]]]]
    BY <1>1, <1>2, Followed
  <1>4. \A i \in 1..Len(Queue) : Queue[i] \in ToSet(taken) \cup ToSet(avail)
    <2>1. \A x \in Desc : (\E i \in 1..Len(taken \o avail) : (taken \o avail)[i] = x)
                           => x \in ToSet(taken) \/ x \in ToSet(avail)
      BY QueueTypes DEF TypeOK
    <2>. QED
      BY <1>3, <2>1 DEF Queue
  <1>. QED
    BY <1>1, <1>3, <1>4

\* What an accepted write brings comes last, and nothing before it changes: the
\* slot and the descriptors it takes are not on the way of any head in the queue.
LEMMA AcceptAppends ==
    ASSUME TxInv, Room, NEW s \in Writes, Len(s) # 0, Accept(s)
    PROVE  ToPlay' = Append(ToPlay, copied(s))
  <1>0. TypeOK /\ TypeOK'
    BY AcceptStep DEF TxInv
  <1>1. /\ Queue \in Seq(Desc) /\ ToPlay \in Seq(Buffers)
        /\ Len(ToPlay) = Len(Queue) /\ Len(Queue) \in Nat
        /\ \A i \in 1..Len(Queue) : /\ Queue[i] \in Desc
                                    /\ Queue[i] \in ToSet(taken) \cup ToSet(avail)
                                    /\ ToPlay[i] = data[addr[next[Queue[i]]]]
    BY <1>0, ToPlayIs
  <1>2. NewChain[1] \in Desc
    BY TakenForWrite
  <1>3. Queue' = Append(Queue, NewChain[1])
    <2>1. taken \in Seq(Desc) /\ avail \in Seq(Desc)
      BY <1>0 DEF TypeOK
    <2>2. taken \o Append(avail, NewChain[1]) = Append(taken \o avail, NewChain[1])
      BY <1>2, <2>1, AppendToQueue
    <2>3. taken' = taken /\ avail' = Append(avail, NewChain[1])
      BY DEF Accept
    <2>. QED
      BY <2>2, <2>3 DEF Queue
  <1>4. /\ Queue' \in Seq(Desc) /\ Len(Queue') = Len(Queue) + 1
        /\ \A i \in 1..Len(Queue) : Queue'[i] = Queue[i]
        /\ Queue'[Len(Queue) + 1] = NewChain[1]
    BY <1>1, <1>2, <1>3, AppendProperties
  <1>5. /\ ToPlay' \in Seq(Buffers) /\ Len(ToPlay') = Len(Queue')
        /\ \A i \in 1..Len(Queue') : ToPlay'[i] = data'[addr'[next'[Queue'[i]]]]
    <2>1. /\ next' \in [Desc -> Desc] /\ addr' \in [Desc -> Slot]
          /\ data' \in [Slot -> Buffers]
          /\ ToPlay' = [i \in 1..Len(Queue') |-> data'[addr'[next'[Queue'[i]]]]]
      BY <1>0 DEF TypeOK, ToPlay, Queue
    <2>. QED
      BY <1>4, <2>1, Followed
  <1>6. copied(s) \in Buffers
    BY Copied
  <1>7. ToPlay'[Len(Queue) + 1] = copied(s)
    BY <1>1, <1>4, <1>5, NewLinked
  <1>8. ASSUME NEW i \in 1..Len(Queue) PROVE ToPlay'[i] = ToPlay[i]
    <2>1. PICK k \in Kept : Queue[i] = d[k][1]
      BY <1>1, AfterReclaim
    <2>2. /\ k \in InUse /\ data'[k] = data[k]
          /\ next'[d[k][1]] = next[d[k][1]] /\ addr'[d[k][2]] = addr[d[k][2]]
      BY KeptIntact
    <2>3. next[d[k][1]] = d[k][2] /\ addr[d[k][2]] = k
      BY <2>2 DEF TxInv, Linked
    <2>4. ToPlay[i] = data[k]
      BY <1>1, <2>1, <2>3
    <2>5. i \in 1..Len(Queue') /\ Queue'[i] = d[k][1]
      BY <1>1, <1>4, <2>1
    <2>6. ToPlay'[i] = data'[k]
      BY <1>5, <2>2, <2>3, <2>5
    <2>. QED
      BY <2>2, <2>4, <2>6
  <1>9. /\ Append(ToPlay, copied(s)) \in Seq(Buffers)
        /\ Len(Append(ToPlay, copied(s))) = Len(ToPlay) + 1
        /\ \A i \in 1..Len(ToPlay) : Append(ToPlay, copied(s))[i] = ToPlay[i]
        /\ Append(ToPlay, copied(s))[Len(ToPlay) + 1] = copied(s)
    BY <1>1, <1>6, AppendProperties
  <1>. DEFINE u == Append(ToPlay, copied(s))  v == ToPlay'
  <1>10. \A i \in 1..Len(v) : i \in 1..Len(Queue) \/ i = Len(Queue) + 1
    BY <1>1, <1>4, <1>5
  <1>11. Len(v) = Len(u) /\ \A i \in 1..Len(v) : v[i] = u[i]
    BY <1>1, <1>4, <1>5, <1>7, <1>8, <1>9, <1>10
  <1>12. v \in Seq(Buffers) /\ u \in Seq(Buffers)
    BY <1>5, <1>9
  <1>. HIDE DEF u, v
  <1>13. v = u
    BY <1>11, <1>12, SeqEqual
  <1>. QED
    BY <1>13 DEF u, v

\* Playing a buffer takes the first one that remains.
LEMMA PlayTails ==
    ASSUME TxInv, TxInv', device_play
    PROVE  ToPlay # <<>> /\ ToPlay' = Tail(ToPlay)
  <1>0. TypeOK /\ TypeOK'
    BY DEF TxInv
  <1>1. /\ Queue \in Seq(Desc) /\ ToPlay \in Seq(Buffers)
        /\ Len(ToPlay) = Len(Queue) /\ Len(Queue) \in Nat
        /\ \A i \in 1..Len(Queue) : ToPlay[i] = data[addr[next[Queue[i]]]]
    BY <1>0, ToPlayIs
  <1>2. Queue # <<>> /\ Queue' = Tail(Queue)
    BY <1>0, TailOfQueue, ZenonT(60) DEF Queue, device_play, TypeOK
  <1>3. /\ Queue' \in Seq(Desc) /\ Len(Queue') = Len(Queue) - 1
        /\ \A i \in 1..Len(Queue') : Queue'[i] = Queue[i + 1]
    BY <1>1, <1>2, HeadTailProperties
  <1>4. /\ ToPlay' \in Seq(Buffers) /\ Len(ToPlay') = Len(Queue')
        /\ \A i \in 1..Len(Queue') : ToPlay'[i] = data[addr[next[Queue'[i]]]]
    <2>1. /\ next \in [Desc -> Desc] /\ addr \in [Desc -> Slot]
          /\ data \in [Slot -> Buffers]
          /\ ToPlay' = [i \in 1..Len(Queue') |-> data[addr[next[Queue'[i]]]]]
      BY <1>0 DEF TypeOK, ToPlay, Queue, device_play, tx
    <2>. QED
      BY <1>3, <2>1, Followed
  <1>5. Len(Queue) # 0 /\ ToPlay # <<>>
    <2>1. Len(Queue) # 0
      BY <1>1, <1>2, EmptySeq
    <2>. QED
      BY <1>1, <2>1, EmptySeq
  <1>6. /\ Tail(ToPlay) \in Seq(Buffers) /\ Len(Tail(ToPlay)) = Len(ToPlay) - 1
        /\ \A i \in 1..Len(Tail(ToPlay)) : Tail(ToPlay)[i] = ToPlay[i + 1]
    BY <1>1, <1>5, HeadTailProperties
  <1>. DEFINE u == Tail(ToPlay)  v == ToPlay'
  <1>7. ASSUME NEW i \in 1..Len(v) PROVE v[i] = u[i]
    <2>1. i \in 1..Len(Queue') /\ i + 1 \in 1..Len(Queue) /\ i \in 1..Len(u)
      BY <1>1, <1>3, <1>4, <1>6
    <2>. QED
      BY <1>1, <1>3, <1>4, <1>6, <2>1, SMTT(30)
  <1>8. v \in Seq(Buffers) /\ u \in Seq(Buffers) /\ Len(v) = Len(u)
    BY <1>1, <1>3, <1>4, <1>6
  <1>. HIDE DEF u, v
  <1>9. v = u
    BY <1>7, <1>8, SeqEqual
  <1>. QED
    BY <1>5, <1>9 DEF u, v

\* The initial state is one of the abstract stream.
LEMMA StreamInit == Init => Stream!Init
  <1>. SUFFICES ASSUME Init PROVE Stream!Init
    OBVIOUS
  <1>1. taken \o avail = <<>>
    BY DEF Init
  <1>2. ToPlay = <<>>
    BY <1>1 DEF ToPlay
  <1>. QED
    BY <1>2 DEF Init, Stream!Init

\* Every step is a step of the abstract stream, or stutters.
LEMMA StreamStep == TxInv /\ TxInv' /\ [Next]_vars => [Stream!Next]_(Stream!vars)
  <1>. SUFFICES ASSUME TxInv, TxInv', [Next]_vars
                PROVE  Stream!Next \/ UNCHANGED Stream!vars
    OBVIOUS
  <1>0. TypeOK /\ TypeOK'
    BY DEF TxInv
  <1>1. ASSUME NEW s \in Writes, audio_write(s) PROVE Stream!Next
    <2>0. s \in Stream!Writes /\ Len(s) \in Nat
      BY WriteTypes, SoundAssumption DEF Writes, Stream!Writes
    <2>1. ASSUME UNCHANGED <<tx, avail, taken, played, used, focused>>
          PROVE  ToPlay' = ToPlay /\ focused' = focused
      BY <2>1 DEF ToPlay, tx
    <2>2. ASSUME ~focused, ret' = Len(s),
                 UNCHANGED <<tx, avail, taken, played, used, focused>>
          PROVE  Stream!Next
      BY <2>0, <2>1, <2>2 DEF Stream!Next, Stream!Mute
    <2>3. ASSUME focused, ret' = -1,
                 UNCHANGED <<tx, avail, taken, played, used, focused>>
          PROVE  Stream!Next
      BY <2>1, <2>3 DEF Stream!Next, Stream!Refuse
    <2>4. ASSUME focused, ret' \in {-1, 0}, Reclaim PROVE Stream!Next
      <3>1. ToPlay' = ToPlay /\ focused' = focused
        BY <2>4 DEF ToPlay, Reclaim
      <3>2. CASE ret' = -1
        BY <2>4, <3>1, <3>2 DEF Stream!Next, Stream!Refuse
      <3>3. CASE ret' = 0
        <4>1. Stream!Write(s)
          BY <2>0, <2>4, <3>1, <3>3 DEF Stream!Write
        <4>. QED
          BY <2>0, <4>1 DEF Stream!Next
      <3>. QED
        BY <2>4, <3>2, <3>3
    <2>5. ASSUME focused, Len(s) # 0, Room, Accept(s) PROVE Stream!Next
      <3>1. ToPlay' = Append(ToPlay, copied(s))
        BY <2>5, AcceptAppends
      <3>2. Len(copied(s)) \in 1..Len(s) /\ copied(s) = SubSeq(s, 1, Len(copied(s)))
        BY <2>5, Copied
      <3>3. ret' = Len(copied(s)) /\ ret' # 0 /\ ret' \in 0..Len(s) /\ focused' = focused
        BY <2>0, <2>5, <3>2 DEF Accept
      <3>4. ToPlay' = Append(ToPlay, SubSeq(s, 1, ret'))
        BY <3>1, <3>2, <3>3
      <3>5. Stream!Write(s)
        BY <2>5, <3>3, <3>4 DEF Stream!Write
      <3>. QED
        BY <2>0, <3>5 DEF Stream!Next
    <2>. QED
      BY <1>1, <2>2, <2>3, <2>4, <2>5, WriteCases
  <1>2. CASE virtio_sound_poll
    BY <1>2 DEF virtio_sound_poll, ToPlay, Stream!vars
  <1>3. CASE set_focus
    BY <1>0, <1>3 DEF set_focus, ToPlay, tx, TypeOK, Stream!Next, Stream!Focus
  <1>4. CASE device_take
    <2>1. taken' \o avail' = taken \o avail
      BY <1>0, <1>4, TakeKeepsQueue DEF device_take, TypeOK
    <2>. QED
      BY <1>4, <2>1 DEF device_take, ToPlay, tx, Stream!vars
  <1>5. CASE device_play
    <2>1. ToPlay # <<>> /\ ToPlay' = Tail(ToPlay)
      BY <1>5, PlayTails
    <2>. QED
      BY <1>5, <2>1 DEF device_play, Stream!Next, Stream!Play
  <1>6. ASSUME NEW h \in Desc, device_done(h) PROVE UNCHANGED Stream!vars
    BY <1>6 DEF device_done, ToPlay, tx, Stream!vars
  <1>7. CASE UNCHANGED vars
    BY <1>7 DEF vars, ToPlay, Stream!vars
  <1>. QED
    BY <1>1, <1>2, <1>3, <1>4, <1>5, <1>6, <1>7 DEF Next

\* The frames a write reports as taken are played once, unaltered and in the order
\* of the writes, whatever the device has still to play and give back: the driver
\* implements the stream of sound for any number of slots and descriptors.
THEOREM SoundIsStream == Spec => ImplementsSoundStream
  <1>1. Spec => Stream!Spec
    BY StreamInit, StreamStep, TxInvHolds, PTL DEF Spec, Stream!Spec
  <1>. QED
    BY <1>1 DEF ImplementsSoundStream

-----------------------------------------------------------------------------
(* The frames in a row of slots.  The recursion of frames_in is over the   *)
(* places of the row, and so is the induction.                             *)

\* Induction up to n: were there places outside P, the place before the first of
\* them would be inside.
LEMMA UpTo ==
    ASSUME NEW n \in Nat, NEW P, 0 \in P, \A i \in 0..(n - 1) : i \in P => i + 1 \in P
    PROVE  \A i \in 0..n : i \in P
  <1>. SUFFICES ASSUME (0..n) \ P # {} PROVE FALSE
    OBVIOUS
  <1>. DEFINE x == Min((0..n) \ P)
  <1>1. x \in (0..n) \ P /\ \A j \in (0..n) \ P : x <= j
    BY MinMember
  <1>. HIDE DEF x
  <1>2. x # 0 /\ x - 1 \in 0..(n - 1) /\ x - 1 + 1 = x
    BY <1>1
  <1>3. x - 1 \in P
    BY <1>1, <1>2
  <1>. QED
    BY <1>1, <1>2, <1>3

\* Counting along a row, and that frames_in is the last of its counts.
Counts(f, s) ==
    /\ f \in [0..Len(s) -> Nat]
    /\ f[0] = 0
    /\ \A k \in 1..Len(s) : f[k] = f[k - 1] + s[k]

LEMMA CountsExist ==
    ASSUME NEW s \in Seq(Nat)
    PROVE  \E f : Counts(f, s) /\ frames_in(s) = f[Len(s)]
  <1>. DEFINE n == Len(s)
              Body(f, k) == IF k = 0 THEN 0 ELSE f[k - 1] + s[k]
              P == {m \in 0..n : \E f \in [0..m -> Nat] : f = [k \in 0..m |-> Body(f, k)]}
  <1>1. n \in Nat /\ \A k \in 1..n : s[k] \in Nat
    OBVIOUS
  <1>2. 0 \in P
    <2>. DEFINE f == [k \in 0..0 |-> 0]
    <2>1. f \in [0..0 -> Nat] /\ f = [k \in 0..0 |-> Body(f, k)]
      OBVIOUS
    <2>2. 0 \in 0..n
      BY <1>1
    <2>. HIDE DEF f
    <2>3. \E h \in [0..0 -> Nat] : h = [k \in 0..0 |-> Body(h, k)]
      BY <2>1
    <2>. QED
      BY <2>2, <2>3
  <1>3. ASSUME NEW m \in 0..(n - 1), m \in P
        PROVE  m + 1 \in P
    <2>1. PICK f \in [0..m -> Nat] : f = [k \in 0..m |-> Body(f, k)]
      BY <1>3
    <2>. DEFINE g == [k \in 0..(m + 1) |-> Body(f, k)]
    <2>2. \A k \in 0..m : g[k] = f[k]
      BY <2>1, SMTT(30)
    <2>3. \A k \in 0..(m + 1) : k # 0 => k - 1 \in 0..m /\ k \in 1..n
      BY <1>1
    <2>4. \A k \in 0..(m + 1) : Body(f, k) \in Nat
      BY <1>1, <2>3, SMTT(30)
    <2>5. \A k \in 0..(m + 1) : Body(g, k) = Body(f, k)
      <3>. HIDE DEF g
      <3>. QED
        BY <2>2, <2>3
    <2>6. g \in [0..(m + 1) -> Nat] /\ g = [k \in 0..(m + 1) |-> Body(g, k)]
      BY <2>4, <2>5
    <2>7. m + 1 \in 0..n
      BY <1>1
    <2>. QED
      BY <2>6, <2>7
  <1>. HIDE DEF P
  <1>4. n \in P
    <2>1. \A i \in 0..n : i \in P
      BY <1>1, <1>2, <1>3, UpTo
    <2>. QED
      BY <1>1, <2>1
  <1>5. PICK h \in [0..n -> Nat] : h = [k \in 0..n |-> Body(h, k)]
    BY <1>4 DEF P
  <1>. DEFINE g == CHOOSE f : f = [k \in 0..n |-> IF k = 0 THEN 0 ELSE f[k - 1] + s[k]]
  <1>6. frames_in(s) = g[n]
    BY DEF frames_in
  <1>7. g = [k \in 0..n |-> IF k = 0 THEN 0 ELSE g[k - 1] + s[k]]
    BY <1>5
  <1>. HIDE DEF g
  <1>8. DOMAIN g = 0..n /\ g[0] = 0 /\ \A k \in 1..n : g[k] = g[k - 1] + s[k]
    <2>1. 0 \in 0..n /\ \A k \in 1..n : k \in 0..n /\ k # 0
      BY <1>1
    <2>. QED
      BY <1>7, <2>1
  <1>9. \A k \in 0..n : g[k] \in Nat
    <2>. DEFINE N == {k \in 0..n : g[k] \in Nat}
    <2>1. 0 \in N
      BY <1>1, <1>8
    <2>2. ASSUME NEW k \in 0..(n - 1), k \in N
          PROVE  k + 1 \in N
      <3>1. k + 1 \in 1..n /\ k + 1 \in 0..n /\ k + 1 - 1 = k
        BY <1>1
      <3>2. g[k + 1] = g[k] + s[k + 1]
        BY <1>8, <3>1
      <3>3. g[k] \in Nat /\ s[k + 1] \in Nat
        BY <1>1, <2>2, <3>1
      <3>. QED
        BY <3>1, <3>2, <3>3
    <2>. HIDE DEF N
    <2>3. \A k \in 0..n : k \in N
      BY <1>1, <2>1, <2>2, UpTo
    <2>. QED
      BY <2>3 DEF N
  <1>10. Counts(g, s)
    BY <1>7, <1>8, <1>9 DEF Counts
  <1>. QED
    BY <1>6, <1>10

\* Two rows that begin alike have the same counts up to there.
LEMMA CountsAgree ==
    ASSUME NEW s \in Seq(Nat), NEW t \in Seq(Nat), NEW f, NEW g, Counts(f, s), Counts(g, t),
           NEW n \in Nat, n <= Len(s), n <= Len(t), \A k \in 1..n : s[k] = t[k]
    PROVE  f[n] = g[n]
  <1>. DEFINE P == {k \in 0..n : f[k] = g[k]}
  <1>1. 0 \in P
    BY DEF Counts
  <1>2. \A k \in 0..(n - 1) : k \in P => k + 1 \in P
    <2>. SUFFICES ASSUME NEW k \in 0..(n - 1), f[k] = g[k] PROVE f[k + 1] = g[k + 1]
      OBVIOUS
    <2>1. k + 1 \in 1..Len(s) /\ k + 1 \in 1..Len(t) /\ k + 1 \in 1..n /\ k + 1 - 1 = k
      OBVIOUS
    <2>2. f[k + 1] = f[k] + s[k + 1]
      BY <2>1 DEF Counts
    <2>3. g[k + 1] = g[k] + t[k + 1]
      BY <2>1 DEF Counts
    <2>. QED
      BY <2>1, <2>2, <2>3
  <1>. HIDE DEF P
  <1>3. \A k \in 0..n : k \in P
    BY <1>1, <1>2, UpTo
  <1>4. n \in P
    BY <1>3
  <1>. QED
    BY <1>4 DEF P

LEMMA FramesType == ASSUME NEW s \in Seq(Nat) PROVE frames_in(s) \in Nat
  <1>1. PICK f : Counts(f, s) /\ frames_in(s) = f[Len(s)]
    BY CountsExist
  <1>. QED
    BY <1>1 DEF Counts

LEMMA FramesNone == frames_in(<<>>) = 0
  <1>1. <<>> \in Seq(Nat) /\ Len(<<>>) = 0
    OBVIOUS
  <1>2. PICK f : Counts(f, <<>>) /\ frames_in(<<>>) = f[Len(<<>>)]
    BY <1>1, CountsExist
  <1>. QED
    BY <1>1, <1>2 DEF Counts

\* One more slot, or one behind another.
LEMMA FramesAppend ==
    ASSUME NEW s \in Seq(Nat), NEW x \in Nat
    PROVE  frames_in(Append(s, x)) = frames_in(s) + x
  <1>. DEFINE t == Append(s, x)
  <1>1. t \in Seq(Nat) /\ Len(t) = Len(s) + 1 /\ t[Len(s) + 1] = x
        /\ \A k \in 1..Len(s) : s[k] = t[k]
    OBVIOUS
  <1>. HIDE DEF t
  <1>2. PICK f : Counts(f, s) /\ frames_in(s) = f[Len(s)]
    BY CountsExist
  <1>3. PICK g : Counts(g, t) /\ frames_in(t) = g[Len(t)]
    BY <1>1, CountsExist
  <1>4. f[Len(s)] = g[Len(s)]
    <2>. DEFINE n == Len(s)
    <2>1. n \in Nat /\ n <= Len(s) /\ n <= Len(t)
      BY <1>1
    <2>2. \A k \in 1..n : s[k] = t[k]
      BY <1>1
    <2>. HIDE DEF n
    <2>3. f[n] = g[n]
      BY <1>1, <1>2, <1>3, <2>1, <2>2, CountsAgree
    <2>. QED
      BY <2>3 DEF n
  <1>5. g[Len(s) + 1] = g[Len(s)] + x
    <2>1. Len(s) + 1 \in 1..Len(t) /\ Len(s) + 1 - 1 = Len(s)
      BY <1>1
    <2>2. g[Len(s) + 1] = g[Len(s)] + t[Len(s) + 1]
      BY <1>3, <2>1 DEF Counts
    <2>. QED
      BY <1>1, <2>1, <2>2
  <1>. QED
    BY <1>1, <1>2, <1>3, <1>4, <1>5 DEF t

LEMMA FramesConcat ==
    ASSUME NEW s \in Seq(Nat), NEW t \in Seq(Nat)
    PROVE  frames_in(s \o t) = frames_in(s) + frames_in(t)
  <1>. DEFINE n == Len(t)
              P == {k \in 0..n : frames_in(s \o SubSeq(t, 1, k))
                                     = frames_in(s) + frames_in(SubSeq(t, 1, k))}
  <1>1. n \in Nat
    OBVIOUS
  <1>2. 0 \in P
    <2>1. SubSeq(t, 1, 0) = <<>> /\ s \o <<>> = s
      OBVIOUS
    <2>2. frames_in(s) \in Nat
      BY FramesType
    <2>3. frames_in(s) = frames_in(s) + frames_in(<<>>)
      BY <2>2, FramesNone
    <2>4. frames_in(s \o SubSeq(t, 1, 0)) = frames_in(s) + frames_in(SubSeq(t, 1, 0))
      BY <2>1, <2>3, Zenon
    <2>. QED
      BY <1>1, <2>4
  <1>3. ASSUME NEW k \in 0..(n - 1), k \in P
        PROVE  k + 1 \in P
    <2>. DEFINE u == SubSeq(t, 1, k)
    <2>1. u \in Seq(Nat) /\ t[k + 1] \in Nat /\ k + 1 \in 0..n
      OBVIOUS
    <2>2. SubSeq(t, 1, k + 1) = Append(u, t[k + 1])
      OBVIOUS
    <2>3. frames_in(s \o u) = frames_in(s) + frames_in(u)
      BY <1>3
    <2>. HIDE DEF u
    <2>4. s \o Append(u, t[k + 1]) = Append(s \o u, t[k + 1]) /\ s \o u \in Seq(Nat)
      BY <2>1
    <2>5. /\ frames_in(Append(s \o u, t[k + 1])) = frames_in(s \o u) + t[k + 1]
          /\ frames_in(Append(u, t[k + 1])) = frames_in(u) + t[k + 1]
      BY <2>1, <2>4, FramesAppend
    <2>6. frames_in(s) \in Nat /\ frames_in(u) \in Nat
      BY <2>1, FramesType
    <2>7. frames_in(s \o Append(u, t[k + 1])) = frames_in(s) + frames_in(Append(u, t[k + 1]))
      BY <2>1, <2>3, <2>4, <2>5, <2>6
    <2>. QED
      BY <2>1, <2>2, <2>7
  <1>. HIDE DEF P
  <1>4. \A k \in 0..n : k \in P
    BY <1>1, <1>2, <1>3, UpTo
  <1>5. n \in P
    BY <1>1, <1>4
  <1>6. SubSeq(t, 1, n) = t
    OBVIOUS
  <1>. QED
    BY <1>5, <1>6 DEF P

\* The first slot counts by itself.
LEMMA FramesFirst ==
    ASSUME NEW s \in Seq(Nat), s # <<>>
    PROVE  frames_in(s) = s[1] + frames_in(Tail(s))
  <1>1. s = <<s[1]>> \o Tail(s) /\ <<s[1]>> \in Seq(Nat) /\ Tail(s) \in Seq(Nat) /\ s[1] \in Nat
    OBVIOUS
  <1>2. <<s[1]>> = Append(<<>>, s[1]) /\ <<>> \in Seq(Nat)
    BY <1>1
  <1>3. frames_in(<<s[1]>>) = s[1]
    <2>. DEFINE x == s[1]
    <2>1. x \in Nat /\ <<x>> = Append(<<>>, x)
      BY <1>1, <1>2
    <2>. HIDE DEF x
    <2>2. frames_in(Append(<<>>, x)) = frames_in(<<>>) + x
      BY <1>2, <2>1, FramesAppend
    <2>3. frames_in(<<x>>) = x
      BY <2>1, <2>2, FramesNone
    <2>. QED
      BY <2>3 DEF x
  <1>4. frames_in(<<s[1]>> \o Tail(s)) = frames_in(<<s[1]>>) + frames_in(Tail(s))
    BY <1>1, FramesConcat
  <1>. QED
    BY <1>1, <1>3, <1>4

-----------------------------------------------------------------------------
(* A buffer in slots.                                                      *)

\* Frames of the last slot of a buffer.
Rest == Size - Chunk * (SlotsPerBuffer - 1)

\* Frames of a slot behind which lie m more of whole buffers, and of those m.
SlotAt(m) == IF m % SlotsPerBuffer = 0 THEN Rest ELSE Chunk

Behind(m) ==
    (m \div SlotsPerBuffer) * Size
    + (IF m % SlotsPerBuffer = 0 THEN 0 ELSE Rest + Chunk * ((m % SlotsPerBuffer) - 1))

\* Quotient and remainder, for the provers.
LEMMA Division ==
    ASSUME NEW m \in Nat, NEW n \in Nat \ {0}
    PROVE  /\ m \div n \in Nat /\ m % n \in 0..(n - 1)
           /\ m = (m \div n) * n + (m % n)
  OBVIOUS

LEMMA Quotient ==
    ASSUME NEW n \in Nat \ {0}, NEW a \in Nat, NEW r \in 0..(n - 1)
    PROVE  (a * n + r) \div n = a /\ (a * n + r) % n = r
  <1>. DEFINE m == a * n + r
  <1>1. m \in Nat
    OBVIOUS
  <1>. HIDE DEF m
  <1>2. m \div n \in Nat /\ m % n \in 0..(n - 1) /\ m = (m \div n) * n + (m % n)
    BY <1>1, Division
  <1>. DEFINE b == m \div n  t == m % n
  <1>3. b \in Nat /\ t \in 0..(n - 1) /\ a * n + r = b * n + t
    BY <1>2 DEF m
  <1>. HIDE DEF b, t
  <1>4. b = a
    <2>1. (b - a) * n = r - t
      BY <1>3
    <2>2. b - a >= 1 => (b - a) * n >= n
      BY <1>3
    <2>3. b - a <= -1 => (b - a) * n <= -n
      BY <1>3
    <2>. QED
      BY <1>3, <2>1, <2>2, <2>3
  <1>. QED
    BY <1>3, <1>4 DEF b, t, m

\* The slots of a buffer hold it, and one fewer would not.
LEMMA BufferFits ==
    /\ SlotsPerBuffer \in Nat \ {0}
    /\ Rest \in 1..Chunk
    /\ Size = Rest + Chunk * (SlotsPerBuffer - 1)
  <1>1. Size \in Nat \ {0} /\ Chunk \in Nat \ {0} /\ Size + Chunk - 1 \in Nat
    BY PumpAssumption
  <1>. DEFINE m == Size + Chunk - 1
  <1>2. m \in Nat
    BY <1>1
  <1>. HIDE DEF m
  <1>3. m \div Chunk \in Nat /\ m % Chunk \in 0..(Chunk - 1)
        /\ m = (m \div Chunk) * Chunk + (m % Chunk)
    BY <1>1, <1>2, Division
  <1>. DEFINE q == m \div Chunk  r == m % Chunk
  <1>4. q \in Nat /\ r \in 0..(Chunk - 1) /\ Size + Chunk - 1 = q * Chunk + r
    BY <1>3 DEF m
  <1>. HIDE DEF q, r
  <1>5. q # 0
    BY <1>1, <1>4
  <1>6. Chunk * (q - 1) = q * Chunk - Chunk
    BY <1>1, <1>4
  <1>7. SlotsPerBuffer = q
    BY DEF SlotsPerBuffer, q, m
  <1>. QED
    BY <1>1, <1>4, <1>5, <1>6, <1>7 DEF Rest

LEMMA SlotType == ASSUME NEW m \in Nat PROVE SlotAt(m) \in 1..Chunk
  BY BufferFits, PumpAssumption DEF SlotAt

LEMMA BehindNone == Behind(0) = 0
  <1>1. SlotsPerBuffer \in Nat \ {0} /\ Size \in Nat
    BY BufferFits, PumpAssumption
  <1>2. 0 \div SlotsPerBuffer = 0 /\ 0 % SlotsPerBuffer = 0
    BY <1>1, 0 * SlotsPerBuffer + 0 = 0, Quotient
  <1>. QED
    BY <1>1, <1>2 DEF Behind

\* What lies behind a slot and the slot itself lie behind the one before.
LEMMA BehindNext ==
    ASSUME NEW m \in Nat
    PROVE  Behind(m) \in Nat /\ Behind(m + 1) = Behind(m) + SlotAt(m)
  <1>. DEFINE n == SlotsPerBuffer  a == m \div n  r == m % n
  <1>1. n \in Nat \ {0} /\ Rest \in 1..Chunk /\ Size = Rest + Chunk * (n - 1)
        /\ Size \in Nat /\ Chunk \in Nat
    BY BufferFits, PumpAssumption
  <1>. HIDE DEF n
  <1>2. a \in Nat /\ r \in 0..(n - 1) /\ m = a * n + r
    BY <1>1, Division
  <1>3. Behind(m) = a * Size + (IF r = 0 THEN 0 ELSE Rest + Chunk * (r - 1))
        /\ SlotAt(m) = IF r = 0 THEN Rest ELSE Chunk
    BY DEF Behind, SlotAt, n
  <1>4. Behind(m + 1) = ((m + 1) \div n) * Size
                        + (IF (m + 1) % n = 0 THEN 0 ELSE Rest + Chunk * (((m + 1) % n) - 1))
    BY DEF Behind, n
  <1>. HIDE DEF a, r
  <1>5. Behind(m) \in Nat
    <2>1. a * Size \in Nat
      BY <1>1, <1>2
    <2>2. r # 0 => Chunk * (r - 1) \in Nat
      BY <1>1, <1>2
    <2>. QED
      BY <1>1, <1>3, <2>1, <2>2
  <1>6. CASE r + 1 < n
    <2>1. r + 1 \in 0..(n - 1) /\ a * n + (r + 1) = m + 1
      BY <1>1, <1>2, <1>6
    <2>. DEFINE t == r + 1
    <2>2. t \in 0..(n - 1) /\ a * n + t = m + 1
      BY <2>1
    <2>. HIDE DEF t
    <2>3. (a * n + t) \div n = a /\ (a * n + t) % n = t
      BY <1>1, <1>2, <2>2, Quotient
    <2>4. (m + 1) \div n = a /\ (m + 1) % n = r + 1
      BY <2>2, <2>3 DEF t
    <2>5. Behind(m + 1) = a * Size + Rest + Chunk * r
      <3>1. r + 1 # 0 /\ (r + 1) - 1 = r
        BY <1>2
      <3>2. Behind(m + 1) = a * Size + (Rest + Chunk * ((r + 1) - 1))
        BY <1>4, <2>4, <3>1
      <3>3. a * Size \in Nat /\ Chunk * r \in Nat
        BY <1>1, <1>2
      <3>. QED
        BY <1>1, <3>1, <3>2, <3>3
    <2>6. r # 0 => Chunk * (r - 1) + Chunk = Chunk * r
      BY <1>1, <1>2
    <2>7. a * Size \in Nat /\ Chunk * r \in Nat /\ (r = 0 => Chunk * r = 0)
      BY <1>1, <1>2
    <2>8. r # 0 => Chunk * (r - 1) \in Nat
      BY <1>1, <1>2
    <2>. QED
      BY <1>1, <1>3, <1>5, <2>5, <2>6, <2>7, <2>8
  <1>7. CASE r + 1 = n
    <2>1. m + 1 = (a + 1) * n + 0 /\ a + 1 \in Nat /\ 0 \in 0..(n - 1)
      BY <1>1, <1>2, <1>7
    <2>2. ((a + 1) * n + 0) \div n = a + 1 /\ ((a + 1) * n + 0) % n = 0
      BY <1>1, <2>1, Quotient
    <2>3. Behind(m + 1) = (a + 1) * Size + 0
      BY <1>4, <2>1, <2>2
    <2>4. (a + 1) * Size = a * Size + Size /\ a * Size \in Nat
      BY <1>1, <1>2
    <2>5. r # 0 => Chunk * (r - 1) + Chunk = Chunk * (n - 1) /\ Chunk * (r - 1) \in Nat
      BY <1>1, <1>2, <1>7
    <2>6. r = 0 => Size = Rest
      BY <1>1, <1>7
    <2>. QED
      BY <1>1, <1>3, <1>5, <2>3, <2>4, <2>5, <2>6
  <1>. QED
    BY <1>1, <1>2, <1>6, <1>7

\* One buffer more behind.
LEMMA BehindBuffer ==
    ASSUME NEW m \in Nat
    PROVE  Behind(m + SlotsPerBuffer) = Behind(m) + Size
           /\ SlotAt(m + SlotsPerBuffer) = SlotAt(m)
  <1>. DEFINE n == SlotsPerBuffer  a == m \div n  r == m % n
  <1>1. n \in Nat \ {0} /\ Size \in Nat /\ Rest \in Nat /\ Chunk \in Nat
    BY BufferFits, PumpAssumption
  <1>. HIDE DEF n
  <1>2. a \in Nat /\ r \in 0..(n - 1) /\ m = a * n + r
    BY <1>1, Division
  <1>. HIDE DEF a, r
  <1>3. m + n = (a + 1) * n + r /\ a + 1 \in Nat
    BY <1>1, <1>2
  <1>4. ((a + 1) * n + r) \div n = a + 1 /\ ((a + 1) * n + r) % n = r
    BY <1>1, <1>2, <1>3, Quotient
  <1>5. (m + n) \div n = a + 1 /\ (m + n) % n = r
    BY <1>3, <1>4
  <1>6. m \div n = a /\ m % n = r
    BY DEF a, r
  <1>7. SlotAt(m + n) = SlotAt(m)
    BY <1>5, <1>6 DEF SlotAt, n
  <1>. DEFINE tail == IF r = 0 THEN 0 ELSE Rest + Chunk * (r - 1)
  <1>8. Behind(m) = a * Size + tail /\ Behind(m + n) = (a + 1) * Size + tail
    BY <1>5, <1>6 DEF Behind, n
  <1>9. tail \in Int
    <2>1. Chunk * (r - 1) \in Int
      BY <1>1, <1>2
    <2>. QED
      BY <1>1, <2>1
  <1>. HIDE DEF tail
  <1>10. (a + 1) * Size = a * Size + Size /\ a * Size \in Nat
    BY <1>1, <1>2
  <1>. QED
    BY <1>1, <1>7, <1>8, <1>9, <1>10 DEF n

\* Behind k buffers' worth of slots lie k buffers at least.
LEMMA ManyBuffers ==
    ASSUME NEW k \in Nat, NEW m \in Nat, m >= k * SlotsPerBuffer
    PROVE  Behind(m) >= k * Size
  <1>. DEFINE n == SlotsPerBuffer  h == m - k * n
              P == {i \in 0..k : Behind(h + i * n) >= i * Size}
  <1>1. n \in Nat /\ Size \in Nat /\ k * n \in Nat /\ h \in Nat
    BY BufferFits, PumpAssumption
  <1>. HIDE DEF h
  <1>2. 0 \in P
    <2>1. h + 0 * n = h /\ 0 * Size = 0 /\ Behind(h) \in Nat
      BY <1>1, BehindNext
    <2>. QED
      BY <2>1
  <1>3. ASSUME NEW i \in 0..(k - 1), i \in P
        PROVE  i + 1 \in P
    <2>. DEFINE j == h + i * n
    <2>1. j \in Nat /\ h + (i + 1) * n = j + n
      BY <1>1
    <2>. HIDE DEF j
    <2>2. Behind(j + n) = Behind(j) + Size /\ Behind(j) \in Nat
      BY <2>1, BehindBuffer, BehindNext
    <2>3. Behind(j) >= i * Size
      BY <1>3 DEF j
    <2>4. (i + 1) * Size = i * Size + Size /\ i * Size \in Nat
      BY <1>1
    <2>. HIDE DEF n
    <2>5. Behind(h + (i + 1) * n) >= (i + 1) * Size
      BY <1>1, <2>1, <2>2, <2>3, <2>4
    <2>. QED
      BY <2>5
  <1>. HIDE DEF P
  <1>4. \A i \in 0..k : i \in P
    BY <1>2, <1>3, UpTo
  <1>5. Behind(h + k * n) >= k * Size
    BY <1>4 DEF P
  <1>6. h + k * n = m
    BY <1>1 DEF h
  <1>. QED
    BY <1>5, <1>6

\* Of a whole buffer, each slot is as the number of those behind it says.
LEMMA SlotOfBuffer ==
    ASSUME NEW k \in 1..SlotsPerBuffer
    PROVE  SlotAt(SlotsPerBuffer - k) = IF k < SlotsPerBuffer THEN Chunk ELSE Rest
  <1>. DEFINE n == SlotsPerBuffer  r == n - k
  <1>1. n \in Nat \ {0} /\ r \in 0..(n - 1) /\ 0 \in Nat
    BY BufferFits
  <1>. HIDE DEF r
  <1>2. (0 * n + r) \div n = 0 /\ (0 * n + r) % n = r
    BY <1>1, Quotient
  <1>3. 0 * n + r = r
    BY <1>1
  <1>4. r = 0 <=> ~(k < n)
    BY <1>1 DEF r
  <1>. QED
    BY <1>2, <1>3, <1>4 DEF SlotAt, r

-----------------------------------------------------------------------------
(* What sys_write takes of a buffer.                                       *)

LEMMA PumpSizes ==
    /\ Size \in Nat \ {0} /\ Chunk \in Nat \ {0} /\ TxSlots \in Nat
    /\ DevTicks \in Nat \ {0} /\ LibTicks \in Nat \ {0} /\ LibTicks >= DevTicks
    /\ MaxGap \in Nat /\ MaxSince \in Nat /\ IntMax \in Nat
    /\ SlotsPerBuffer \in Nat \ {0}
  BY PumpAssumption, BufferFits

\* The Lag lasts for a write that is late by MaxGap, and the bounds on time and on an
\* int lie beyond three buffers and it.
LEMMA LagIs ==
    /\ Lag \in Nat /\ MaxGap <= Lag * LibTicks
    /\ (3 * Size + Lag) * LibTicks < MaxSince
    /\ 3 * Size + Lag < IntMax
  <1>. DEFINE m == MaxGap + LibTicks - 1
  <1>1. m \in Nat
    BY PumpSizes
  <1>. HIDE DEF m
  <1>2. m \div LibTicks \in Nat /\ m % LibTicks \in 0..(LibTicks - 1)
        /\ m = (m \div LibTicks) * LibTicks + (m % LibTicks)
    BY <1>1, PumpSizes, Division
  <1>3. Lag \in Nat /\ m < Lag * LibTicks + LibTicks
    BY <1>2, PumpSizes DEF Lag, m
  <1>4. Lag * LibTicks \in Nat /\ MaxGap <= Lag * LibTicks
    BY <1>3, PumpSizes DEF m
  <1>. DEFINE t == 3 * Size + Lag
  <1>5. t \in Nat
    BY <1>3, PumpSizes
  <1>6. t * LibTicks < MaxSince /\ MaxSince <= IntMax * LibTicks
    BY PumpAssumption
  <1>. HIDE DEF t
  <1>7. t < IntMax
    <2>1. t >= IntMax => t * LibTicks >= IntMax * LibTicks
      BY <1>5, PumpSizes
    <2>. QED
      BY <1>5, <1>6, <2>1, PumpSizes
  <1>. QED
    BY <1>3, <1>4, <1>6, <1>7 DEF t

\* As many buffers as may be ahead hold all that SDL_UpdateAudio may leave there.
LEMMA AheadIs ==
    /\ BuffersAhead \in Nat /\ 2 * Size + Lag - 2 < BuffersAhead * Size
    /\ BuffersAhead * SlotsPerBuffer + SlotsPerBuffer <= TxSlots
  <1>. DEFINE m == 2 * Size + Lag - 2  q == m \div Size
  <1>1. m \in Nat
    BY PumpSizes, LagIs
  <1>. HIDE DEF m
  <1>2. q \in Nat /\ m % Size \in 0..(Size - 1) /\ m = q * Size + (m % Size)
    BY <1>1, PumpSizes, Division
  <1>3. BuffersAhead = q + 1
    BY DEF BuffersAhead, m
  <1>. HIDE DEF q
  <1>4. (q + 1) * Size = q * Size + Size /\ q * Size \in Nat
    BY <1>2, PumpSizes
  <1>5. m < (q + 1) * Size
    BY <1>1, <1>2, <1>4, PumpSizes
  <1>6. (q + 1 + 1) * SlotsPerBuffer = (q + 1) * SlotsPerBuffer + SlotsPerBuffer
    BY <1>2, PumpSizes
  <1>7. (q + 1 + 1) * SlotsPerBuffer <= TxSlots
    BY <1>3, PumpAssumption
  <1>. QED
    BY <1>2, <1>3, <1>5, <1>6, <1>7 DEF m

\* An int holds a number in its range, and one beyond it becomes negative.
LEMMA IntIs ==
    ASSUME NEW n \in Int
    PROVE  /\ int(n) \in Ints
           /\ n \in Ints => int(n) = n
           /\ n \in IntMax..(2 * IntMax - 1) => int(n) < 0
  <1>. DEFINE w == 2 * IntMax
  <1>1. IntMax \in Nat \ {0} /\ w \in Nat \ {0}
    BY PumpSizes, LagIs
  <1>2. int(n) \in Ints
    <2>1. (n + IntMax) % w \in 0..(w - 1)
      BY <1>1
    <2>. QED
      BY <1>1, <2>1 DEF int, Ints
  <1>3. ASSUME n \in Ints
        PROVE  int(n) = n
    <2>. DEFINE r == n + IntMax
    <2>1. r \in 0..(w - 1)
      BY <1>1, <1>3 DEF Ints
    <2>. HIDE DEF r, w
    <2>2. r = 0 * w + r
      BY <1>1, <2>1
    <2>3. r % w = r
      BY <1>1, <2>1, <2>2, Quotient
    <2>. QED
      BY <1>1, <2>3 DEF int, r, w
  <1>4. ASSUME n \in IntMax..(2 * IntMax - 1)
        PROVE  int(n) < 0
    <2>. DEFINE r == n - IntMax
    <2>1. r \in 0..(w - 1) /\ n + IntMax = 1 * w + r /\ r < IntMax
      BY <1>1, <1>4
    <2>. HIDE DEF r, w
    <2>2. (1 * w + r) % w = r
      BY <1>1, <2>1, Quotient
    <2>3. (n + IntMax) % w = r
      BY <2>1, <2>2
    <2>. QED
      BY <1>1, <2>1, <2>3 DEF int, w
  <1>. QED
    BY <1>2, <1>3, <1>4

\* As many slots as are free and needed; all of the buffer when that is all it needs.
LEMMA FilledIs ==
    ASSUME PumpTypeOK
    PROVE  /\ slots_filled \in Seq(1..Chunk) /\ Len(slots_filled) \in 0..SlotsPerBuffer
           /\ Len(queue) + Len(slots_filled) <= TxSlots
           /\ frames_in(slots_filled) \in 0..Size
           /\ Len(queue) + SlotsPerBuffer <= TxSlots =>
                /\ Len(slots_filled) = SlotsPerBuffer
                /\ frames_in(slots_filled) = Size
                /\ \A k \in 1..SlotsPerBuffer :
                        slots_filled[k] = SlotAt(SlotsPerBuffer - k)
  <1>. DEFINE room == TxSlots - Len(queue)
              n == Min({SlotsPerBuffer, room})
              s == slots_filled
  <1>1. Len(queue) \in Nat /\ room \in Nat /\ SlotsPerBuffer \in Nat \ {0}
    BY PumpSizes DEF PumpTypeOK
  <1>. HIDE DEF room
  <1>2. {SlotsPerBuffer, room} \subseteq Nat /\ {SlotsPerBuffer, room} # {}
    BY <1>1
  <1>3. n \in {SlotsPerBuffer, room} /\ \A j \in {SlotsPerBuffer, room} : n <= j
    BY <1>2, MinMember
  <1>4. n \in 0..SlotsPerBuffer /\ n <= room /\ (SlotsPerBuffer <= room => n = SlotsPerBuffer)
    BY <1>1, <1>3
  <1>5. s = [k \in 1..n |-> IF k < SlotsPerBuffer THEN Chunk ELSE Rest]
    BY DEF slots_filled, room, Rest
  <1>. HIDE DEF n
  <1>6. s \in Seq(1..Chunk) /\ Len(s) = n
    <2>1. Chunk \in 1..Chunk /\ Rest \in 1..Chunk
      BY PumpSizes, BufferFits
    <2>2. s \in [1..n -> 1..Chunk]
      BY <1>5, <2>1
    <2>. HIDE DEF s
    <2>3. n \in Nat
      BY <1>1, <1>4
    <2>4. s \in Seq(1..Chunk)
      BY <2>2, <2>3, SeqDef
    <2>5. Len(s) \in Nat /\ DOMAIN s = 1..Len(s) /\ DOMAIN s = 1..n
      BY <2>2, <2>4, LenProperties
    <2>6. Len(s) = n
      <3>. DEFINE l == Len(s)
      <3>1. l \in Nat /\ 1..l = 1..n
        BY <2>5
      <3>. HIDE DEF l
      <3>2. l = n
        BY <2>3, <3>1
      <3>. QED
        BY <3>2 DEF l
    <2>. QED
      BY <2>4, <2>6
  <1>7. \A k \in 1..n : s[k] = IF k < SlotsPerBuffer THEN Chunk ELSE Rest
    BY <1>5
  <1>. HIDE DEF s
  <1>8. s \in Seq(Nat)
    BY <1>6, PumpSizes
  <1>9. PICK f : Counts(f, s) /\ frames_in(s) = f[Len(s)]
    BY <1>8, CountsExist
  <1>. DEFINE P == {k \in 0..n : k < SlotsPerBuffer => f[k] = k * Chunk}
  <1>10. 0 \in P
    BY <1>4, <1>9, PumpSizes DEF Counts
  <1>11. ASSUME NEW k \in 0..(n - 1), k \in P
         PROVE  k + 1 \in P
    <2>1. k + 1 \in 0..n /\ k + 1 \in 1..n /\ k + 1 \in 1..Len(s) /\ k + 1 - 1 = k
      BY <1>4, <1>6
    <2>2. f[k + 1] = f[k] + s[k + 1]
      BY <1>9, <2>1 DEF Counts
    <2>3. ASSUME k + 1 < SlotsPerBuffer
          PROVE  f[k + 1] = (k + 1) * Chunk
      <3>1. f[k] = k * Chunk /\ s[k + 1] = Chunk
        BY <1>1, <1>7, <1>11, <2>1, <2>3
      <3>2. (k + 1) * Chunk = k * Chunk + Chunk
        BY <1>4, PumpSizes
      <3>. QED
        BY <2>2, <3>1, <3>2
    <2>. QED
      BY <2>1, <2>3
  <1>. HIDE DEF P
  <1>12. \A k \in 0..n : k \in P
    BY <1>4, <1>10, <1>11, UpTo
  <1>13. \A k \in 0..n : k < SlotsPerBuffer => f[k] = k * Chunk
    BY <1>12 DEF P
  <1>14. n = SlotsPerBuffer => f[n] = Size
    <2>. SUFFICES ASSUME n = SlotsPerBuffer PROVE f[n] = Size
      OBVIOUS
    <2>1. n - 1 \in 0..n /\ n - 1 < SlotsPerBuffer /\ n \in 1..Len(s) /\ n \in 1..n
      BY <1>1, <1>6
    <2>2. f[n - 1] = (n - 1) * Chunk
      BY <1>13, <2>1
    <2>3. f[n] = f[n - 1] + s[n] /\ s[n] = Rest
      BY <1>1, <1>7, <1>9, <2>1 DEF Counts
    <2>4. (n - 1) * Chunk = Chunk * (SlotsPerBuffer - 1)
      BY <1>1, PumpSizes
    <2>. QED
      BY <2>2, <2>3, <2>4, BufferFits, PumpSizes
  <1>15. n < SlotsPerBuffer => f[n] \in 0..Size
    <2>. SUFFICES ASSUME n < SlotsPerBuffer PROVE f[n] \in 0..Size
      OBVIOUS
    <2>1. f[n] = n * Chunk
      BY <1>4, <1>13
    <2>2. n * Chunk <= Chunk * (SlotsPerBuffer - 1) /\ n * Chunk \in Nat
      BY <1>1, <1>4, PumpSizes
    <2>3. Size >= Chunk * (SlotsPerBuffer - 1) /\ Chunk * (SlotsPerBuffer - 1) \in Int
      BY <1>1, BufferFits, PumpSizes
    <2>. QED
      BY <2>1, <2>2, <2>3, PumpSizes
  <1>16. frames_in(s) \in 0..Size /\ (n = SlotsPerBuffer => frames_in(s) = Size)
    BY <1>1, <1>4, <1>6, <1>9, <1>14, <1>15, PumpSizes
  <1>17. Len(queue) + n <= TxSlots /\ (Len(queue) + SlotsPerBuffer <= TxSlots => n = SlotsPerBuffer)
    BY <1>1, <1>4, PumpSizes DEF room
  <1>18. n = SlotsPerBuffer => \A k \in 1..SlotsPerBuffer : s[k] = SlotAt(SlotsPerBuffer - k)
    BY <1>7, SlotOfBuffer
  <1>. QED
    BY <1>4, <1>6, <1>16, <1>17, <1>18 DEF s

-----------------------------------------------------------------------------
(* The inductive invariant.                                                *)

\* NDL does not count more time than the device has played, but for the gap before the
\* write after which the device began: what it takes to be pending lasts, at its own
\* pace, at least as long as the frames there are.
Reckoned == since <= (audio_pending - frames_in(queue)) * LibTicks + phase + MaxGap

\* Behind the slot being played lie whole buffers.
WholeBuffers ==
    /\ frames_in(queue) = queue[1] + Behind(Len(queue) - 1)
    /\ \A i \in 2..Len(queue) : queue[i] = SlotAt(Len(queue) - i)

\* How long ago the last look will have been when the last frame is played.  There is
\* always a look before that grows out of bounds, so no look comes so late that an int
\* does not hold what is consumed.
Age == since + frames_in(queue) * LibTicks - phase

OwnFrames ==
    queue # <<>> /\ ~unsure =>
        /\ audio_pending >= 0
        /\ Reckoned
        /\ WholeBuffers
        /\ Age <= (3 * Size + Lag) * LibTicks
        /\ pump_pc = "write" => Age <= (2 * Size + Lag) * LibTicks
        /\ pump_pc # "idle" => frames_in(queue) <= est + Lag

PumpInv ==
    /\ PumpTypeOK
    /\ queue = <<>> => phase = 0
    /\ pump_pc \in {"play", "write"} => est < 2 * Size
    /\ OwnFrames

\* What a look at the clock can make of audio_pending.
LEMMA PendingIs ==
    ASSUME PumpTypeOK, NEW c \in consumed(since)
    PROVE  /\ c \in Int /\ pending_after(c) \in Ints
           /\ since < MaxSince => c \in Nat /\ c * LibTicks <= since
           /\ since < MaxSince /\ audio_pending >= 0 =>
                pending_after(c) = IF c > audio_pending THEN 0 ELSE audio_pending - c
  <1>1. since \in Nat /\ audio_pending \in Ints /\ LibTicks \in Nat \ {0} /\ IntMax \in Nat
    BY PumpSizes DEF PumpTypeOK
  <1>2. since \div LibTicks \in Nat /\ since % LibTicks \in 0..(LibTicks - 1)
        /\ since = (since \div LibTicks) * LibTicks + (since % LibTicks)
    BY <1>1, Division
  <1>3. since < MaxSince => c \in Nat /\ c * LibTicks <= since
    <2>1. since < MaxSince => c = since \div LibTicks
      BY DEF consumed
    <2>2. (since \div LibTicks) * LibTicks <= since
      <3>. DEFINE x == (since \div LibTicks) * LibTicks  r == since % LibTicks
      <3>1. x \in Nat /\ r \in Nat /\ since = x + r
        BY <1>1, <1>2
      <3>. HIDE DEF x, r
      <3>2. x <= since
        BY <3>1
      <3>. QED
        BY <3>2 DEF x
    <2>. QED
      BY <1>2, <2>1, <2>2
  <1>4. c \in Int
    <2>1. since < MaxSince => c \in Int
      BY <1>3
    <2>2. ~(since < MaxSince) => c \in Ints
      BY DEF consumed
    <2>3. c \in Ints => c \in Int
      BY <1>1 DEF Ints
    <2>. QED
      BY <2>1, <2>2, <2>3
  <1>5. audio_pending - c \in Int /\ 0 \in Ints
    BY <1>1, <1>4, LagIs, PumpSizes DEF Ints
  <1>6. pending_after(c) \in Ints
    BY <1>5, IntIs DEF pending_after
  <1>7. ASSUME since < MaxSince, audio_pending >= 0, ~(c > audio_pending)
        PROVE  int(audio_pending - c) = audio_pending - c
    <2>1. audio_pending - c \in Ints
      BY <1>1, <1>3, <1>7 DEF Ints
    <2>. QED
      BY <1>5, <2>1, IntIs
  <1>8. since < MaxSince /\ audio_pending >= 0 =>
            pending_after(c) = IF c > audio_pending THEN 0 ELSE audio_pending - c
    BY <1>7 DEF pending_after
  <1>. QED
    BY <1>3, <1>4, <1>6, <1>8

LEMMA QueueCounts ==
    ASSUME PumpTypeOK
    PROVE  /\ queue \in Seq(Nat) /\ frames_in(queue) \in Nat /\ Len(queue) \in Nat
           /\ queue # <<>> => Len(queue) >= 1 /\ queue[1] \in 1..Chunk
  <1>1. queue \in Seq(1..Chunk)
    BY DEF PumpTypeOK
  <1>2. queue \in Seq(Nat)
    BY <1>1, PumpSizes
  <1>3. Len(queue) \in Nat /\ queue \in [1..Len(queue) -> 1..Chunk]
    BY <1>1, LenProperties
  <1>4. queue # <<>> => Len(queue) >= 1
    BY <1>1, <1>3, EmptySeq
  <1>5. queue # <<>> => 1 \in 1..Len(queue)
    BY <1>3, <1>4
  <1>6. queue # <<>> => queue[1] \in 1..Chunk
    BY <1>3, <1>5, Zenon
  <1>. QED
    BY <1>2, <1>3, <1>4, <1>6, FramesType

\* With own frames there the last look was not so long ago that an int does not hold
\* what is consumed.
LEMMA OwnTypes ==
    ASSUME PumpInv, queue # <<>>, ~unsure
    PROVE  /\ since \in Nat /\ since < MaxSince /\ phase \in Nat /\ phase < LibTicks
           /\ audio_pending \in Nat
           /\ frames_in(queue) \in Nat \ {0}
  <1>1. PumpTypeOK /\ Age <= (3 * Size + Lag) * LibTicks /\ WholeBuffers /\ audio_pending >= 0
    BY DEF PumpInv, OwnFrames
  <1>. DEFINE F == frames_in(queue)  l == Len(queue) - 1
  <1>2. queue[1] \in 1..Chunk /\ l \in Nat /\ F \in Nat
    BY <1>1, QueueCounts
  <1>3. F = queue[1] + Behind(l)
    BY <1>1 DEF WholeBuffers
  <1>. HIDE DEF l, F
  <1>4. Behind(l) \in Nat
    BY <1>2, BehindNext
  <1>5. F >= 1
    BY <1>2, <1>3, <1>4, PumpSizes
  <1>6. since \in Nat /\ phase \in Nat /\ phase < LibTicks /\ audio_pending \in Nat
    BY <1>1, PumpSizes DEF PumpTypeOK, Ints
  <1>7. F * LibTicks >= LibTicks
    BY <1>2, <1>5, PumpSizes
  <1>8. (3 * Size + Lag) * LibTicks < MaxSince /\ (3 * Size + Lag) * LibTicks \in Nat
    BY LagIs, PumpSizes
  <1>. DEFINE a == F * LibTicks  b == (3 * Size + Lag) * LibTicks
  <1>9. a \in Nat /\ since + a - phase <= b
    BY <1>1, <1>2, PumpSizes DEF Age, F
  <1>10. since < MaxSince
    <2>. HIDE DEF a, b
    <2>1. a >= LibTicks /\ b < MaxSince /\ b \in Nat
      BY <1>7, <1>8 DEF a, b
    <2>. QED
      BY <1>6, <1>9, <2>1, PumpSizes
  <1>. QED
    BY <1>2, <1>5, <1>6, <1>10 DEF F

\* A look leaves NDL with a reckoning that is not ahead by more than the Lag.
LEMMA LookIs ==
    ASSUME PumpInv, queue # <<>>, ~unsure, NEW c \in consumed(since)
    PROVE  /\ pending_after(c) \in Nat
           /\ 0 <= (pending_after(c) - frames_in(queue)) * LibTicks + phase + MaxGap
           /\ frames_in(queue) <= pending_after(c) + Lag
  <1>. DEFINE F == frames_in(queue)  A == audio_pending  p == pending_after(c)  L == LibTicks
  <1>1. since \in Nat /\ since < MaxSince /\ phase \in Nat /\ phase < L /\ A \in Nat /\ F \in Nat
    BY OwnTypes
  <1>2. PumpTypeOK /\ since <= (A - F) * L + phase + MaxGap
    BY DEF PumpInv, OwnFrames, Reckoned
  <1>3. c \in Nat /\ c * L <= since /\ p = IF c > A THEN 0 ELSE A - c
    BY <1>1, <1>2, PendingIs
  <1>4. L \in Nat \ {0} /\ MaxGap \in Nat /\ Lag \in Nat /\ MaxGap <= Lag * L
    BY PumpSizes, LagIs
  <1>. HIDE DEF F, A, p, L
  <1>5. p \in Nat
    BY <1>1, <1>3
  <1>6. c * L <= (A - F) * L + phase + MaxGap
    <2>. DEFINE x == c * L  y == (A - F) * L
    <2>1. x \in Int /\ y \in Int /\ x <= since /\ since <= y + phase + MaxGap
      BY <1>1, <1>2, <1>3, <1>4
    <2>. HIDE DEF x, y
    <2>2. x <= y + phase + MaxGap
      BY <1>1, <1>4, <2>1
    <2>. QED
      BY <2>2 DEF x, y
  <1>7. 0 <= (p - F) * L + phase + MaxGap
    <2>1. p >= A - c
      BY <1>1, <1>3
    <2>2. (p - F) * L >= (A - c - F) * L
      BY <1>1, <1>3, <1>4, <1>5, <2>1
    <2>3. (A - c - F) * L = (A - F) * L - c * L
      BY <1>1, <1>3, <1>4
    <2>. DEFINE x == c * L  y == (A - F) * L  z == (p - F) * L
    <2>4. x \in Int /\ y \in Int /\ z \in Int /\ z >= y - x /\ x <= y + phase + MaxGap
      BY <1>1, <1>3, <1>4, <1>5, <1>6, <2>2, <2>3
    <2>. HIDE DEF x, y, z
    <2>5. 0 <= z + phase + MaxGap
      BY <1>1, <1>4, <2>4
    <2>. QED
      BY <2>5 DEF z
  <1>8. F <= p + Lag
    <2>. DEFINE e == F - p - Lag
    <2>1. e \in Int
      BY <1>1, <1>4, <1>5
    <2>2. (p - F) * L + Lag * L = -(e * L)
      BY <1>1, <1>4, <1>5
    <2>. DEFINE x == (p - F) * L  y == Lag * L  z == e * L
    <2>3. x \in Int /\ y \in Int /\ z \in Int /\ x + y = -z
          /\ 0 <= x + phase + MaxGap /\ MaxGap <= y
      BY <1>1, <1>4, <1>5, <1>7, <2>1, <2>2
    <2>4. e >= 1 => z >= L
      BY <1>4, <2>1
    <2>. HIDE DEF e, x, y, z
    <2>5. z < L
      BY <1>1, <1>4, <2>3
    <2>6. e <= 0
      BY <1>4, <2>1, <2>3, <2>4, <2>5
    <2>. QED
      BY <1>1, <1>4, <1>5, <2>6 DEF e
  <1>. QED
    BY <1>5, <1>7, <1>8 DEF F, p, L

LEMMA Covers == PumpInv => EstimateCovers
  BY LookIs DEF EstimateCovers

\* While less than two buffers are taken to be pending there is room for another.
LEMMA RoomForBuffer ==
    ASSUME PumpInv, pump_pc \in {"play", "write"}, ~unsure
    PROVE  Len(queue) + SlotsPerBuffer <= TxSlots
  <1>1. PumpTypeOK /\ est < 2 * Size /\ pump_pc # "idle" /\ est \in Int
    BY PumpSizes DEF PumpInv, PumpTypeOK, Ints
  <1>2. CASE queue = <<>>
    <2>1. Len(queue) = 0 /\ BuffersAhead * SlotsPerBuffer \in Nat
      BY <1>2, AheadIs, PumpSizes
    <2>. QED
      BY <2>1, AheadIs, PumpSizes
  <1>3. CASE queue # <<>>
    <2>. DEFINE F == frames_in(queue)  m == Len(queue) - 1
    <2>1. F <= est + Lag /\ F = queue[1] + Behind(m)
      BY <1>1, <1>3 DEF PumpInv, OwnFrames, WholeBuffers
    <2>2. F \in Nat /\ queue[1] \in Nat /\ queue[1] >= 1 /\ m \in Nat
      BY <1>1, <1>3, QueueCounts, PumpSizes
    <2>. HIDE DEF F, m
    <2>3. Behind(m) \in Nat
      BY <2>2, BehindNext
    <2>4. Behind(m) <= 2 * Size + Lag - 2
      BY <1>1, <2>1, <2>2, <2>3, LagIs, PumpSizes
    <2>5. Behind(m) < BuffersAhead * Size /\ BuffersAhead * Size \in Nat
      BY <2>3, <2>4, AheadIs, LagIs, PumpSizes
    <2>6. ~(m >= BuffersAhead * SlotsPerBuffer)
      BY <2>2, <2>3, <2>5, AheadIs, ManyBuffers
    <2>. DEFINE x == BuffersAhead * SlotsPerBuffer
    <2>7. x \in Nat /\ m < x /\ x + SlotsPerBuffer <= TxSlots
      BY <2>2, <2>6, AheadIs, PumpSizes
    <2>. HIDE DEF x
    <2>8. Len(queue) = m + 1
      BY <1>1, QueueCounts DEF m
    <2>. QED
      BY <2>2, <2>7, <2>8, PumpSizes
  <1>. QED
    BY <1>2, <1>3

LEMMA NothingIsCut == PumpInv => NothingCut
  <1>. SUFFICES ASSUME PumpInv, pump_pc = "write", ~unsure PROVE frames_taken = Size
    BY DEF NothingCut
  <1>1. PumpTypeOK /\ Len(queue) + SlotsPerBuffer <= TxSlots
    BY RoomForBuffer DEF PumpInv
  <1>. QED
    BY <1>1, FilledIs DEF frames_taken

LEMMA PumpInvInit == PumpInit => PumpInv
  <1>. SUFFICES ASSUME PumpInit PROVE PumpInv
    OBVIOUS
  <1>1. PumpTypeOK
    <2>1. queue \in Seq(1..Chunk) /\ Len(queue) <= TxSlots
      BY PumpSizes DEF PumpInit
    <2>2. /\ opened \in BOOLEAN /\ paused \in BOOLEAN /\ has_focus \in BOOLEAN
          /\ pump_pc \in {"idle", "loop", "play", "write"} /\ unsure \in BOOLEAN
      BY Zenon DEF PumpInit
    <2>3. /\ audio_pending \in Ints /\ est \in Ints
          /\ since \in 0..MaxSince /\ phase \in 0..(DevTicks - 1)
      BY PumpSizes, LagIs DEF PumpInit, Ints
    <2>. QED
      BY <2>1, <2>2, <2>3 DEF PumpTypeOK
  <1>. QED
    BY <1>1 DEF PumpInit, PumpInv, OwnFrames

-----------------------------------------------------------------------------
(* The steps.                                                              *)

\* A look at the clock, by NDL_QueryAudio or NDL_PlayAudio: the reckoning starts again
\* with all that is still to be played.
LEMMA LookKeeps ==
    ASSUME PumpInv, update_audio_pending, UNCHANGED <<has_focus, queue, phase, unsure>>,
           opened' \in BOOLEAN, paused' \in BOOLEAN,
           \/ pump_pc' = "loop" /\ est' = audio_pending'
           \/ pump_pc = "play" /\ pump_pc' = "write" /\ UNCHANGED est
    PROVE  PumpInv'
  <1>1. PumpTypeOK /\ (queue = <<>> => phase = 0)
    BY DEF PumpInv
  <1>2. PICK c \in consumed(since) : audio_pending' = pending_after(c)
    BY DEF update_audio_pending
  <1>3. since' = 0
    BY DEF update_audio_pending
  <1>4. PumpTypeOK'
    <2>1. audio_pending' \in Ints /\ est' \in Ints
      BY <1>1, <1>2, PendingIs DEF PumpTypeOK
    <2>2. /\ has_focus' \in BOOLEAN /\ unsure' \in BOOLEAN
          /\ pump_pc' \in {"idle", "loop", "play", "write"}
      BY <1>1, Zenon DEF PumpTypeOK
    <2>3. since' \in 0..MaxSince /\ phase' \in 0..(DevTicks - 1)
          /\ queue' \in Seq(1..Chunk) /\ Len(queue') <= TxSlots
      BY <1>1, <1>3, PumpSizes DEF PumpTypeOK
    <2>. QED
      BY <2>1, <2>2, <2>3 DEF PumpTypeOK
  <1>5. pump_pc' = "write" => est' < 2 * Size
    BY DEF PumpInv
  <1>6. OwnFrames'
    <2>. SUFFICES ASSUME queue # <<>>, ~unsure
                  PROVE  /\ audio_pending' >= 0 /\ Reckoned' /\ WholeBuffers'
                         /\ Age' <= (3 * Size + Lag) * LibTicks
                         /\ pump_pc' = "write" => Age' <= (2 * Size + Lag) * LibTicks
                         /\ pump_pc' # "idle" => frames_in(queue)' <= est' + Lag
      BY DEF OwnFrames
    <2>. DEFINE F == frames_in(queue)  p == pending_after(c)
    <2>1. p \in Nat /\ 0 <= (p - F) * LibTicks + phase + MaxGap /\ F <= p + Lag
      BY LookIs
    <2>2. since \in Nat /\ phase \in Nat /\ F \in Nat
      BY OwnTypes
    <2>3. audio_pending' >= 0 /\ Reckoned'
      BY <1>2, <1>3, <2>1 DEF Reckoned
    <2>4. WholeBuffers'
      BY DEF PumpInv, OwnFrames, WholeBuffers
    <2>5. Age' = F * LibTicks - phase
      <3>1. Age' = 0 + F * LibTicks - phase
        BY <1>3 DEF Age
      <3>2. F * LibTicks \in Nat
        BY <2>2, PumpSizes
      <3>. QED
        BY <2>2, <3>1, <3>2
    <2>6. Age' <= (3 * Size + Lag) * LibTicks
      <3>. DEFINE x == F * LibTicks  y == (3 * Size + Lag) * LibTicks
      <3>1. x \in Nat /\ y \in Nat /\ since + x - phase <= y
        BY <2>2, LagIs, PumpSizes DEF PumpInv, OwnFrames, Age
      <3>. HIDE DEF x, y
      <3>2. x - phase <= y
        BY <2>2, <3>1
      <3>. QED
        BY <2>5, <3>2 DEF x, y
    <2>7. pump_pc' # "idle" => F <= est' + Lag
      <3>1. CASE est' = audio_pending'
        BY <1>2, <2>1, <3>1
      <3>2. CASE pump_pc = "play" /\ UNCHANGED est
        BY <3>2 DEF PumpInv, OwnFrames
      <3>. QED
        BY <3>1, <3>2
    <2>8. pump_pc' = "write" => Age' <= (2 * Size + Lag) * LibTicks
      <3>. SUFFICES ASSUME pump_pc' = "write" PROVE Age' <= (2 * Size + Lag) * LibTicks
        OBVIOUS
      <3>1. est' < 2 * Size /\ est' \in Int
        BY <1>4, <1>5, PumpSizes DEF PumpTypeOK, Ints
      <3>2. F <= 2 * Size + Lag
        BY <2>2, <2>7, <3>1, LagIs, PumpSizes
      <3>. DEFINE x == F * LibTicks  t == 2 * Size + Lag  y == t * LibTicks
      <3>3. t \in Nat /\ F <= t
        BY <3>2, LagIs, PumpSizes
      <3>. HIDE DEF t
      <3>4. x \in Nat /\ y \in Nat /\ x <= y
        BY <2>2, <3>3, PumpSizes
      <3>. HIDE DEF x, y
      <3>5. x - phase <= y
        BY <2>2, <3>4
      <3>. QED
        BY <2>5, <3>5 DEF x, y, t
    <2>. QED
      BY <2>3, <2>4, <2>6, <2>7, <2>8
  <1>. QED
    BY <1>1, <1>4, <1>5, <1>6 DEF PumpInv

\* What only moves pump_pc or pauses leaves the frames and their reckoning alone.
LEMMA OwnUnchanged ==
    ASSUME PumpInv, UNCHANGED <<since, audio_pending, queue, phase, unsure>>,
           \/ UNCHANGED <<pump_pc, est>>
           \/ pump_pc # "idle" /\ pump_pc' # "write" /\ UNCHANGED est
           \/ pump_pc' = "idle"
    PROVE  OwnFrames'
  <1>1. OwnFrames
    BY DEF PumpInv
  <1>2. UNCHANGED <<Reckoned, WholeBuffers, Age, frames_in(queue)>>
    BY DEF Reckoned, WholeBuffers, Age
  <1>. QED
    BY <1>1, <1>2 DEF OwnFrames

\* A whole buffer behind whole buffers.
LEMMA BufferBehind ==
    ASSUME PumpTypeOK, queue # <<>> => WholeBuffers, NEW s \in Seq(1..Chunk),
           Len(s) = SlotsPerBuffer, frames_in(s) = Size,
           \A k \in 1..SlotsPerBuffer : s[k] = SlotAt(SlotsPerBuffer - k),
           queue' = queue \o s
    PROVE  WholeBuffers'
  <1>. DEFINE n == SlotsPerBuffer  l == Len(queue)
  <1>1. n \in Nat \ {0} /\ l \in Nat /\ queue \in Seq(Nat) /\ s \in Seq(Nat)
    BY QueueCounts, PumpSizes
  <1>2. Len(queue') = l + n /\ (\A i \in 1..l : queue'[i] = queue[i])
        /\ \A i \in (l + 1)..(l + n) : queue'[i] = s[i - l]
    <2>. DEFINE t == queue \o s
    <2>1. Len(t) = l + Len(s) /\ (\A i \in 1..l : t[i] = queue[i])
          /\ \A i \in (l + 1)..(l + Len(s)) : t[i] = s[i - l]
      <3>1. Len(t) = Len(queue) + Len(s)
            /\ \A i \in 1..(Len(queue) + Len(s)) :
                    t[i] = IF i <= Len(queue) THEN queue[i] ELSE s[i - Len(queue)]
        BY <1>1, ConcatProperties
      <3>2. Len(queue) \in Nat /\ Len(s) \in Nat
        BY <1>1
      <3>. HIDE DEF t
      <3>. QED
        BY <3>1, <3>2
    <2>2. queue' = t /\ Len(s) = n
      OBVIOUS
    <2>. HIDE DEF t, n
    <2>. QED
      BY <2>1, <2>2
  <1>3. frames_in(queue') = frames_in(queue) + Size
    BY <1>1, FramesConcat
  <1>. HIDE DEF n, l
  <1>4. CASE queue = <<>>
    <2>1. l = 0 /\ frames_in(queue) = 0
      BY <1>4, FramesNone DEF l
    <2>2. queue'[1] = SlotAt(n - 1)
      BY <1>1, <1>2, <2>1 DEF n
    <2>3. Behind(n - 1 + 1) = Behind(n - 1) + SlotAt(n - 1) /\ Behind(n - 1) \in Nat
          /\ SlotAt(n - 1) \in Nat
      <3>1. n - 1 \in Nat
        BY <1>1
      <3>. DEFINE k == n - 1
      <3>. HIDE DEF k
      <3>2. k \in Nat
        BY <3>1 DEF k
      <3>3. Behind(k + 1) = Behind(k) + SlotAt(k) /\ Behind(k) \in Nat
        BY <3>2, BehindNext
      <3>4. SlotAt(k) \in 1..Chunk
        BY <3>2, SlotType
      <3>5. SlotAt(k) \in Nat
        BY <3>4, PumpSizes
      <3>. QED
        BY <3>3, <3>5 DEF k
    <2>4. Behind(0 + n) = Behind(0) + Size
      BY BehindBuffer DEF n
    <2>5. Behind(n) = Size
      BY <1>1, <2>4, BehindNone, PumpSizes
    <2>6. frames_in(queue') = queue'[1] + Behind(Len(queue') - 1)
      BY <1>1, <1>2, <1>3, <2>1, <2>2, <2>3, <2>5, PumpSizes
    <2>7. ASSUME NEW i \in 2..Len(queue')
          PROVE  queue'[i] = SlotAt(Len(queue') - i)
      <3>1. i \in 1..n /\ i \in (l + 1)..(l + n) /\ i - l = i /\ Len(queue') - i = n - i
        BY <1>1, <1>2, <2>1, <2>7
      <3>2. s[i] = SlotAt(n - i)
        BY <3>1 DEF n
      <3>. QED
        BY <1>2, <3>1, <3>2
    <2>. QED
      BY <2>6, <2>7 DEF WholeBuffers
  <1>5. CASE queue # <<>>
    <2>1. l >= 1 /\ l - 1 \in Nat
      BY <1>1, <1>5, EmptySeq DEF l
    <2>2. frames_in(queue) = queue[1] + Behind(l - 1)
          /\ \A i \in 2..l : queue[i] = SlotAt(l - i)
      BY <1>5 DEF WholeBuffers, l
    <2>3. Behind((l - 1) + n) = Behind(l - 1) + Size /\ Behind(l - 1) \in Nat
      BY <2>1, BehindBuffer, BehindNext DEF n
    <2>4. queue'[1] = queue[1] /\ queue[1] \in Nat
      BY <1>1, <1>2, <2>1 DEF l
    <2>5. Len(queue') - 1 = (l - 1) + n
      BY <1>1, <1>2, <2>1
    <2>6. frames_in(queue') = queue'[1] + Behind(Len(queue') - 1)
      BY <1>3, <2>2, <2>3, <2>4, <2>5, PumpSizes
    <2>7. ASSUME NEW i \in 2..Len(queue')
          PROVE  queue'[i] = SlotAt(Len(queue') - i)
      <3>1. CASE i <= l
        <4>1. queue'[i] = SlotAt(l - i) /\ l - i \in Nat
          BY <1>1, <1>2, <2>2, <2>7, <3>1
        <4>2. SlotAt((l - i) + n) = SlotAt(l - i)
          BY <4>1, BehindBuffer DEF n
        <4>3. Len(queue') - i = (l - i) + n
          BY <1>1, <1>2, <2>7
        <4>. QED
          BY <4>1, <4>2, <4>3
      <3>2. CASE i > l
        <4>1. i - l \in 1..n /\ i \in (l + 1)..(l + n) /\ Len(queue') - i = n - (i - l)
          BY <1>1, <1>2, <2>7, <3>2
        <4>2. s[i - l] = SlotAt(n - (i - l))
          BY <4>1 DEF n
        <4>. QED
          BY <1>2, <4>1, <4>2
      <3>. QED
        BY <1>1, <2>7, <3>1, <3>2
    <2>. QED
      BY <2>6, <2>7 DEF WholeBuffers
  <1>. QED
    BY <1>4, <1>5

\* The queue after a write holds what the device had and what was taken.
LEMMA WriteTakes ==
    ASSUME PumpTypeOK, play_write
    PROVE  /\ frames_taken \in 0..Size
           /\ queue' \in Seq(1..Chunk) /\ Len(queue') <= TxSlots
           /\ queue' = <<>> => queue = <<>>
           /\ frames_in(queue') =
                    frames_in(queue) + (IF has_focus THEN frames_taken ELSE 0)
  <1>. DEFINE s == slots_filled
  <1>1. s \in Seq(1..Chunk) /\ Len(queue) + Len(s) <= TxSlots /\ frames_in(s) \in 0..Size
    BY FilledIs
  <1>2. frames_taken = IF has_focus THEN frames_in(s) ELSE Size
    BY DEF frames_taken
  <1>3. queue' = IF has_focus THEN queue \o s ELSE queue
    BY DEF play_write
  <1>4. queue \in Seq(1..Chunk) /\ Len(queue) <= TxSlots /\ frames_in(queue) \in Nat
    BY QueueCounts DEF PumpTypeOK
  <1>. HIDE DEF s
  <1>5. /\ queue \o s \in Seq(1..Chunk) /\ Len(queue \o s) = Len(queue) + Len(s)
        /\ Len(queue) \in Nat /\ Len(s) \in Nat
    BY <1>1, <1>4, ConcatProperties
  <1>6. queue \o s = <<>> => queue = <<>>
    <2>1. queue \o s = <<>> => Len(queue \o s) = 0
      OBVIOUS
    <2>2. queue # <<>> => Len(queue) # 0
      BY <1>4, EmptySeq
    <2>. QED
      BY <1>5, <2>1, <2>2
  <1>7. frames_in(queue \o s) = frames_in(queue) + frames_in(s)
    <2>1. queue \in Seq(Nat) /\ s \in Seq(Nat)
      BY <1>1, <1>4, PumpSizes
    <2>. QED
      BY <2>1, FramesConcat
  <1>8. frames_taken \in 0..Size
    BY <1>1, <1>2, PumpSizes
  <1>9. CASE has_focus
    BY <1>1, <1>2, <1>3, <1>5, <1>6, <1>7, <1>8, <1>9
  <1>10. CASE ~has_focus
    BY <1>2, <1>3, <1>4, <1>8, <1>10
  <1>. QED
    BY <1>9, <1>10

\* Whole buffers stay whole buffers.
LEMMA WriteWhole ==
    ASSUME PumpInv, play_write, queue' # <<>>, ~unsure'
    PROVE  WholeBuffers'
  <1>1. ~unsure /\ pump_pc = "write"
    BY DEF play_write
  <1>2. PumpTypeOK /\ (queue # <<>> => WholeBuffers)
    BY <1>1 DEF PumpInv, OwnFrames
  <1>3. CASE has_focus
    <2>. DEFINE s == slots_filled
    <2>1. queue' = queue \o s
      BY <1>3 DEF play_write
    <2>2. Len(queue) + SlotsPerBuffer <= TxSlots
      BY <1>1, RoomForBuffer
    <2>3. s \in Seq(1..Chunk) /\ Len(s) = SlotsPerBuffer /\ frames_in(s) = Size
          /\ \A k \in 1..SlotsPerBuffer : s[k] = SlotAt(SlotsPerBuffer - k)
      BY <1>2, <2>2, FilledIs
    <2>. HIDE DEF s
    <2>. QED
      BY <1>2, <2>1, <2>3, BufferBehind
  <1>4. CASE ~has_focus
    <2>1. queue' = queue
      BY <1>4 DEF play_write
    <2>. QED
      BY <1>2, <2>1 DEF WholeBuffers
  <1>. QED
    BY <1>3, <1>4

\* A write behind frames that are there leaves the time of the look as it was; one to a
\* device that stood still comes no later than MaxGap behind it.
LEMMA WriteKeeps == PumpInv /\ play_write => PumpInv'
  <1>. SUFFICES ASSUME PumpInv, play_write PROVE PumpInv'
    OBVIOUS
  <1>. DEFINE n == frames_taken  F == frames_in(queue)  G == frames_in(queue')
              k == IF has_focus THEN n ELSE 0
  <1>1. PumpTypeOK /\ pump_pc = "write" /\ est < 2 * Size /\ (queue = <<>> => phase = 0)
    BY DEF PumpInv, play_write
  <1>2. n \in 0..Size /\ queue' \in Seq(1..Chunk) /\ Len(queue') <= TxSlots
        /\ (queue' = <<>> => queue = <<>>) /\ G = F + k
    BY <1>1, WriteTakes
  <1>3. audio_pending \in Ints /\ est \in Ints /\ since \in 0..MaxSince /\ F \in Nat
        /\ phase \in 0..(DevTicks - 1)
    BY <1>1, QueueCounts DEF PumpTypeOK
  <1>4. /\ audio_pending' = int(audio_pending + n)
        /\ unsure' = (queue' # <<>> /\ (unsure \/ comes_late \/ overflowed))
        /\ IF n = 0 THEN pump_pc' = "idle" /\ est' = 0 ELSE pump_pc' = "loop" /\ est' = est + n
        /\ UNCHANGED <<opened, paused, since, has_focus, phase>>
    BY DEF play_write
  <1>. HIDE DEF n, F, G
  <1>5. audio_pending + n \in Int
    BY <1>2, <1>3, PumpSizes DEF Ints
  <1>6. PumpTypeOK'
    <2>1. audio_pending' \in Ints
      BY <1>4, <1>5, IntIs
    <2>2. est' \in Ints
      BY <1>1, <1>2, <1>3, <1>4, PumpSizes, LagIs DEF Ints
    <2>3. /\ opened' \in BOOLEAN /\ paused' \in BOOLEAN /\ has_focus' \in BOOLEAN
          /\ pump_pc' \in {"idle", "loop", "play", "write"} /\ unsure' \in BOOLEAN
      BY <1>1, <1>4, Zenon DEF PumpTypeOK
    <2>. QED
      BY <1>2, <1>3, <1>4, <2>1, <2>2, <2>3 DEF PumpTypeOK
  <1>7. OwnFrames'
    <2>. SUFFICES ASSUME queue' # <<>>, ~unsure'
                  PROVE  /\ audio_pending' >= 0 /\ Reckoned' /\ WholeBuffers'
                         /\ Age' <= (3 * Size + Lag) * LibTicks
                         /\ pump_pc' = "write" => Age' <= (2 * Size + Lag) * LibTicks
                         /\ pump_pc' # "idle" => G <= est' + Lag
      BY DEF OwnFrames, G
    <2>1. ~unsure /\ audio_pending >= 0 /\ audio_pending' >= 0 /\ est >= 0
          /\ (queue = <<>> => since <= MaxGap)
      <3>1. ~comes_late /\ ~overflowed /\ ~unsure
        BY <1>4
      <3>2. ~(audio_pending < 0) /\ ~(audio_pending' < 0) /\ ~(est < 0)
        BY <3>1 DEF overflowed
      <3>3. queue = <<>> => ~(since > MaxGap)
        BY <3>1 DEF comes_late
      <3>. QED
        BY <1>3, <1>6, <3>1, <3>2, <3>3, PumpSizes DEF PumpTypeOK, Ints
    <2>2. audio_pending' = audio_pending + n
      <3>. DEFINE a == audio_pending + n
      <3>1. a \in 0..(2 * IntMax - 1)
        BY <1>2, <1>3, <2>1, PumpSizes, LagIs DEF Ints
      <3>2. a \notin IntMax..(2 * IntMax - 1)
        BY <1>4, <1>5, <2>1, IntIs, PumpSizes DEF Ints
      <3>3. a \in Ints
        BY <3>1, <3>2, PumpSizes DEF Ints
      <3>. QED
        BY <1>4, <1>5, <3>3, IntIs
    <2>3. WholeBuffers'
      BY WriteWhole
    <2>4. k \in 0..n /\ k \in 0..Size
      BY <1>2, PumpSizes
    <2>. HIDE DEF k
    <2>. DEFINE A == audio_pending  L == LibTicks
    <2>5. A \in Nat /\ L \in Nat \ {0} /\ Lag \in Nat /\ MaxGap \in Nat /\ MaxGap <= Lag * L
          /\ phase \in Nat /\ since \in Nat /\ n \in Nat /\ Size \in Nat
      BY <1>2, <1>3, <2>1, PumpSizes, LagIs DEF Ints
    <2>6. /\ since <= (A - F) * L + phase + MaxGap
          /\ since + F * L - phase <= (2 * Size + Lag) * L
          /\ F <= est + Lag
      <3>1. CASE queue # <<>>
        BY <1>1, <2>1, <3>1 DEF PumpInv, OwnFrames, Reckoned, Age, F
      <3>2. CASE queue = <<>>
        <4>1. F = 0 /\ phase = 0 /\ since <= MaxGap
          BY <1>1, <2>1, <3>2, FramesNone DEF F
        <4>2. (A - 0) * L \in Nat /\ 0 * L = 0
          BY <2>5
        <4>3. (2 * Size + Lag) * L = (2 * Size) * L + Lag * L /\ (2 * Size) * L \in Nat
              /\ Lag * L \in Nat
          BY <2>5
        <4>. DEFINE x == (A - 0) * L  y == (2 * Size) * L  z == Lag * L
        <4>4. x \in Nat /\ y \in Nat /\ z \in Nat /\ MaxGap <= z
          BY <2>5, <4>2, <4>3
        <4>. HIDE DEF x, y, z
        <4>5. since <= x + 0 + MaxGap /\ since + 0 - 0 <= y + z
          BY <2>5, <4>1, <4>4
        <4>6. F <= est + Lag
          BY <1>3, <2>1, <2>5, <4>1, PumpSizes DEF Ints
        <4>7. since <= (A - F) * L + phase + MaxGap
          BY <4>1, <4>5 DEF x
        <4>8. since + F * L - phase <= (2 * Size + Lag) * L
          <5>1. since + 0 - 0 <= (2 * Size + Lag) * L
            BY <4>3, <4>5 DEF y, z
          <5>. QED
            BY <4>1, <4>2, <5>1
        <4>. QED
          BY <4>6, <4>7, <4>8
      <3>. QED
        BY <3>1, <3>2
    <2>7. Reckoned'
      <3>1. Reckoned' <=> since <= (audio_pending' - G) * L + phase + MaxGap
        BY <1>4 DEF Reckoned, G
      <3>2. audio_pending' - G = (A - F) + (n - k)
        BY <1>2, <1>3, <2>2, <2>4, <2>5
      <3>3. ((A - F) + (n - k)) * L = (A - F) * L + (n - k) * L /\ (n - k) * L \in Nat
            /\ (A - F) * L \in Int
        BY <1>3, <2>4, <2>5
      <3>. DEFINE x == (A - F) * L  y == (n - k) * L
      <3>4. x \in Int /\ y \in Nat /\ since <= x + phase + MaxGap
        BY <2>6, <3>3
      <3>. HIDE DEF x, y
      <3>5. since <= x + y + phase + MaxGap
        BY <2>5, <3>4
      <3>6. (audio_pending' - G) * L = x + y
        BY <3>2, <3>3 DEF x, y
      <3>. QED
        BY <3>1, <3>5, <3>6
    <2>8. Age' <= (3 * Size + Lag) * LibTicks
      <3>1. Age' = since + (F + k) * L - phase
        BY <1>2, <1>4 DEF Age, G
      <3>2. (F + k) * L = F * L + k * L /\ k * L <= Size * L
            /\ F * L \in Nat /\ k * L \in Nat /\ Size * L \in Nat
        BY <1>3, <2>4, <2>5
      <3>3. (3 * Size + Lag) * L = (2 * Size + Lag) * L + Size * L
            /\ (2 * Size + Lag) * L \in Nat
        BY <2>5
      <3>. DEFINE x == F * L  y == k * L  z == Size * L  w == (2 * Size + Lag) * L
      <3>4. x \in Nat /\ y \in Nat /\ z \in Nat /\ w \in Nat /\ y <= z /\ since + x - phase <= w
        BY <2>6, <3>2, <3>3
      <3>. HIDE DEF x, y, z, w
      <3>5. since + (x + y) - phase <= w + z
        BY <2>5, <3>4
      <3>. QED
        BY <3>1, <3>2, <3>3, <3>5 DEF x, y, z, w
    <2>9. pump_pc' # "write"
      BY <1>4
    <2>10. pump_pc' # "idle" => G <= est' + Lag
      <3>1. pump_pc' # "idle" => est' = est + n
        BY <1>4
      <3>. QED
        BY <1>2, <1>3, <2>4, <2>5, <2>6, <3>1, PumpSizes DEF Ints
    <2>. QED
      BY <2>1, <2>3, <2>7, <2>8, <2>9, <2>10
  <1>8. queue' = <<>> => phase' = 0
    BY <1>1, <1>2, <1>4
  <1>9. pump_pc' \notin {"play", "write"}
    BY <1>4
  <1>. QED
    BY <1>6, <1>7, <1>8, <1>9 DEF PumpInv

LEMMA TickKeeps == PumpInv /\ tick => PumpInv'
  <1>. SUFFICES ASSUME PumpInv, tick PROVE PumpInv'
    OBVIOUS
  <1>. DEFINE ends == queue # <<>> /\ phase = DevTicks - 1
  <1>1. PumpTypeOK /\ (queue = <<>> => phase = 0) /\ OwnFrames
        /\ (pump_pc \in {"play", "write"} => est < 2 * Size)
    BY DEF PumpInv
  <1>2. /\ since' = Min({since + 1, MaxSince})
        /\ phase' = IF queue = <<>> \/ ends THEN 0 ELSE phase + 1
        /\ queue' = IF ~ends THEN queue
                    ELSE IF Head(queue) = 1 THEN Tail(queue)
                    ELSE [queue EXCEPT ![1] = @ - 1]
        /\ unsure' = (unsure /\ queue' # <<>>)
        /\ UNCHANGED <<opened, paused, audio_pending, est, pump_pc, has_focus>>
    BY DEF tick, lib
  <1>3. since \in 0..MaxSince /\ phase \in 0..(DevTicks - 1) /\ queue \in Seq(1..Chunk)
        /\ Len(queue) <= TxSlots
    BY <1>1 DEF PumpTypeOK
  <1>4. since' \in 0..MaxSince /\ since' <= since + 1
    <2>1. {since + 1, MaxSince} \subseteq Nat /\ {since + 1, MaxSince} # {}
      BY <1>3, PumpSizes
    <2>2. since' \in {since + 1, MaxSince} /\ \A j \in {since + 1, MaxSince} : since' <= j
      BY <1>2, <2>1, MinMember
    <2>. QED
      BY <1>3, <2>1, <2>2, PumpSizes
  <1>5. phase' \in 0..(DevTicks - 1)
    BY <1>2, <1>3, <1>1, PumpSizes
  \* Of own frames a step takes one tick off the slot, and one frame with its last tick.
  <1>6. ASSUME queue' \in Seq(1..Chunk), Len(queue') <= TxSlots,
               queue' = <<>> => phase' = 0,
               queue # <<>> /\ ~unsure /\ queue' # <<>> =>
                    /\ WholeBuffers' /\ frames_in(queue') \in Nat
                    /\ \/ frames_in(queue') = frames_in(queue) /\ phase' = phase + 1
                       \/ /\ frames_in(queue') = frames_in(queue) - 1
                          /\ phase = DevTicks - 1 /\ phase' = 0,
               queue' # <<>> => queue # <<>>
        PROVE  PumpInv'
    <2>1. PumpTypeOK'
      <3>1. /\ opened' \in BOOLEAN /\ paused' \in BOOLEAN /\ has_focus' \in BOOLEAN
            /\ pump_pc' \in {"idle", "loop", "play", "write"} /\ unsure' \in BOOLEAN
        BY <1>1, <1>2, Zenon DEF PumpTypeOK
      <3>2. audio_pending' \in Ints /\ est' \in Ints
        BY <1>1, <1>2 DEF PumpTypeOK
      <3>. QED
        BY <1>4, <1>5, <1>6, <3>1, <3>2 DEF PumpTypeOK
    <2>2. OwnFrames'
      <3>. SUFFICES ASSUME queue' # <<>>, ~unsure'
                    PROVE  /\ audio_pending' >= 0 /\ Reckoned' /\ WholeBuffers'
                           /\ Age' <= (3 * Size + Lag) * LibTicks
                           /\ pump_pc' = "write" => Age' <= (2 * Size + Lag) * LibTicks
                           /\ pump_pc' # "idle" => frames_in(queue') <= est' + Lag
        BY DEF OwnFrames
      <3>. DEFINE F == frames_in(queue)  G == frames_in(queue')  A == audio_pending
                  L == LibTicks
      <3>1. queue # <<>> /\ ~unsure
        BY <1>2, <1>6
      <3>2. /\ since \in Nat /\ phase \in Nat /\ phase < L /\ A \in Nat /\ F \in Nat
            /\ A >= 0 /\ since <= (A - F) * L + phase + MaxGap
            /\ since + F * L - phase <= (3 * Size + Lag) * L
            /\ pump_pc = "write" => since + F * L - phase <= (2 * Size + Lag) * L
            /\ pump_pc # "idle" => F <= est + Lag
        BY <1>1, <3>1, OwnTypes DEF OwnFrames, Reckoned, Age
      <3>3. /\ WholeBuffers' /\ G \in Nat
            /\ \/ G = F /\ phase' = phase + 1
               \/ G = F - 1 /\ phase = DevTicks - 1 /\ phase' = 0
        BY <1>6, <3>1
      <3>4. /\ Reckoned' <=> since' <= (A - G) * L + phase' + MaxGap
            /\ Age' = since' + G * L - phase'
        BY <1>2 DEF Reckoned, Age
      <3>5. since' \in Nat /\ phase' \in Nat /\ L \in Nat /\ DevTicks <= L /\ MaxGap \in Nat
            /\ DevTicks \in Nat /\ (3 * Size + Lag) * L \in Nat /\ (2 * Size + Lag) * L \in Nat
            /\ Lag \in Nat /\ est \in Int
        BY <1>1, <1>4, <1>5, PumpSizes, LagIs DEF PumpTypeOK, Ints
      <3>. HIDE DEF F, G, A, L
      <3>6. /\ since \in Nat /\ phase \in Nat /\ L \in Nat /\ MaxGap \in Nat
            /\ since' \in Nat /\ phase' \in Nat /\ DevTicks \in Nat /\ DevTicks <= L
        BY <3>2, <3>5
      <3>7. since' <= (A - G) * L + phase' + MaxGap /\ since' + G * L - phase' <= since + F * L - phase
        <4>1. CASE G = F /\ phase' = phase + 1
          <5>. DEFINE x == (A - F) * L  y == F * L
          <5>1. x \in Int /\ y \in Int /\ since <= x + phase + MaxGap
            BY <3>2, <3>5
          <5>. HIDE DEF x, y
          <5>2. since' <= x + phase' + MaxGap /\ since' + y - phase' <= since + y - phase
            <6>1. since' <= since + 1 /\ phase' = phase + 1
              BY <1>4, <4>1
            <6>2. since' <= x + phase' + MaxGap
              BY <3>6, <5>1, <6>1
            <6>3. since' + y - phase' <= since + y - phase
              <7>. DEFINE t == since'  q == phase'
              <7>1. t \in Nat /\ q \in Nat /\ t <= since + 1 /\ q = phase + 1
                BY <3>6, <6>1
              <7>. HIDE DEF t, q
              <7>2. t + y - q <= since + y - phase
                BY <3>6, <5>1, <7>1
              <7>. QED
                BY <7>2 DEF t, q
            <6>. QED
              BY <6>2, <6>3
          <5>. QED
            BY <4>1, <5>2 DEF x, y
        <4>2. CASE G = F - 1 /\ phase = DevTicks - 1 /\ phase' = 0
          <5>. DEFINE x == (A - F) * L  y == F * L
          <5>1. x \in Int /\ y \in Int /\ since <= x + phase + MaxGap
            BY <3>2, <3>5
          <5>2. (A - G) * L = x + L /\ G * L = y - L
            BY <3>2, <3>5, <4>2
          <5>. HIDE DEF x, y
          <5>3. since' <= (x + L) + phase' + MaxGap
                /\ since' + (y - L) - phase' <= since + y - phase
            <6>1. since' <= since + 1 /\ phase = DevTicks - 1 /\ phase' = 0
              BY <1>4, <4>2
            <6>2. since' <= (x + L) + phase' + MaxGap
              BY <3>6, <5>1, <6>1
            <6>3. since' + (y - L) - phase' <= since + y - phase
              <7>. DEFINE t == since'  q == phase'
              <7>1. t \in Nat /\ q = 0 /\ t <= since + 1 /\ phase = DevTicks - 1
                BY <3>6, <6>1
              <7>. HIDE DEF t, q
              <7>2. t + (y - L) - q <= since + y - phase
                BY <3>6, <5>1, <7>1
              <7>. QED
                BY <7>2 DEF t, q
            <6>. QED
              BY <6>2, <6>3
          <5>. QED
            BY <5>2, <5>3 DEF x, y
        <4>. QED
          BY <3>3, <4>1, <4>2
      <3>8. G <= F
        BY <3>2, <3>3
      <3>. DEFINE a == Age'  b == since + F * L - phase
      <3>9. a \in Int /\ b \in Int /\ a <= b
        <4>1. G * L \in Int /\ F * L \in Int
          BY <3>2, <3>3, <3>6
        <4>. DEFINE x == G * L  y == F * L  t == since'  q == phase'
        <4>2. x \in Int /\ y \in Int /\ a = t + x - q /\ b = since + y - phase
              /\ t + x - q <= since + y - phase
          BY <3>4, <3>7, <4>1
        <4>3. t \in Nat /\ q \in Nat
          BY <3>6
        <4>. HIDE DEF a, b, x, y, t, q
        <4>. QED
          BY <3>6, <4>2, <4>3
      <3>10. a <= (3 * Size + Lag) * L /\ (pump_pc = "write" => a <= (2 * Size + Lag) * L)
        <4>. DEFINE y == (3 * Size + Lag) * L  z == (2 * Size + Lag) * L
        <4>1. y \in Int /\ z \in Int /\ b <= y /\ (pump_pc = "write" => b <= z)
          BY <3>2, <3>5
        <4>. HIDE DEF a, b, y, z
        <4>2. a <= y /\ (pump_pc = "write" => a <= z)
          BY <3>9, <4>1
        <4>. QED
          BY <4>2 DEF y, z
      <3>11. pump_pc # "idle" => G <= est + Lag
        BY <3>2, <3>3, <3>5, <3>8
      <3>12. Reckoned'
        BY <3>4, <3>7
      <3>13. audio_pending' >= 0
        BY <1>2, <3>2 DEF A
      <3>14. WholeBuffers'
        BY <3>3
      <3>. QED
        BY <1>2, <3>10, <3>11, <3>12, <3>13, <3>14 DEF G, L
    <2>. QED
      BY <1>1, <1>2, <1>6, <2>1, <2>2 DEF PumpInv
  <1>7. CASE ~ends
    <2>1. queue' = queue
      BY <1>2, <1>7
    <2>2. frames_in(queue') \in Nat
      BY <1>1, <2>1, QueueCounts
    <2>3. queue # <<>> => phase' = phase + 1
      BY <1>2, <1>7
    <2>4. queue' = <<>> => phase' = 0
      BY <1>2, <2>1
    <2>5. queue # <<>> /\ ~unsure => WholeBuffers'
      BY <1>1, <2>1 DEF OwnFrames, WholeBuffers
    <2>. QED
      BY <1>3, <1>6, <2>1, <2>2, <2>3, <2>4, <2>5
  <1>8. CASE ends
    <2>. DEFINE x == queue[1]  r == Tail(queue)  l == Len(queue)
    <2>1. queue # <<>> /\ phase = DevTicks - 1 /\ phase' = 0
      BY <1>2, <1>8
    <2>2. l \in Nat \ {0} /\ x \in 1..Chunk /\ r \in Seq(1..Chunk) /\ Len(r) = l - 1
          /\ (\A i \in 1..(l - 1) : r[i] = queue[i + 1]) /\ Head(queue) = x
      <3>1. Len(queue) \in Nat /\ queue \in [1..Len(queue) -> 1..Chunk] /\ Len(queue) # 0
        BY <1>3, <2>1, LenProperties, EmptySeq
      <3>2. Head(queue) = queue[1]
        OBVIOUS
      <3>3. r \in Seq(1..Chunk) /\ Len(r) = Len(queue) - 1
            /\ \A i \in 1..(Len(queue) - 1) : r[i] = queue[i + 1]
        BY <1>3, <2>1, HeadTailProperties
      <3>4. 1 \in 1..Len(queue)
        BY <3>1
      <3>. QED
        BY <3>1, <3>2, <3>3, <3>4
    <2>3. frames_in(queue) = x + frames_in(r) /\ frames_in(r) \in Nat /\ frames_in(queue) \in Nat
      <3>1. queue \in Seq(Nat) /\ frames_in(queue) \in Nat
        BY <1>1, QueueCounts
      <3>2. r \in Seq(Nat)
        BY <2>2, PumpSizes
      <3>. QED
        BY <2>1, <3>1, <3>2, FramesFirst, FramesType
    <2>. HIDE DEF x, r, l
    \* The slot is played to its end, or has one frame less.
    <2>4. /\ queue' \in Seq(1..Chunk) /\ Len(queue') <= TxSlots
          /\ frames_in(queue') = frames_in(queue) - 1
          /\ ~unsure /\ queue' # <<>> => WholeBuffers'
      <3>0. ~unsure => /\ frames_in(queue) = x + Behind(l - 1)
                        /\ \A i \in 2..l : queue[i] = SlotAt(l - i)
        BY <1>1, <2>1 DEF OwnFrames, WholeBuffers, x, l
      <3>1. CASE x = 1
        <4>1. queue' = r
          BY <1>2, <1>8, <2>2, <3>1 DEF r
        <4>2. Len(r) <= TxSlots /\ frames_in(r) = frames_in(queue) - 1
          <5>1. Len(r) = Len(queue) - 1 /\ Len(queue) \in Nat
            BY <2>2 DEF l
          <5>2. Len(r) <= TxSlots
            BY <1>3, <5>1, PumpSizes
          <5>3. frames_in(queue) = 1 + frames_in(r)
            BY <2>3, <3>1
          <5>. DEFINE a == frames_in(queue)  b == frames_in(r)
          <5>4. a = 1 + b /\ b \in Nat
            BY <2>3, <5>3
          <5>. HIDE DEF a, b
          <5>5. b = a - 1
            BY <5>4
          <5>. QED
            BY <5>2, <5>5 DEF a, b
        <4>3. ASSUME ~unsure, r # <<>>
              PROVE  frames_in(r) = r[1] + Behind(Len(r) - 1)
                     /\ \A i \in 2..Len(r) : r[i] = SlotAt(Len(r) - i)
          <5>. DEFINE k == l - 2
          <5>1. Len(r) # 0
            BY <2>2, <4>3, EmptySeq
          <5>2. k \in Nat /\ l - 1 = k + 1 /\ Len(r) = k + 1 /\ 1 \in 1..(l - 1) /\ 2 \in 2..l
            BY <2>2, <5>1
          <5>3. r[1] = queue[2] /\ queue[2] = SlotAt(k)
            BY <2>2, <3>0, <4>3, <5>2
          <5>. HIDE DEF k
          <5>4. Behind(k + 1) = Behind(k) + SlotAt(k) /\ Behind(k) \in Nat
            BY <5>2, BehindNext
          <5>5. SlotAt(k) \in 1..Chunk
            BY <5>2, SlotType
          <5>6. frames_in(r) = Behind(k + 1)
            BY <2>3, <3>0, <3>1, <4>3, <5>2, <5>4, <5>5, PumpSizes
          <5>7. frames_in(r) = r[1] + Behind(Len(r) - 1)
            BY <5>2, <5>3, <5>4, <5>5, <5>6, PumpSizes
          <5>8. ASSUME NEW i \in 2..Len(r)
                PROVE  r[i] = SlotAt(Len(r) - i)
            <6>1. i \in 1..(l - 1) /\ i + 1 \in 2..l /\ l - (i + 1) = Len(r) - i
              BY <2>2, <5>8
            <6>. QED
              BY <2>2, <3>0, <4>3, <6>1
          <5>. QED
            BY <5>7, <5>8
        <4>. QED
          BY <2>2, <4>1, <4>2, <4>3 DEF WholeBuffers
      <3>2. CASE x # 1
        <4>. DEFINE t == [queue EXCEPT ![1] = @ - 1]
        <4>1. queue' = t
          BY <1>2, <1>8, <2>2, <3>2
        <4>2. t \in Seq(1..Chunk) /\ Len(t) = l /\ t[1] = x - 1 /\ t # <<>>
              /\ \A i \in 2..l : t[i] = queue[i]
          BY <1>3, <2>2, <3>2, PumpSizes DEF l, x
        <4>. HIDE DEF t
        <4>3. Tail(t) = r
          <5>1. /\ Tail(t) \in Seq(1..Chunk) /\ Len(Tail(t)) = l - 1
                /\ \A i \in 1..(l - 1) : Tail(t)[i] = t[i + 1]
            BY <4>2, HeadTailProperties
          <5>2. \A i \in 1..(l - 1) : i + 1 \in 2..l
            BY <2>2
          <5>. QED
            BY <2>2, <4>2, <5>1, <5>2, SeqEqual
        <4>4. frames_in(t) = (x - 1) + frames_in(r)
          <5>1. t \in Seq(Nat)
            BY <4>2, PumpSizes
          <5>. QED
            BY <4>2, <4>3, <5>1, FramesFirst
        <4>5. frames_in(t) = frames_in(queue) - 1
          BY <2>2, <2>3, <4>4, PumpSizes
        <4>6. ~unsure => frames_in(t) = t[1] + Behind(Len(t) - 1)
                          /\ \A i \in 2..Len(t) : t[i] = SlotAt(Len(t) - i)
          <5>1. l - 1 \in Nat
            BY <2>2
          <5>2. Behind(l - 1) \in Nat
            BY <5>1, BehindNext
          <5>. SUFFICES ASSUME ~unsure
                        PROVE  frames_in(t) = t[1] + Behind(Len(t) - 1)
                               /\ \A i \in 2..Len(t) : t[i] = SlotAt(Len(t) - i)
            OBVIOUS
          <5>3. frames_in(queue) = x + Behind(l - 1) /\ \A i \in 2..l : queue[i] = SlotAt(l - i)
            BY <3>0
          <5>. DEFINE b == Behind(l - 1)  a == frames_in(t)
          <5>4. b \in Nat /\ x \in Nat /\ a = (x + b) - 1
            BY <2>2, <4>5, <5>2, <5>3, PumpSizes
          <5>. HIDE DEF a, b
          <5>5. a = (x - 1) + b
            BY <5>4
          <5>6. frames_in(t) = t[1] + Behind(Len(t) - 1)
            BY <4>2, <5>5 DEF a, b
          <5>7. \A i \in 2..Len(t) : t[i] = SlotAt(Len(t) - i)
            BY <4>2, <5>3
          <5>. QED
            BY <5>6, <5>7
        <4>. QED
          BY <1>3, <4>1, <4>2, <4>5, <4>6 DEF WholeBuffers, l
      <3>. QED
        BY <3>1, <3>2
    <2>5. queue' # <<>> => frames_in(queue') \in Nat
      <3>1. queue' \in Seq(Nat)
        BY <2>4, PumpSizes
      <3>. QED
        BY <3>1, FramesType
    <2>. QED
      BY <1>6, <2>1, <2>4, <2>5
  <1>. QED
    BY <1>7, <1>8

\* SDL_OpenAudio and SDL_CloseAudio forget what there is, and so does their program.
LEMMA ForgetKeeps ==
    ASSUME PumpInv, pump_pc = "idle", audio_pending' = 0, since' \in 0..MaxSince,
           unsure' = (queue # <<>>), opened' \in BOOLEAN, paused' \in BOOLEAN,
           UNCHANGED <<est, pump_pc, has_focus, queue, phase>>
    PROVE  PumpInv'
  <1>1. PumpTypeOK /\ (queue = <<>> => phase = 0)
    BY DEF PumpInv
  <1>2. /\ has_focus' \in BOOLEAN /\ pump_pc' \in {"idle", "loop", "play", "write"}
        /\ unsure' \in BOOLEAN
    BY <1>1, Zenon DEF PumpTypeOK
  <1>3. audio_pending' \in Ints /\ est' \in Ints /\ phase' \in 0..(DevTicks - 1)
        /\ queue' \in Seq(1..Chunk) /\ Len(queue') <= TxSlots
    BY <1>1, PumpSizes, LagIs DEF PumpTypeOK, Ints
  <1>4. PumpTypeOK'
    BY <1>2, <1>3 DEF PumpTypeOK
  <1>5. OwnFrames'
    BY DEF OwnFrames
  <1>. QED
    BY <1>1, <1>4, <1>5 DEF PumpInv

LEMMA PumpInvStep == PumpInv /\ [PumpNext]_pumpVars => PumpInv'
  <1>. SUFFICES ASSUME PumpInv, [PumpNext]_pumpVars PROVE PumpInv'
    OBVIOUS
  <1>1. /\ PumpTypeOK /\ (queue = <<>> => phase = 0) /\ OwnFrames
        /\ (pump_pc \in {"play", "write"} => est < 2 * Size)
    BY DEF PumpInv
  <1>2. CASE SDL_UpdateAudio
    <2>1. opened' \in BOOLEAN /\ paused' \in BOOLEAN
      BY <1>1, <1>2, Zenon DEF SDL_UpdateAudio, PumpTypeOK
    <2>. QED
      BY <1>2, <2>1, LookKeeps DEF SDL_UpdateAudio, starts_update
  <1>3. CASE callback
    <2>1. OwnFrames'
      BY <1>3, OwnUnchanged DEF callback
    <2>2. PumpTypeOK'
      BY <1>1, <1>3 DEF callback, PumpTypeOK
    <2>. QED
      BY <1>1, <1>3, <2>1, <2>2 DEF callback, loop_wants, PumpInv
  <1>4. CASE loop_ends
    <2>1. OwnFrames'
      BY <1>4, OwnUnchanged DEF loop_ends
    <2>2. PumpTypeOK'
      BY <1>1, <1>4, PumpSizes, LagIs DEF loop_ends, PumpTypeOK, Ints
    <2>. QED
      BY <1>1, <1>4, <2>1, <2>2 DEF loop_ends, PumpInv
  <1>5. CASE NDL_PlayAudio
    <2>1. opened' \in BOOLEAN /\ paused' \in BOOLEAN
      BY <1>1, <1>5, Zenon DEF NDL_PlayAudio, PumpTypeOK
    <2>. QED
      BY <1>5, <2>1, LookKeeps DEF NDL_PlayAudio
  <1>6. CASE play_write
    BY <1>6, WriteKeeps
  <1>7. CASE SDL_OpenAudio
    <2>1. since' \in 0..MaxSince
      BY <1>7, PumpSizes DEF SDL_OpenAudio
    <2>2. opened' \in BOOLEAN /\ paused' \in BOOLEAN
      BY <1>7, Zenon DEF SDL_OpenAudio
    <2>. QED
      BY <1>7, <2>1, <2>2, ForgetKeeps DEF SDL_OpenAudio
  <1>8. CASE SDL_CloseAudio
    <2>1. since' \in 0..MaxSince
      BY <1>1, <1>8 DEF SDL_CloseAudio, PumpTypeOK
    <2>2. opened' \in BOOLEAN /\ paused' \in BOOLEAN
      BY <1>8, Zenon DEF SDL_CloseAudio
    <2>. QED
      BY <1>8, <2>1, <2>2, ForgetKeeps DEF SDL_CloseAudio
  <1>9. ASSUME NEW pause_on \in BOOLEAN, SDL_PauseAudio(pause_on)
        PROVE  PumpInv'
    <2>1. opened' \in BOOLEAN /\ paused' \in BOOLEAN
      BY <1>1, <1>9, Zenon DEF SDL_PauseAudio, PumpTypeOK
    <2>2. CASE ~pause_on /\ opened
      BY <1>9, <2>1, <2>2, LookKeeps DEF SDL_PauseAudio, starts_update
    <2>3. CASE ~(~pause_on /\ opened)
      <3>1. UNCHANGED <<opened, audio_pending, est, since, pump_pc, has_focus, queue, phase,
                        unsure>>
        BY <1>9, <2>3 DEF SDL_PauseAudio
      <3>2. OwnFrames'
        BY <3>1, OwnUnchanged
      <3>3. PumpTypeOK'
        BY <1>1, <2>1, <3>1 DEF PumpTypeOK
      <3>. QED
        BY <1>1, <3>1, <3>2, <3>3 DEF PumpInv
    <2>. QED
      BY <2>2, <2>3
  <1>10. CASE tick
    BY <1>10, TickKeeps
  <1>11. CASE focus_moves
    <2>1. UNCHANGED <<opened, paused, audio_pending, est, since, pump_pc, queue, phase,
                      unsure>> /\ has_focus' = ~has_focus
      BY <1>11 DEF focus_moves, lib
    <2>2. OwnFrames'
      BY <2>1, OwnUnchanged
    <2>3. PumpTypeOK'
      BY <1>1, <2>1 DEF PumpTypeOK
    <2>. QED
      BY <1>1, <2>1, <2>2, <2>3 DEF PumpInv
  <1>12. CASE other_plays
    <2>1. /\ UNCHANGED <<opened, paused, audio_pending, est, since, pump_pc, has_focus, phase>>
          /\ queue' = Append(queue, Chunk) /\ unsure' = TRUE /\ Len(queue) < TxSlots
      BY <1>12 DEF other_plays, lib
    <2>2. queue \in Seq(1..Chunk) /\ Chunk \in 1..Chunk
      BY <1>1, PumpSizes DEF PumpTypeOK
    <2>3. queue' \in Seq(1..Chunk) /\ Len(queue') <= TxSlots /\ queue' # <<>>
      BY <2>1, <2>2, PumpSizes
    <2>4. PumpTypeOK'
      BY <1>1, <2>1, <2>3 DEF PumpTypeOK
    <2>5. OwnFrames'
      BY <2>1 DEF OwnFrames
    <2>. QED
      BY <1>1, <2>1, <2>3, <2>4, <2>5 DEF PumpInv
  <1>13. CASE UNCHANGED pumpVars
    <2>1. UNCHANGED <<opened, paused, audio_pending, est, pump_pc, since, has_focus, queue,
                      phase, unsure>>
      BY <1>13 DEF pumpVars, lib
    <2>2. OwnFrames'
      BY <2>1, OwnUnchanged
    <2>3. PumpTypeOK'
      BY <1>1, <2>1 DEF PumpTypeOK
    <2>. QED
      BY <1>1, <2>1, <2>2, <2>3 DEF PumpInv
  <1>. QED
    BY <1>2, <1>3, <1>4, <1>5, <1>6, <1>7, <1>8, <1>9, <1>10, <1>11, <1>12, <1>13
       DEF PumpNext, Steps

\* For any sizes of buffer, slot and queue, any rate not above the device's and any time
\* between a look and its write up to MaxGap: however often NDL looks, its reckoning is
\* not ahead of the device by more than the frames that one such time costs, no look
\* comes too late for an int, and SDL_UpdateAudio never has a buffer filled that is
\* then cut for want of slots; unless frames began after a longer time, the queue has
\* frames of others, or an int had overflowed before them (NDL_PlayAudio, sys_write).
THEOREM PumpAlwaysSafe == PumpSpec => []PumpSafe
  <1>1. PumpInv => PumpSafe
    BY Covers, NothingIsCut DEF PumpInv, PumpSafe
  <1>. QED
    BY <1>1, PumpInvInit, PumpInvStep, PTL DEF PumpSpec
=============================================================================

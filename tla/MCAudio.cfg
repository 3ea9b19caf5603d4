\* Control: four descriptors and indices that wrap after eight requests, twice round
\* the rings.  Transmit: two slots of two frames and seven descriptors, more than
\* three for each slot as in the driver; writes of three frames do not fit into a
\* buffer.  Library: buffers of two slots and the fewest slots that hold
\* three of them, at the device's own rate, so that the reckoning has nothing to
\* spare but the lag of one frame that a write may cause; the least bounds on time
\* and on an int.
SPECIFICATION AudioSpec
CONSTANTS
    Request = {r1, r2, r3}
    NoAnswer = NoAnswer
    NumDesc = 4
    ChainLen = 3
    IdxMod = 8
    Frame = {f, g}
    Slots = 2
    TxDesc = 7
    BufFrames = 2
    MaxWrite = 3
    Size = 2
    Chunk = 1
    TxSlots = 6
    LibTicks = 2
    DevTicks = 2
    MaxGap = 2
    MaxSince = 15
    IntMax = 8
INVARIANTS
    OwnAnswers
    SlotsConsistent
    PumpSafe
PROPERTIES
    ImplementsSoundStream
    AudioGoesOn

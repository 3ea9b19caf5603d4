\* Driver: three usable slots, two buffers, the desktop and an application; the
\* array fills up with what one reader leaves, and events are taken out of its
\* middle.  Libraries: a kernel array of one event, a ring of two, two reads a
\* turn; each of them fills up while the others have room.
SPECIFICATION InputSpec
CONSTANTS
    Event = {"k", "p", "s", "o"}
    ClassOf <- MCClassOf
    Cap = 4
    NumDesc = 2
    Procs = {1, 2}
    Key = {a, u}
    Mapped = {a}
    None = none
    QueueCap = 1
    KEY_QUEUE_LEN = 3
    PumpMax = 2
INVARIANTS
    BuffersConsistent
    KeysTrue
PROPERTIES
    ImplementsEventQueues
    InputGoesOn
    ReleaseArrives

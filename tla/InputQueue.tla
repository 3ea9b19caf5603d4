----------------------------- MODULE InputQueue -----------------------------
(***************************************************************************)
(* Input: the event buffers of a VirtIO input device and the interrupt that*)
(* announces them, the kernel's one array of events (kernel/device/        *)
(* virtio_input.c), and the device files "events" and "input" with the     *)
(* focus (kernel/device/device.c).  The device works while the kernel      *)
(* runs, so a turn of the polling loop and the acknowledgement of the      *)
(* interrupt are steps of their own; everything else in the kernel is not  *)
(* interrupted.  Process 1 is the desktop.                                 *)
(***************************************************************************)
EXTENDS Integers, Sequences, FiniteSetsExt

CONSTANTS
    Event,      \* the events
    ClassOf,    \* [Event -> {"key", "pointer", "sync", "other"}]
    Cap,        \* slots of g_in.q
    NumDesc,    \* INPUT_NUM_DESC
    Procs       \* pids; 1 is the desktop

ASSUME InputAssumption ==
    /\ ClassOf \in [Event -> {"key", "pointer", "sync", "other"}]
    /\ Cap \in Nat \ {0, 1}
    /\ NumDesc \in Nat \ {0}
    /\ 1 \in Procs /\ Procs \subseteq Nat \ {0}

VARIABLES
    q,            \* the events from q_head up to q_tail
    posted,       \* buffers the device may fill
    used,         \* events in buffers the device has given back, oldest first
    irq,          \* the interrupt status of the device
    poll,         \* where virtio_input_poll is
    live,         \* processes that are neither empty nor zombies
    focus,        \* input_focus_pid
    unseen        \* an event came after the last look at the used ring and before
                  \* the acknowledgement (to state a property; not in the code)

device == <<posted, used, irq, poll, unseen>>
vars == <<q, posted, used, irq, poll, live, focus, unseen>>

Desktop == 1

\* Slots the array fills: one is kept free.
Usable == Cap - 1

\* One type invariant for the module: every buffer of the device is either posted
\* or used, and the array is never filled to its last slot.
TypeOK ==
    /\ q \in Seq(Event) /\ Len(q) <= Usable
    /\ posted \in 0..NumDesc
    /\ used \in Seq(Event) /\ Len(used) + posted = NumDesc
    /\ irq \in BOOLEAN /\ unseen \in BOOLEAN
    /\ poll \in {"idle", "drain", "ack"}
    /\ live \subseteq Procs /\ Desktop \in live
    /\ focus \in Procs

\* virtio_input_init posts every buffer.
Init ==
    /\ q = <<>>
    /\ posted = NumDesc /\ used = <<>> /\ irq = FALSE /\ poll = "idle"
    /\ live = {Desktop} /\ focus = Desktop
    /\ unseen = FALSE

-----------------------------------------------------------------------------
(* The device and the driver.                                              *)

\* The device fills the oldest posted buffer and raises its interrupt.
device_event(e) ==
    /\ posted > 0
    /\ posted' = posted - 1
    /\ used' = Append(used, e)
    /\ irq' = TRUE
    /\ unseen' = (unseen \/ poll = "ack")
    /\ UNCHANGED <<q, poll, live, focus>>

virtio_input_handle_irq ==
    /\ irq /\ poll = "idle"
    /\ poll' = "drain"
    /\ unseen' = FALSE
    /\ UNCHANGED <<q, posted, used, irq, live, focus>>

\* An event that finds the array full is lost.
enqueue_event(e) == q' = IF Len(q) = Usable THEN q ELSE Append(q, e)

\* Mutated form of input_poll_one: one buffer is taken for each interrupt.
input_poll_one_once ==
    /\ poll = "drain"
    /\ IF used = <<>>
       THEN poll' = "ack" /\ UNCHANGED <<q, used, posted>>
       ELSE /\ enqueue_event(Head(used))
            /\ used' = Tail(used) /\ posted' = posted + 1
            /\ poll' = "ack"
    /\ UNCHANGED <<irq, live, focus, unseen>>

\* A turn of the loop: the oldest used buffer is copied and posted again.
input_poll_one ==
    /\ poll = "drain"
    /\ IF used = <<>>
       THEN poll' = "ack" /\ UNCHANGED <<q, used, posted>>
       ELSE /\ enqueue_event(Head(used))
            /\ used' = Tail(used) /\ posted' = posted + 1
            /\ UNCHANGED poll
    /\ UNCHANGED <<irq, live, focus, unseen>>

\* virtio_ack_interrupt, and the end of the interrupt.
virtio_ack_interrupt ==
    /\ poll = "ack"
    /\ irq' = FALSE /\ poll' = "idle"
    /\ UNCHANGED <<q, posted, used, live, focus, unseen>>

-----------------------------------------------------------------------------
(* The device files.                                                       *)

pid_can_receive_input(pid) == pid \in live

\* input_focus_current also writes what it returns back.
input_focus_current == IF pid_can_receive_input(focus) THEN focus ELSE Desktop

\* Mutated form of takes: frame marks are left for the process with the focus.
takes_leaves_sync(pid, foc, e) ==
    \/ ClassOf[e] = "key" /\ pid = foc
    \/ ClassOf[e] = "pointer" /\ pid = Desktop

\* The filter of virtio_input_get_event_filtered, as read_events_device sets it
\* for process pid when foc has the focus.
takes(pid, foc, e) ==
    \/ ClassOf[e] = "key" /\ pid = foc
    \/ ClassOf[e] \in {"pointer", "sync"} /\ pid = Desktop

\* The events of s that are in kept, in their order.
Only(s, kept) ==
    LET only[i \in 0..Len(s)] ==
            IF i = 0 THEN <<>>
            ELSE IF s[i] \in kept THEN Append(only[i - 1], s[i]) ELSE only[i - 1]
    IN  only[Len(s)]

\* Mutated form of read_until: what stays behind is taken out of its order.
read_until_reorders(s, cut, pid, foc) ==
    SubSeq(s, cut + 1, Len(s)) \o Only(SubSeq(s, 1, cut), {e \in Event : ~takes(pid, foc, e)})

\* remove_event_at for every event of the first cut places that fits process pid:
\* those that stay move up.
read_until(s, cut, pid, foc) ==
    Only(SubSeq(s, 1, cut), {e \in Event : ~takes(pid, foc, e)}) \o SubSeq(s, cut + 1, Len(s))

\* A read of "events".  The loop takes the first event that fits; frame marks are
\* skipped, so it ends at the first event that fits and is none, or after all.
read_events_device(pid) ==
    /\ pid \in live /\ poll = "idle"
    /\ LET foc == input_focus_current
           hits == {i \in DOMAIN q : takes(pid, foc, q[i]) /\ ClassOf[q[i]] # "sync"}
           cut == IF hits = {} THEN Len(q) ELSE Min(hits)
       IN  /\ q' = read_until(q, cut, pid, foc)
           /\ focus' = foc
    /\ UNCHANGED <<device, live>>

\* Any other look at the focus, as for a write to "audio", also puts it right.
current_has_input_focus ==
    /\ poll = "idle"
    /\ focus' = input_focus_current
    /\ UNCHANGED <<q, device, live>>

\* The desktop writes a pid to "input".
input_focus_set(pid) ==
    /\ poll = "idle"
    /\ focus' = IF pid_can_receive_input(pid) THEN pid ELSE Desktop
    /\ UNCHANGED <<q, device, live>>

\* A process is made in a slot, or ends; the desktop is never killed.
proc_starts(pid) ==
    /\ pid \notin live /\ poll = "idle"
    /\ live' = live \cup {pid}
    /\ UNCHANGED <<q, device, focus>>

proc_ends(pid) ==
    /\ pid \in live \ {Desktop} /\ poll = "idle"
    /\ live' = live \ {pid}
    /\ UNCHANGED <<q, device, focus>>

Next ==
    \/ \E e \in Event : device_event(e)
    \/ virtio_input_handle_irq
    \/ input_poll_one
    \/ virtio_ack_interrupt
    \/ \E pid \in Procs : read_events_device(pid)
    \/ current_has_input_focus
    \/ \E pid \in Procs : input_focus_set(pid)
    \/ \E pid \in Procs : proc_starts(pid)
    \/ \E pid \in Procs : proc_ends(pid)

Spec == Init /\ [][Next]_vars

\* The interrupt is taken and its handler runs to the end: a person does not make
\* events faster than the loop copies them.  Every live process reads: the
\* scheduler gives each its turns, and between two changes of the focus, which
\* follow what the user does, there are turns for all.
Fairness ==
    /\ WF_vars(virtio_input_handle_irq \/ input_poll_one \/ virtio_ack_interrupt)
    /\ []<>(poll = "idle")
    /\ \A pid \in Procs : SF_vars(read_events_device(pid))

FairSpec == Spec /\ Fairness

-----------------------------------------------------------------------------
(* Properties.                                                             *)

OfClass(classes) == Only(q, {e \in Event : ClassOf[e] \in classes})

Queues ==
    INSTANCE EventQueues WITH
        Capacity <- Usable, arriving <- used, keys <- OfClass({"key"}),
        pointers <- OfClass({"pointer", "sync"}), others <- OfClass({"other"})

\* One array serves two kinds of readers as a queue for each would: taking events
\* out of its middle neither reorders, loses nor repeats what stays for the other
\* reader, and what arrives is dropped only when the array is full.
ImplementsEventQueues == Queues!Spec

\* Events lie in used buffers without an interrupt to come only when they came
\* between the last look at the used ring and the acknowledgement: the driver
\* acknowledges after its loop, and nothing but the interrupt polls.
SilentOnlyAfterAck == used # <<>> /\ ~irq /\ poll = "idle" => unseen

\* A full array has room again: no reader is kept from its events by the other's,
\* as long as the process with the focus reads, unless the array has filled up
\* with events that no filter takes and that stay for ever.
RoomReturns ==
    Len(q) = Usable /\ (\E i \in DOMAIN q : ClassOf[q[i]] # "other") ~> Len(q) < Usable

\* Keys do not wait for a process that has ended: the next read of any process
\* gives the focus back to the desktop.
DeadFocusFallsBack == focus \notin live ~> focus \in live

\* Every buffer is with the device or the driver, and events wait unannounced only
\* through the race with the acknowledgement (input_poll_one, virtio_ack_interrupt).
BuffersConsistent ==
    /\ TypeOK
    /\ SilentOnlyAfterAck

\* Neither a full array nor a dead process in focus stops the keyboard for ever
\* (virtio_input_read, input_focus_current).
InputGoesOn ==
    /\ RoomReturns
    /\ DeadFocusFallsBack
=============================================================================

-------------------------------- MODULE Keys --------------------------------
(***************************************************************************)
(* From the keyboard to what a program thinks is held down.  The kernel's  *)
(* side is what InputQueue is shown to implement, EventQueues: one queue   *)
(* of keys for everybody, handed to whoever has the focus when it reads.   *)
(* On top of it are two libraries: miniSDL, which keeps key_state          *)
(* (usr/libs/libminiSDL/src/event.c), and libam, which moves events into a *)
(* ring of its own (usr/libs/libam/src/am.c) from which the program takes  *)
(* one at a time.  A program of one kind or the other competes with the    *)
(* desktop, which stands for all other programs too.                       *)
(***************************************************************************)
EXTENDS Integers, Sequences, SequencesExt

CONSTANTS
    Key,            \* keys of the keyboard
    Mapped,         \* those linux_code_to_sdl and linux_keycode_to_am know
    None,           \* SDLK_NONE: what miniSDL makes of the others
    QueueCap,       \* events the kernel's array holds
    KEY_QUEUE_LEN,  \* slots of libam's ring
    PumpMax         \* reads of one pump_input_events

ASSUME KeysAssumption ==
    /\ Mapped \subseteq Key /\ None \notin Key
    /\ QueueCap \in Nat \ {0} /\ PumpMax \in Nat \ {0}
    /\ KEY_QUEUE_LEN \in Nat \ {0, 1}

VARIABLES
    down,       \* keys a finger is on
    arriving, keys, pointers, others,   \* the kernel's queues
    prog,       \* the library of the program, "sdl" or "am"
    key_focus,  \* whose read gets keys: prog or "desktop"
    key_state,  \* miniSDL: syms it takes for pressed
    g_key_queue, g_key_head, g_key_tail,    \* libam's ring
    pump,       \* reads left in pump_input_events; -1 outside
    view,       \* keys the program on libam takes for pressed
    dropped,    \* known keys whose last event found the array full
    missed      \* those whose last event the program did not get
                \* (both to state properties; not in the code)

kernel == <<arriving, keys, pointers, others>>
ring == <<g_key_queue, g_key_head, g_key_tail>>
heard == <<dropped, missed>>
keysVars == <<prog, down, kernel, key_focus, key_state, ring, pump, view, heard>>

KeyEvent == {"kd", "ku"} \X Key
Move == <<"ma">>

Kernel == INSTANCE EventQueues WITH
    Event <- KeyEvent \cup {Move},
    ClassOf <- [e \in KeyEvent \cup {Move} |-> IF e = Move THEN "pointer" ELSE "key"],
    Capacity <- QueueCap

KeysOf(s) == {e[2] : e \in ToSet(s) \ {Move}} \cap Mapped

Apply(held, e) == IF e[1] = "kd" THEN held \cup {e[2]} ELSE held \ {e[2]}

linux_code_to_sdl(k) == IF k \in Mapped THEN k ELSE None

linux_keycode_to_am(k) == IF k \in Mapped THEN k ELSE None

RingIdx == 0..(KEY_QUEUE_LEN - 1)

KeysInit ==
    /\ prog \in {"sdl", "am"}
    /\ down = {} /\ Kernel!Init /\ key_focus = "desktop"
    /\ key_state = {} /\ view = {} /\ pump = -1
    /\ g_key_queue = [i \in RingIdx |-> None] /\ g_key_head = 0 /\ g_key_tail = 0
    /\ dropped = {} /\ missed = {}

-----------------------------------------------------------------------------
(* The keyboard and the kernel.  The driver looks at once.                 *)

\* A key goes down, or repeats.
key_press(k) ==
    /\ arriving = <<>>
    /\ arriving' = <<<<"kd", k>>>> /\ down' = down \cup {k}
    /\ UNCHANGED <<prog, keys, pointers, others, key_focus, key_state, ring, pump, view, heard>>

key_release(k) ==
    /\ arriving = <<>> /\ k \in down
    /\ arriving' = <<<<"ku", k>>>> /\ down' = down \ {k}
    /\ UNCHANGED <<prog, keys, pointers, others, key_focus, key_state, ring, pump, view, heard>>

pointer_moves ==
    /\ arriving = <<>>
    /\ arriving' = <<Move>>
    /\ UNCHANGED <<prog, keys, pointers, others, down, key_focus, key_state, ring, pump, view, heard>>

enqueue_key ==
    /\ Kernel!Accept
    /\ dropped' = dropped \ KeysOf(arriving)
    /\ UNCHANGED <<prog, down, key_focus, key_state, ring, pump, view, missed>>

\* A full array drops the event: a key nobody hears of.
enqueue_full ==
    /\ Kernel!Drop
    /\ dropped' = dropped \cup KeysOf(arriving)
    /\ UNCHANGED <<prog, down, key_focus, key_state, ring, pump, view, missed>>

\* What a read of the key at the head does to who misses what.
ReadBy(p) ==
    IF p = prog THEN missed \ KeysOf(<<Head(keys)>>) ELSE missed \cup KeysOf(<<Head(keys)>>)

read_key(p) ==
    /\ key_focus = p /\ keys # <<>>
    /\ Kernel!Read /\ keys' = Tail(keys) /\ UNCHANGED pointers

desktop_reads ==
    /\ \/ read_key("desktop") /\ missed' = ReadBy("desktop")
       \/ /\ pointers # <<>>
          /\ Kernel!Read /\ pointers' = Tail(pointers)
          /\ UNCHANGED <<keys, missed>>
    /\ UNCHANGED <<prog, dropped, down, key_focus, key_state, ring, pump, view>>

focus_moves ==
    /\ \E p \in {prog, "desktop"} \ {key_focus} : key_focus' = p
    /\ UNCHANGED <<prog, down, kernel, key_state, ring, pump, view, heard>>

-----------------------------------------------------------------------------
(* miniSDL.  SDL_WaitEvent is the same read, tried until it succeeds.      *)

parse_event(e) ==
    LET sym == linux_code_to_sdl(e[2])
    IN  IF e[1] = "kd" THEN key_state \cup {sym} ELSE key_state \ {sym}

SDL_PollEvent ==
    /\ read_key("sdl")
    /\ missed' = ReadBy("sdl")
    /\ key_state' = parse_event(Head(keys))
    /\ UNCHANGED <<prog, dropped, down, key_focus, ring, pump, view>>

\* Another SDL program in its place, which has heard of nothing yet.
sdl_starts ==
    /\ prog = "sdl"
    /\ key_state' = {}
    /\ missed' = down \cap Mapped
    /\ UNCHANGED <<prog, dropped, down, kernel, key_focus, ring, pump, view>>

-----------------------------------------------------------------------------
(* libam.                                                                  *)

keyq_empty == g_key_head = g_key_tail

next_tail == (g_key_tail + 1) % KEY_QUEUE_LEN

\* Mutated form of keyq_push: the test for a full ring is one slot off.
keyq_push_Early(e) ==
    IF (next_tail + 1) % KEY_QUEUE_LEN = g_key_head THEN UNCHANGED ring
    ELSE /\ g_key_queue' = [g_key_queue EXCEPT ![g_key_tail] = e]
         /\ g_key_tail' = next_tail
         /\ UNCHANGED g_key_head

keyq_push(e) ==
    IF next_tail = g_key_head THEN UNCHANGED ring
    ELSE /\ g_key_queue' = [g_key_queue EXCEPT ![g_key_tail] = e]
         /\ g_key_tail' = next_tail
         /\ UNCHANGED g_key_head

\* am_input_keybrd first moves what the device file has into the ring.
am_input_keybrd ==
    /\ prog = "am" /\ pump = -1
    /\ pump' = PumpMax
    /\ UNCHANGED <<prog, down, kernel, key_focus, key_state, ring, view, heard>>

\* A turn of the loop of pump_input_events that gets an event.
pump_input_events ==
    /\ pump > 0 /\ read_key("am")
    /\ pump' = pump - 1
    /\ LET e == Head(keys)
           known == linux_keycode_to_am(e[2]) # None
       IN  /\ IF known THEN keyq_push(e) ELSE UNCHANGED ring
           /\ missed' = IF known /\ next_tail = g_key_head
                        THEN missed \cup {e[2]}
                        ELSE ReadBy("am")
    /\ UNCHANGED <<prog, dropped, down, key_focus, key_state, view>>

\* Mutated form of keyq_pop: only the bound ends the loop.
keyq_pop_Late ==
    /\ pump = 0
    /\ pump' = -1
    /\ IF keyq_empty THEN UNCHANGED <<ring, view>>
       ELSE /\ view' = Apply(view, g_key_queue[g_key_head])
            /\ g_key_head' = (g_key_head + 1) % KEY_QUEUE_LEN
            /\ UNCHANGED <<g_key_queue, g_key_tail>>
    /\ UNCHANGED <<prog, down, kernel, key_focus, key_state, heard>>

\* A read that got nothing, or the bound, ends the loop, and the program gets the
\* oldest event of the ring; it keeps a set of its own (as fceux does).
keyq_pop ==
    /\ pump = 0 \/ (pump > 0 /\ ~(key_focus = "am" /\ keys # <<>>))
    /\ pump' = -1
    /\ IF keyq_empty THEN UNCHANGED <<ring, view>>
       ELSE /\ view' = Apply(view, g_key_queue[g_key_head])
            /\ g_key_head' = (g_key_head + 1) % KEY_QUEUE_LEN
            /\ UNCHANGED <<g_key_queue, g_key_tail>>
    /\ UNCHANGED <<prog, down, kernel, key_focus, key_state, heard>>

KeysNext ==
    \/ \E k \in Key : key_press(k) \/ key_release(k)
    \/ pointer_moves
    \/ enqueue_key
    \/ enqueue_full
    \/ desktop_reads
    \/ focus_moves
    \/ SDL_PollEvent
    \/ sdl_starts
    \/ am_input_keybrd
    \/ pump_input_events
    \/ keyq_pop

KeysSpec == KeysInit /\ [][KeysNext]_keysVars

\* The driver copies what has come, and programs that want keys poll, while they
\* have the focus.
KeysFairness ==
    /\ WF_keysVars(enqueue_key \/ enqueue_full)
    /\ WF_keysVars(SDL_PollEvent)
    /\ WF_keysVars(am_input_keybrd \/ pump_input_events \/ keyq_pop)

KeysFairSpec == KeysSpec /\ KeysFairness

-----------------------------------------------------------------------------
(* Properties.                                                             *)

\* The ring's events, oldest first.
Ring ==
    [i \in 1..((g_key_tail - g_key_head) % KEY_QUEUE_LEN) |->
        g_key_queue[(g_key_head + i - 1) % KEY_QUEUE_LEN]]

KeysTypeOK ==
    /\ down \subseteq Key /\ prog \in {"sdl", "am"} /\ key_focus \in {prog, "desktop"}
    /\ key_state \subseteq Mapped \cup {None} /\ view \subseteq Mapped
    /\ g_key_head \in RingIdx /\ g_key_tail \in RingIdx
    /\ \A i \in 1..Len(Ring) : Ring[i] \in {"kd", "ku"} \X Mapped
    /\ pump \in -1..PumpMax
    /\ dropped \subseteq Mapped /\ missed \subseteq Mapped

\* The keys of which an event is still on its way through the kernel.
OnTheWay == KeysOf(arriving) \cup KeysOf(keys)

\* Keys the program could know all about.
Heard == Mapped \ (OnTheWay \cup dropped \cup missed)

\* miniSDL's key_state is the keyboard's, wherever the focus was in between, but
\* for keys whose last event went to another program or was dropped by a full
\* array (parse_event over read_events_device).
KeyStateTrue == prog = "sdl" => key_state \cap Heard = down \cap Heard

\* The keys one holds down who held those of held and takes the events of s: those
\* with a press behind which they have no event.
HeldAfter(held, s) ==
    {k \in Key : \E i \in 0..Len(s) :
        /\ IF i = 0 THEN k \in held ELSE s[i] = <<"kd", k>>
        /\ \A j \in (i + 1)..Len(s) : s[j][2] # k}

\* So is what a program on libam will hold down once it has taken what is in the
\* ring, whatever was moved into it in which order and where it wrapped; a full
\* ring drops an event as the kernel does (keyq_push, keyq_pop).
ViewTrue ==
    prog = "am" => HeldAfter(view, Ring) \cap Heard = down \cap Heard

\* A key that was let go does not stay pressed for a program that keeps the focus,
\* unless its release was dropped or read by another (SDL_PollEvent, am_input_keybrd).
ReleaseArrives ==
    \A k \in Mapped :
        /\ k \in key_state \ down ~>
               k \notin key_state \/ k \in down \cup dropped \cup missed \/ key_focus # "sdl"
        /\ k \in view \ down ~>
               k \notin view \/ k \in down \cup dropped \cup missed \/ key_focus # "am"

\* What a program takes for pressed is pressed, with either library, but for the ways
\* an event may miss it (key_state of miniSDL, the ring of libam).
KeysTrue ==
    /\ KeysTypeOK
    /\ KeyStateTrue
    /\ ViewTrue
=============================================================================

----------------------------- MODULE AudioPump ------------------------------
(***************************************************************************)
(* How a program keeps the sound card fed: SDL_UpdateAudio of miniSDL      *)
(* (usr/libs/libminiSDL/src/audio.c) asks NDL how much is still to be      *)
(* played, which NDL only reckons from the clock, and calls the program's  *)
(* callback until two buffers are on their way.  Whether the slots of the  *)
(* driver are free is up to the device.  Sizes are in frames, time in      *)
(* ticks of the clock.                                                     *)
(***************************************************************************)
EXTENDS Integers, Sequences, FiniteSetsExt

CONSTANTS
    Size,      \* frames of one buffer of the callback (g_audio_spec.size)
    Chunk,     \* frames of a slot of the driver and of a chunk of sys_write
    TxSlots,   \* SND_TX_SLOTS
    LibTicks,  \* ticks a frame lasts at the rate the program asked for
    DevTicks,  \* ticks a frame lasts in the device
    MaxGap,    \* longest time from a look at the clock to the write behind it that
               \* the properties allow for
    MaxSince,  \* bound on the time that is counted between two looks at the clock
    IntMax     \* 2^31, in frames: an int is below it

\* Slots for one buffer.
SlotsPerBuffer == (Size + Chunk - 1) \div Chunk

\* The frames a write that is late by MaxGap costs, and the buffers that may be in the
\* driver when another one is written.
Lag == (MaxGap + LibTicks - 1) \div LibTicks
BuffersAhead == (2 * Size + Lag - 2) \div Size + 1

\* A program may not ask for a faster rate than the device plays, nor for buffers
\* of which the driver cannot hold one more (without a lag: a third).  All of its own
\* sound is over before time is no longer counted.
ASSUME PumpAssumption ==
    /\ Size \in Nat \ {0} /\ Chunk \in Nat \ {0} /\ TxSlots \in Nat
    /\ DevTicks \in Nat \ {0} /\ LibTicks \in Nat /\ LibTicks >= DevTicks
    /\ MaxGap \in Nat /\ (BuffersAhead + 1) * SlotsPerBuffer <= TxSlots
    /\ MaxSince \in Nat /\ MaxSince > (3 * Size + Lag) * LibTicks
    /\ IntMax \in Nat /\ IntMax * LibTicks >= MaxSince

VARIABLES
    opened, paused,   \* g_audio_opened, g_audio_paused
    audio_pending,    \* NDL: frames it takes to be on their way
    since,            \* time since audio_last_us; MaxSince stands for any longer time
    est,              \* pending of SDL_UpdateAudio
    pump_pc,          \* where SDL_UpdateAudio is: "idle", "loop", "play", "write"
    has_focus,        \* the program has the input focus
    queue,            \* frames left in the slots in use, the one being played first
    phase,            \* time the current frame has been played
    unsure            \* the queue holds frames that the reckoning leaves out or that it
                      \* may be ahead of (not in the code)

lib == <<opened, paused, audio_pending, est, pump_pc>>
pumpVars == <<lib, since, has_focus, queue, phase, unsure>>

Ints == (-IntMax)..(IntMax - 1)

\* One type invariant for the module.
PumpTypeOK ==
    /\ opened \in BOOLEAN /\ paused \in BOOLEAN /\ has_focus \in BOOLEAN
    /\ audio_pending \in Ints /\ est \in Ints
    /\ since \in 0..MaxSince
    /\ pump_pc \in {"idle", "loop", "play", "write"}
    /\ queue \in Seq(1..Chunk) /\ Len(queue) <= TxSlots
    /\ phase \in 0..(DevTicks - 1)
    /\ unsure \in BOOLEAN

\* NDL_Init, and the static data of audio.c.
PumpInit ==
    /\ opened = FALSE /\ paused = TRUE /\ has_focus = TRUE
    /\ audio_pending = 0 /\ since = 0 /\ est = 0
    /\ pump_pc = "idle"
    /\ queue = <<>> /\ phase = 0
    /\ unsure = FALSE

-----------------------------------------------------------------------------
(* NDL: what should still be playing.                                      *)

\* What an int makes of n (signed overflow wraps in the build).
int(n) == ((n + IntMax) % (2 * IntMax)) - IntMax

\* Mutated form of consumed: a frame that has begun counts.
consumed_up(t) == IF t < MaxSince THEN {(t + LibTicks - 1) \div LibTicks} ELSE Ints

\* (int)consumed, t ticks after the last look: whole frames, the rest of a frame is
\* dropped with each look.  Behind MaxSince come all the times whose frames an int
\* does not hold, and any int may be what is left of them.
consumed(t) == IF t < MaxSince THEN {t \div LibTicks} ELSE Ints

\* update_audio_pending, when c frames are consumed.
pending_after(c) == IF c > audio_pending THEN 0 ELSE int(audio_pending - c)

\* A look at the clock.
update_audio_pending ==
    /\ \E c \in consumed(since) : audio_pending' = pending_after(c)
    /\ since' = 0

\* The slots sys_write fills with one buffer, a chunk each, while some are free.
slots_filled ==
    [k \in 1..Min({SlotsPerBuffer, TxSlots - Len(queue)}) |->
        IF k < SlotsPerBuffer THEN Chunk ELSE Size - Chunk * (SlotsPerBuffer - 1)]

\* The frames in the slots of s.
frames_in(s) ==
    LET frames[k \in 0..Len(s)] == IF k = 0 THEN 0 ELSE frames[k - 1] + s[k]
    IN  frames[Len(s)]

\* A program that writes to "audio" without the focus is told all was frames_taken.
frames_taken == IF has_focus THEN frames_in(slots_filled) ELSE Size

-----------------------------------------------------------------------------
(* miniSDL.                                                                *)

\* SDL_UpdateAudio begins: NDL_QueryAudio.
starts_update ==
    /\ update_audio_pending
    /\ est' = audio_pending'
    /\ pump_pc' = "loop"

SDL_UpdateAudio ==
    /\ pump_pc = "idle" /\ opened /\ ~paused
    /\ starts_update
    /\ UNCHANGED <<opened, paused, has_focus, queue, phase, unsure>>

\* Less than two buffers are on their way.
loop_wants == est < 2 * Size

\* The callback fills a buffer, which takes its time.
callback ==
    /\ pump_pc = "loop" /\ loop_wants
    /\ pump_pc' = "play"
    /\ UNCHANGED <<opened, paused, audio_pending, est, since, has_focus, queue, phase, unsure>>

loop_ends ==
    /\ pump_pc = "loop" /\ ~loop_wants
    /\ pump_pc' = "idle" /\ est' = 0
    /\ UNCHANGED <<opened, paused, audio_pending, since, has_focus, queue, phase, unsure>>

\* NDL_PlayAudio looks at the clock; other processes may run before it writes.
NDL_PlayAudio ==
    /\ pump_pc = "play"
    /\ update_audio_pending
    /\ pump_pc' = "write"
    /\ UNCHANGED <<opened, paused, est, has_focus, queue, phase, unsure>>

\* The device has stood still since the look, for longer than the properties allow for.
comes_late == queue = <<>> /\ since > MaxGap

\* An int was too small for the reckoning (never within three hours of the last look).
overflowed == audio_pending < 0 \/ audio_pending' < 0 \/ est < 0

\* The rest of it: the buffer is written; what is not frames_taken of it is gone.  Without
\* any progress the loop of SDL_UpdateAudio is left.
play_write ==
    /\ pump_pc = "write"
    /\ audio_pending' = int(audio_pending + frames_taken)
    /\ queue' = IF has_focus THEN queue \o slots_filled ELSE queue
    /\ unsure' = (queue' # <<>> /\ (unsure \/ comes_late \/ overflowed))
    /\ IF frames_taken = 0 THEN pump_pc' = "idle" /\ est' = 0
                    ELSE pump_pc' = "loop" /\ est' = est + frames_taken
    /\ UNCHANGED <<opened, paused, since, has_focus, phase>>

\* SDL_OpenAudio starts from nothing, whatever the device still has.
SDL_OpenAudio ==
    /\ pump_pc = "idle"
    /\ opened' = TRUE /\ paused' = TRUE
    /\ audio_pending' = 0 /\ since' = 0
    /\ unsure' = (queue # <<>>)
    /\ UNCHANGED <<est, pump_pc, has_focus, queue, phase>>

SDL_CloseAudio ==
    /\ pump_pc = "idle"
    /\ opened' = FALSE /\ paused' = TRUE
    /\ audio_pending' = 0
    /\ unsure' = (queue # <<>>)
    /\ UNCHANGED <<est, pump_pc, since, has_focus, queue, phase>>

\* SDL_PauseAudio; going on updates at once.
SDL_PauseAudio(pause_on) ==
    /\ pump_pc = "idle"
    /\ paused' = pause_on
    /\ IF ~pause_on /\ opened THEN starts_update
                              ELSE UNCHANGED <<audio_pending, est, since, pump_pc>>
    /\ UNCHANGED <<opened, has_focus, queue, phase, unsure>>

-----------------------------------------------------------------------------
(* The rest of the system: time and the device, the focus, other programs. *)

\* The device plays without a pause, and a slot is free when it is played.
tick ==
    /\ since' = Min({since + 1, MaxSince})
    /\ LET ends == queue # <<>> /\ phase = DevTicks - 1
       IN  /\ phase' = IF queue = <<>> \/ ends THEN 0 ELSE phase + 1
           /\ queue' = IF ~ends THEN queue
                       ELSE IF Head(queue) = 1 THEN Tail(queue)
                       ELSE [queue EXCEPT ![1] = @ - 1]
    /\ unsure' = (unsure /\ queue' # <<>>)
    /\ UNCHANGED <<lib, has_focus>>

focus_moves ==
    /\ has_focus' = ~has_focus
    /\ UNCHANGED <<lib, since, queue, phase, unsure>>

\* The program that has the focus plays.
other_plays ==
    /\ ~has_focus /\ Len(queue) < TxSlots
    /\ queue' = Append(queue, Chunk)
    /\ unsure' = TRUE
    /\ UNCHANGED <<lib, since, has_focus, phase>>

Steps == callback \/ loop_ends \/ NDL_PlayAudio \/ play_write

PumpNext ==
    \/ SDL_UpdateAudio
    \/ Steps
    \/ SDL_OpenAudio
    \/ SDL_CloseAudio
    \/ \E p \in BOOLEAN : SDL_PauseAudio(p)
    \/ tick
    \/ focus_moves
    \/ other_plays

PumpSpec == PumpInit /\ [][PumpNext]_pumpVars

\* The sound is looked after in time: not before a frame is played, and before time is
\* no longer counted.
InTime == since >= LibTicks /\ since < MaxSince

\* Time passes, a call returns, and a program that plays sound polls (SDL_Delay,
\* SDL_PollEvent and SDL_WaitEvent all call SDL_UpdateAudio), again and again no
\* sooner than a frame of sound after it last did, as programs that draw between
\* two polls do.  Without that NDL never sees a whole frame played.  In the long run
\* it is not kept from it for hours.
PumpFairSpec ==
    /\ PumpSpec
    /\ WF_pumpVars(tick) /\ WF_pumpVars(Steps)
    /\ []<>(pump_pc = "idle" /\ InTime)
    /\ SF_pumpVars(InTime /\ SDL_UpdateAudio)
    /\ <>[](opened /\ ~paused => since < MaxSince)

-----------------------------------------------------------------------------
(* Properties.                                                             *)

\* NDL's reckoning is never ahead of the device by more than the Lag that one late write
\* costs, however often and whenever update_audio_pending looks at the clock: the delays
\* of several writes between their look and their write do not add up.  Left out are
\* frames that began later than MaxGap behind the look, frames of others, and an int
\* that has overflowed.
EstimateCovers ==
    queue # <<>> /\ ~unsure =>
        \A c \in consumed(since) : frames_in(queue) <= pending_after(c) + Lag

\* No buffer that the callback of SDL_UpdateAudio has filled is cut for want of
\* slots, with the same exceptions.
NothingCut == pump_pc = "write" /\ ~unsure => frames_taken = Size

\* A program that is not paused is asked for more sound again and again, also after
\* hours without a look, for which (int)consumed made the reckoning too large.
SoundGoesOn == opened /\ ~paused ~> pump_pc = "play" \/ paused \/ ~opened

\* What the library reckons as pending covers what is pending but for the lag of one
\* write, so no buffer is asked for that the driver would cut (NDL_QueryAudio,
\* NDL_PlayAudio, SDL_UpdateAudio).
PumpSafe ==
    /\ PumpTypeOK
    /\ EstimateCovers
    /\ NothingCut
=============================================================================

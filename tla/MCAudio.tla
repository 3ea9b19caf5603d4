------------------------------ MODULE MCAudio -------------------------------
(* Sound for TLC: the requests on the control queue of the card, its       *)
(* transmit queue, and the library that keeps it fed.  Control requests    *)
(* are over before the first frame, and the library only knows the clock:  *)
(* the three share no variable, and TLC takes one of them at a time.       *)
EXTENDS Virtqueue, SoundTx, AudioPump

VARIABLE part

audioVars == <<part, queueVars, vars, pumpVars>>

AudioInit ==
    /\ part \in {"control", "transmit", "library"}
    /\ QueueInit /\ Init /\ PumpInit

AudioNext ==
    \/ part = "control" /\ QueueNext /\ UNCHANGED <<part, vars, pumpVars>>
    \/ part = "transmit" /\ Next /\ UNCHANGED <<part, queueVars, pumpVars>>
    \/ part = "library" /\ PumpNext /\ UNCHANGED <<part, queueVars, vars>>

\* The fairness of the three modules for the one that runs.  Where a part begins
\* the actions without the conjunct about part are disabled.
AudioSpec ==
    /\ AudioInit /\ [][AudioNext]_audioVars
    /\ QueueFairness
    /\ WF_vars(part = "transmit" /\ \E s \in Writes \ {<<>>} : audio_write(s))
    /\ WF_vars(virtio_sound_poll) /\ WF_vars(device_take) /\ WF_vars(device_play)
    /\ \A h \in Desc : WF_vars(device_done(h))
    /\ WF_pumpVars(part = "library" /\ tick) /\ WF_pumpVars(Steps)
    /\ []<>(part = "library" => pump_pc = "idle" /\ InTime)
    /\ SF_pumpVars(InTime /\ SDL_UpdateAudio)
    /\ <>[](opened /\ ~paused => since < MaxSince)

\* Requests are answered, a full queue takes writes again, and the program is asked
\* for more (virtio_submit_and_poll, virtio_sound_write, SDL_UpdateAudio).
AudioGoesOn ==
    /\ RequestReturns
    /\ FullIsTemporary
    /\ SoundGoesOn
=============================================================================

----------------------------- MODULE SoundStream ----------------------------
(***************************************************************************)
(* What the sound device file promises: the frames it says it took are     *)
(* played once, in the order of the writes and one write at a time; a      *)
(* write may take fewer frames than it was given, and a write of a process *)
(* without the focus is reported as taken and never heard.                 *)
(***************************************************************************)
EXTENDS Integers, Sequences

CONSTANTS
    Frame,      \* what is heard
    MaxWrite    \* frames of the longest write

VARIABLES
    stream,     \* what each write brought that is not played yet, oldest first
    focused,    \* the writer has the input focus
    ret         \* what the last write returned, in frames

vars == <<stream, focused, ret>>

Writes == UNION {[1..n -> Frame] : n \in 0..MaxWrite}

Init == stream = <<>> /\ focused \in BOOLEAN /\ ret = -1

Focus == focused' \in BOOLEAN /\ UNCHANGED <<stream, ret>>

Refuse == focused /\ ret' = -1 /\ UNCHANGED <<stream, focused>>

Write(s) ==
    /\ focused
    /\ ret' \in 0..Len(s)
    /\ stream' = IF ret' = 0 THEN stream ELSE Append(stream, SubSeq(s, 1, ret'))
    /\ UNCHANGED focused

Mute(s) ==
    /\ ~focused
    /\ ret' = Len(s)
    /\ UNCHANGED <<stream, focused>>

\* The device plays what one write brought.
Play ==
    /\ stream # <<>> /\ stream' = Tail(stream)
    /\ UNCHANGED <<focused, ret>>

Next ==
    \/ Focus
    \/ Refuse
    \/ \E s \in Writes : Write(s) \/ Mute(s)
    \/ Play

Spec == Init /\ [][Next]_vars
=============================================================================

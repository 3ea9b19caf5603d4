------------------------------- MODULE MCProc -------------------------------
(* A small instance of Proc: four slots, two children each.                *)
EXTENDS Proc

MCExitCodes == {42}
MCSignals == {9}
MCSleepSeconds == {0, 1}
=============================================================================

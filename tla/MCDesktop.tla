----------------------------- MODULE MCDesktop ------------------------------
(* Instances of Desktop for TLC: the numbers are in the cfg files.         *)
EXTENDS Desktop
=============================================================================

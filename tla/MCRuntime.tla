----------------------------- MODULE MCRuntime -----------------------------
(* Instance of Runtime for TLC: two senders for the safety run, one for the *)
(* temporal ones. *)
EXTENDS Runtime, TLC

CONSTANTS s1, s2

MCSenders == {s1, s2}
OneSender == {s1}
SendersSymmetry == Permutations(MCSenders)
=============================================================================

------------------------ MODULE MCSessionLifecycle ------------------------
(* Instance of SessionLifecycle for TLC: two goroutines that call Close. *)
EXTENDS SessionLifecycle

CONSTANTS c1, c2

MCClosers == {c1, c2}
=============================================================================

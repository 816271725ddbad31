---------------------------- MODULE MCPeerLinks ----------------------------
(* Two configurations. Both nodes dial each other in loops: the dials cross   *)
(* in every order, round after round. Or Higher dials from its configuration, *)
(* Lower once on a HELLO and a connection is lost or falls silent: then only  *)
(* the loop at Higher, whose links lose every tiebreak, can restore it.       *)
EXTENDS PeerLinks, TLC
CONSTANTS loop, hello
MCOwner == loop :> Higher @@ hello :> Lower
MCSetups == {[oneShot |-> {}, faults |-> 0], [oneShot |-> {hello}, faults |-> 1]}
=============================================================================

------------------------------- MODULE Link -------------------------------
(***************************************************************************)
(* A link from its handshake to its data: the initiator's Runtime makes    *)
(* its Batcher, and the responder's its Reassembler, from what each side's *)
(* handshake returned (Session.Run, internal/session/run.go:203-214).      *)
(***************************************************************************)
EXTENDS Handshake, Frames

vars == <<hsVars, frameVars>>

Init == HsInit /\ FramesInit

\* Session.Run on both sides of a stream link.
StartRuntimes ==
    /\ Finished("i") /\ Finished("r") /\ par.batch = 0
    /\ FramesStart([batch |-> hs["i"].batch, mod |-> Modulus(hs["i"].res),
                    seed |-> hs["i"].mySN, qos |-> hs["i"].qos, stream |-> TRUE])
    /\ UNCHANGED hsVars

\* StartMulticastPeer: datagrams, no handshake, QoS always attached.
StartGroup ==
    /\ hpc["i"] = "start" /\ foreign = {} /\ cfg["i"] = cfg["r"]
    /\ FramesStart([batch |-> cfg["i"].batch, mod |-> Modulus(cfg["i"].res),
                    seed |-> 0, qos |-> TRUE, stream |-> FALSE])
    /\ hpc' = [s \in Sides |-> "group"]
    /\ UNCHANGED <<cfg, foreign, hs, chan>>

Next ==
    \/ HsNext /\ UNCHANGED frameVars
    \/ StartRuntimes \/ StartGroup
    \/ FramesNext /\ UNCHANGED hsVars

Spec == Init /\ [][Next]_vars

\* Every batch on the link is one that both sides agreed to: not above the
\* smaller of the two batch sizes, a FRAME of several messages and the last of a
\* chain of FRAGMENTs included, and its SN within the resolution the receiver
\* offered (internal/session/handshake.go:111-115, internal/transport/batcher.go:33-37).
FitsReceiver ==
    \A i \in DOMAIN net : /\ BatchSize(net[i]) <= LeastOf(cfg["i"].batch, cfg["r"].batch)
                          /\ net[i].sn < Modulus(cfg["r"].res)
=============================================================================

-------------------------- MODULE RuntimeContract --------------------------
(***************************************************************************)
(* What a Runtime (internal/session/run.go) promises to the layer above,   *)
(* whatever its goroutines do inside: an outbound channel that accepts     *)
(* items, each of a lane (its priority and reliability) or raw; puts the   *)
(* items of a lane on the wire in the order it accepted them, and raw ones *)
(* in order with all others; may lose a tail of each lane; and is quiet    *)
(* for good once Done() has fired.                                         *)
(*                                                                         *)
(* The n-th accepted item is named n.                                      *)
(***************************************************************************)
EXTENDS Naturals, Sequences

CONSTANTS
    AnyLane,    \* the lanes, with the one of the raw items
    Raw

VARIABLES
    phase,      \* "up", "stopping" or "done"
    accepted,   \* the lanes of the items OutQ has accepted
    delivered   \* the items on the wire, in order

contractVars == <<phase, accepted, delivered>>

ContractInit == phase = "up" /\ accepted = <<>> /\ delivered = <<>>

\* OutQ is never closed, so it accepts items even after the Runtime is done.
Accept(l) ==
    /\ accepted' = Append(accepted, l)
    /\ UNCHANGED <<phase, delivered>>

\* Items m and n stay in order.
Ordered(m, n) == accepted[m] = accepted[n] \/ accepted[m] = Raw \/ accepted[n] = Raw

\* Each item of d is accepted, is there once, and comes after all those before it
\* that it stays in order with.
InOrder(d) ==
    \A i \in 1 .. Len(d) :
        /\ d[i] \in 1 .. Len(accepted)
        /\ \A j \in 1 .. Len(d) : d[i] = d[j] => i = j
        /\ \A m \in 1 .. (d[i] - 1) : Ordered(m, d[i]) => \E j \in 1 .. (i-1) : d[j] = m

\* One write carries more items, all of one lane.
Deliver ==
    /\ phase # "done"
    /\ Len(delivered') > Len(delivered)
    /\ SubSeq(delivered', 1, Len(delivered)) = delivered
    /\ InOrder(delivered')
    /\ \A i, j \in Len(delivered) + 1 .. Len(delivered') :
          accepted[delivered'[i]] = accepted[delivered'[j]]
    /\ UNCHANGED <<phase, accepted>>

Stop ==
    /\ phase = "up"
    /\ phase' = "stopping"
    /\ UNCHANGED <<accepted, delivered>>

Finish ==
    /\ phase = "stopping"
    /\ phase' = "done"
    /\ UNCHANGED <<accepted, delivered>>

ContractNext ==
    \/ \E l \in AnyLane : Accept(l)
    \/ Deliver
    \/ Stop
    \/ Finish

ContractSpec == ContractInit /\ [][ContractNext]_contractVars
=============================================================================

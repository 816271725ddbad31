------------------------------ MODULE MCLink ------------------------------
(* Two batch sizes and three resolutions on each side, one of them the     *)
(* smaller in one field and the larger in the other.  Sequence numbers of  *)
(* one and three bits: the one wraps within two batches, the other after   *)
(* several fragmented messages.                                            *)
EXTENDS Link
MCResolutions == {[fsn |-> 0, rid |-> 1], [fsn |-> 1, rid |-> 0], [fsn |-> 1, rid |-> 1]}
MCFieldBits == [c \in 0..1 |-> 2 * c + 1]
MCDigest == [p \in ZIDs \X ZIDs |-> p[1] * 2 + p[2]]
MCLanes == {<<1, TRUE>>, <<5, TRUE>>}
=============================================================================

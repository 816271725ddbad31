---------------------------- MODULE Reassembly ----------------------------
(* Reassembler.Push on the state of one lane                               *)
(* (internal/transport/reassembler.go).                                    *)
EXTENDS Naturals, Sequences

\* reassemblyState, cleared
Cleared == [active |-> FALSE, expectedSN |-> 0, buf |-> <<>>]

\* Mutant of Gap: sequence numbers are not looked at.
GapNever(st, sn) == FALSE
\* A fragment that does not continue the open reassembly.
Gap(st, sn) == st.active /\ sn # st.expectedSN

\* Mutant of NextSN: the mask is forgotten.
NextSNUnwrapped(sn, modulus) == sn + 1
\* (sn + 1) & snMask
NextSN(sn, modulus) == (sn + 1) % modulus

\* Push: the lane's next state and the completed body, or no body.  A gap drops
\* the fragment itself too, and whatever comes next opens a reassembly anew.
Push(st, sn, more, body, modulus, max) ==
    LET buf == IF st.active THEN st.buf \o body ELSE body
    IN  CASE Gap(st, sn) \/ Len(buf) > max -> [st |-> Cleared, out |-> <<>>]
          [] ~Gap(st, sn) /\ Len(buf) <= max /\ more ->
                [st |-> [active |-> TRUE, expectedSN |-> NextSN(sn, modulus), buf |-> buf],
                 out |-> <<>>]
          [] OTHER -> [st |-> Cleared, out |-> buf]
=============================================================================

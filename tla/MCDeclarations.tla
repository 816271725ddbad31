--------------------------- MODULE MCDeclarations ---------------------------
(* Replay and Matching in one run: a behaviour is one of the registries, or  *)
(* one of the matching status of a publisher, across reconnects. Replay has  *)
(* two registries, one of them with two entities.                            *)
EXTENDS Replay, Matching, TLC

CONSTANTS e1, e2, e3, k1, k2, l1, l2

MCEntities == {e1, e2, e3}
MCKindOf == (e1 :> 1) @@ (e2 :> 2) @@ (e3 :> 2)

\* The two listeners are alike, and so are the entities of one registry.
MCSymmetry ==
    {p @@ q : p \in Permutations({e2, e3}), q \in Permutations(Listeners)}

VARIABLE which       \* the machine that runs

mcvars == <<vars, matchingVars, which>>

MCInit == Init /\ MatchingInit /\ which \in {"registries", "matching"}

MCNext ==
    \/ which = "registries" /\ Next /\ UNCHANGED <<matchingVars, which>>
    \/ which = "matching" /\ MatchingNext /\ UNCHANGED <<vars, which>>

MCSpec == MCInit /\ [][MCNext]_mcvars
=============================================================================

------------------------------- MODULE MCGets -------------------------------
(* Instance of Gets for TLC: every way to call Get that the code tells apart, *)
(* with a budget smaller than the number of replies that may come.            *)
EXTENDS Gets

CONSTANTS g1

OptionsOf(live, stream, timed, cancellable, budget) ==
    [liveliness |-> live, stream |-> stream, timed |-> timed,
     cancellable |-> cancellable, budget |-> budget]

MCOptions ==
    {OptionsOf(FALSE, s, t, c, b) : s, t, c \in BOOLEAN, b \in {0, 2}}
        \cup {OptionsOf(TRUE, TRUE, t, c, 0) : t, c \in BOOLEAN}
=============================================================================

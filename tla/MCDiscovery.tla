---------------------------- MODULE MCDiscovery ----------------------------
(* Two machines that do not interact, checked in one run: a behaviour is   *)
(* one of a group member or one of a call of Scout.                        *)
EXTENDS Multicast, Scouting
VARIABLE which
mcvars == <<vars, scVars, which>>

MCRoles == [z \in Nodes |-> "peer"]

MCInit == Init /\ ScInit /\ which \in {"group", "scout"}
MCNext ==
    \/ which = "group" /\ Next /\ UNCHANGED <<scVars, which>>
    \/ which = "scout" /\ ScNext /\ UNCHANGED <<vars, which>>

OfGroup(A) == which = "group" /\ A /\ UNCHANGED <<scVars, which>>
OfScout(A) == which = "scout" /\ A /\ UNCHANGED <<vars, which>>

\* Time passes, members send their JOINs, our goroutines run; a Go mutex is
\* starvation-free and select chooses fairly.
MCFairness ==
    /\ WF_mcvars(OfGroup(Tick)) /\ WF_mcvars(OfGroup(Evict))
    /\ \A p \in Peers : SF_mcvars(OfGroup(SendFrom(p, <<"join">>)))
    /\ WF_mcvars(OfGroup(\E d \in net : Handle(d)))
    /\ \A p \in Peers, x \in Addrs : WF_mcvars(OfGroup(Handle(JoinOf(p, x))))
    /\ WF_mcvars(OfScout(MainStep))
    /\ \A c \in Sockets : SF_mcvars(OfScout(DispatchStep(c))) /\ WF_mcvars(OfScout(ReadStep(c)))
    /\ \A c \in SendSockets : SF_mcvars(OfScout(SenderStops(c))) /\ WF_mcvars(OfScout(SendRound(c)))

MCSpec == MCInit /\ [][MCNext]_mcvars /\ MCFairness
=============================================================================

----------------------------- MODULE MCDispatch -----------------------------
(* What a session does with inbound messages: Delivery and Queries in one     *)
(* run. A behaviour is one of a subscriber, of a client that reconnects or of *)
(* a peer with two unicast peers; or one of a pair of nodes, two Gets of na   *)
(* and two queryables of nb. As a bound, the faces and Puts of a subscriber's *)
(* behaviour use either one suffix, and aliases, or all suffixes and none.    *)
EXTENDS Delivery, Queries

CONSTANTS router, peerA, peerB, s1, na, nb, q1, q2

MCNodes == {na, nb}
MCQbls == {q1, q2}
MCNodeOf == [q \in MCQbls |-> nb]
MCMaxGets == [n \in MCNodes |-> IF n = na THEN 2 ELSE 0]

VARIABLE which       \* the machine that runs, and what its keys are made of

mcvars == <<deliveryVars, vars, which>>

\* The handlers are the same for both kinds of subscriber: a liveliness
\* subscriber, and the one that stands still, have a RingChannel.
MCInit ==
    /\ DeliveryInit /\ Init
    /\ \/ which = "aliases"
       \/ which = "suffixes" /\ liveSubs = Subs
       \/ which = "queryables" /\ liveSubs = {} /\ handler = [s \in Subs |-> "ring"]
    /\ \A s \in liveSubs : handler[s] = "ring"

\* What has been sent and put keeps to one suffix.
OneSuffix == LET one == CHOOSE x \in Suffixes : TRUE IN
    /\ \A f \in Faces : \A i \in 1 .. Len(inbox[f]) : inbox[f][i].expr.suffix \in {NoKey, <<one>>}
    /\ dispatch["app"].event.key \in {NoKey, <<one>>}

NoAliases == theirs = [f \in Faces |-> NoIds(ExprIds)]

OfSubs(A) == /\ \/ which = "aliases" /\ A /\ OneSuffix'
                \/ which = "suffixes" /\ A /\ NoAliases'
             /\ UNCHANGED <<vars, which>>
OfQbls(A) == which = "queryables" /\ A /\ UNCHANGED <<deliveryVars, which>>

MCNext == OfSubs(DeliveryNext) \/ OfQbls(Next)

\* A writer that waits for a sync.RWMutex keeps new readers out, so it is not
\* overtaken for ever: strong fairness for Unregister. Readers, the goroutines
\* of handlers and queryables, and callbacks run on; whether anyone speaks, asks,
\* replies, declares, drops or loses a link is open.
MCFairness ==
    /\ \A g \in Goroutines : WF_mcvars(OfSubs(Dispatching(g)))
    /\ \A f \in Faces : WF_mcvars(OfSubs(Read(f))) /\ WF_mcvars(OfSubs(Relink(f)))
    /\ \A s \in Subs :
        /\ SF_mcvars(OfSubs(Unregister(s)))
        /\ WF_mcvars(OfSubs(Declare(s) \/ SendUndeclare(s) \/ CloseHandler(s) \/ AwaitClosure(s)))
        /\ WF_mcvars(OfSubs(Handling(s)))
    /\ \A c \in Links : WF_mcvars(OfQbls(Reader(c)))
    /\ \A q \in Qbls : WF_mcvars(OfQbls(Dispatcher(q)))

MCSpec == MCInit /\ [][MCNext]_mcvars /\ MCFairness

=============================================================================

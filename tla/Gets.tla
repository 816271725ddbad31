-------------------------------- MODULE Gets --------------------------------
(***************************************************************************)
(* The life of Session.Get and Liveliness.Get in client mode: the          *)
(* collector registry, the goroutines each Get spawns (budgetLimit, the    *)
(* reply translator, the cancel watcher), the reader that delivers         *)
(* replies, and the orchestrator that cancels every Get when a Runtime     *)
(* ends.                                                                   *)
(*                                                                         *)
(* The n-th reply the router sends to a Get is named n, and has a key of   *)
(* its own; module Consolidation has what the translator keeps per key.    *)
(* A liveliness Get has neither budget nor consolidation.                  *)
(***************************************************************************)
EXTENDS Naturals, Sequences

CONSTANTS
    Calls,        \* the Gets
    Options,      \* what they may be called with, a set of CallOptions
    Buffer,       \* capacity of every channel of a Get
    MaxReplies,   \* bound: replies to each Get
    MaxLinks      \* bound: links over the session's life

\* liveliness: made with Liveliness().Get; stream: replies are passed on as they
\* come (otherwise buffered: Latest); timed: has a timeout; cancellable: its
\* context may be cancelled; budget: 0 for none.
CallOptions == [liveliness : BOOLEAN, stream : BOOLEAN, timed : BOOLEAN,
                cancellable : BOOLEAN, budget : Nat]

ASSUME GetsAssumption ==
    /\ Options \subseteq CallOptions /\ Options # {}
    /\ \A o \in Options : o.liveliness => o.stream /\ o.budget = 0
    /\ Buffer \in Nat \ {0} /\ MaxReplies \in Nat /\ MaxLinks \in Nat \ {0}

VARIABLES
    link, up,     \* number of the newest link, and whether it is alive
    orch,         \* the Runtime's orchestrator, then the reconnect loop
    doomed,       \* liveliness queries it has listed to cancel
    closed,       \* Session.Close was called
    holding,      \* the reader holds the registry's read lock for these Gets
    gpc, opt,     \* where each call is, and what it was called with
    target,       \* link its REQUEST goes to
    ctxDone,      \* its context is cancelled
    reg,          \* Gets with a collector in the registry
    closes,       \* how often the collector's channel was closed
    endedBy,      \* history: what closed it
    sent, final,  \* replies the router sent, and whether RESPONSE_FINAL followed
    inCh,         \* the collector's channel
    bpc, bhold, count, dst,   \* budgetLimit, its reply, its count, its channel
    tpc, thold,   \* the translator, and the replies it holds
    out, got,     \* the public channel, and what the caller received
    wpc,          \* the cancel watcher
    overflow,     \* history: a reply was dropped because inCh was full
    panicked      \* a reply was sent on a closed channel

linkVars   == <<link, up, orch, doomed, closed>>
routerVars == <<sent, final>>
regVars    == <<reg, closes, endedBy>>
readVars   == <<holding, overflow, panicked>>
callVars   == <<gpc, opt, target, ctxDone>>
budgetVars == <<bpc, bhold, count, dst>>
transVars  == <<tpc, thold>>
vars == <<linkVars, routerVars, regVars, readVars, callVars, inCh, budgetVars,
          transVars, out, got, wpc>>

Init ==
    /\ link = 1 /\ up = TRUE /\ orch = "run" /\ doomed = {} /\ closed = FALSE
    /\ holding = {} /\ overflow = {} /\ panicked = FALSE
    /\ gpc = [g \in Calls |-> "new"] /\ opt \in [Calls -> Options]
    /\ target = [g \in Calls |-> 0]
    /\ ctxDone = [g \in Calls |-> FALSE]
    /\ reg = {} /\ closes = [g \in Calls |-> 0]
    /\ endedBy = [g \in Calls |-> "none"]
    /\ sent = [g \in Calls |-> 0] /\ final = [g \in Calls |-> FALSE]
    /\ inCh = [g \in Calls |-> <<>>]
    /\ bpc = [g \in Calls |-> "none"] /\ bhold = [g \in Calls |-> 0]
    /\ count = [g \in Calls |-> 0] /\ dst = [g \in Calls |-> <<>>]
    /\ tpc = [g \in Calls |-> "none"] /\ thold = [g \in Calls |-> <<>>]
    /\ out = [g \in Calls |-> <<>>] /\ got = [g \in Calls |-> <<>>]
    /\ wpc = [g \in Calls |-> "none"]

-----------------------------------------------------------------------------
(* The collector registry. A writer of the registry waits for the reader.  *)

\* Mutant of Finalise: the channel is closed without waiting for the reader.
FinaliseUnlocked(gs, why) ==
    /\ reg' = reg \ gs
    /\ closes' = [g \in Calls |-> IF g \in reg \cap gs THEN closes[g] + 1 ELSE closes[g]]
    /\ endedBy' = [g \in Calls |-> IF g \in reg \cap gs THEN why ELSE endedBy[g]]

\* finaliseGet and finaliseLivelinessQuery: remove the entry, close its channel.
Finalise(gs, why) ==
    /\ holding = {}
    /\ reg' = reg \ gs
    /\ closes' = [g \in Calls |-> IF g \in reg \cap gs THEN closes[g] + 1 ELSE closes[g]]
    /\ endedBy' = [g \in Calls |-> IF g \in reg \cap gs THEN why ELSE endedBy[g]]

ChanClosed(g) == closes[g] > 0

-----------------------------------------------------------------------------
(* The call.                                                               *)

CallGoto(g, from, to) == gpc[g] = from /\ gpc' = [gpc EXCEPT ![g] = to]
CallUnchanged == UNCHANGED <<opt, linkVars, routerVars, readVars, ctxDone, inCh,
                             bhold, count, dst, thold, out, got>>

\* The checks at the top of GetWithContext.
Get(g) ==
    /\ \/ (closed \/ ctxDone[g]) /\ CallGoto(g, "new", "failed")
       \/ ~closed /\ ~ctxDone[g] /\ CallGoto(g, "new", "register")
    /\ UNCHANGED <<target, regVars, bpc, tpc, wpc>> /\ CallUnchanged

\* RegisterGet, and budgetLimit is started.
Register(g) ==
    /\ CallGoto(g, "register", "lookup")
    /\ holding = {}
    /\ reg' = reg \cup {g}
    /\ bpc' = [bpc EXCEPT ![g] = IF opt[g].budget > 0 THEN "recv" ELSE "none"]
    /\ UNCHANGED <<target, closes, endedBy, tpc, wpc>> /\ CallUnchanged

\* A Runtime is registered until the reconnect loop uninstalls it.
Installed == orch \notin {"connect", "exited"}

\* enqueueNetwork: the registered Runtime, or ErrSessionNotReady.
Lookup(g) ==
    /\ \/ /\ Installed /\ CallGoto(g, "lookup", "send")
          /\ target' = [target EXCEPT ![g] = link]
       \/ ~Installed /\ CallGoto(g, "lookup", "fail") /\ UNCHANGED target
    /\ UNCHANGED <<regVars, bpc, tpc, wpc>> /\ CallUnchanged

Reaches(g) == up /\ target[g] = link

\* deliverEncoded: OutQ takes the REQUEST (a dead Runtime's OutQ too), or the
\* link is closed, or the context is done.
Send(g) ==
    /\ \/ CallGoto(g, "send", "spawn")
       \/ ~Reaches(g) /\ CallGoto(g, "send", "fail")
       \/ ctxDone[g] /\ ~opt[g].liveliness /\ CallGoto(g, "send", "fail")
    /\ UNCHANGED <<target, regVars, bpc, tpc, wpc>> /\ CallUnchanged

\* The error path: CancelGet.
Fail(g) ==
    /\ CallGoto(g, "fail", "failed")
    /\ Finalise({g}, "failed")
    /\ UNCHANGED <<target, bpc, tpc, wpc>> /\ CallUnchanged

\* The watcher and the translator are started and the channel returned.
Spawn(g) ==
    /\ CallGoto(g, "spawn", "returned")
    /\ tpc' = [tpc EXCEPT ![g] = "recv"]
    /\ wpc' = [wpc EXCEPT ![g] = IF opt[g].timed \/ opt[g].cancellable
                                 THEN "wait" ELSE "none"]
    /\ UNCHANGED <<target, regVars, bpc>> /\ CallUnchanged

CancelContext(g) ==
    /\ opt[g].cancellable /\ ~ctxDone[g]
    /\ ctxDone' = [ctxDone EXCEPT ![g] = TRUE]
    /\ UNCHANGED <<linkVars, routerVars, regVars, readVars, gpc, opt, target, inCh,
                   budgetVars, transVars, out, got, wpc>>

-----------------------------------------------------------------------------
(* The reader.                                                             *)

ReadUnchanged == UNCHANGED <<linkVars, callVars, budgetVars, transVars, out,
                             got, wpc>>

\* The router still answers the REQUEST on the link that carried it.
Answering(g) == Reaches(g) /\ gpc[g] \in {"spawn", "returned"} /\ ~final[g]

\* onResponse and deliverReply: look up the collector under the read lock.
DeliverLookup(g) ==
    /\ holding = {} /\ Answering(g) /\ sent[g] < MaxReplies
    /\ sent' = [sent EXCEPT ![g] = @ + 1]
    /\ holding' = IF g \in reg THEN {g} ELSE {}
    /\ UNCHANGED <<final, regVars, overflow, panicked, inCh>> /\ ReadUnchanged

\* The send that does not block, then the unlock.
DeliverSend(g) ==
    /\ g \in holding /\ holding' = {}
    /\ panicked' = (panicked \/ ChanClosed(g))
    /\ IF Len(inCh[g]) < Buffer
       THEN /\ inCh' = [inCh EXCEPT ![g] = Append(@, sent[g])]
            /\ UNCHANGED overflow
       ELSE overflow' = overflow \cup {g} /\ UNCHANGED inCh
    /\ UNCHANGED <<routerVars, regVars>> /\ ReadUnchanged

\* RESPONSE_FINAL, or DECLARE Final for a liveliness Get.
ReceiveFinal(g) ==
    /\ Answering(g)
    /\ final' = [final EXCEPT ![g] = TRUE]
    /\ Finalise({g}, "final")
    /\ UNCHANGED <<sent, readVars, inCh>> /\ ReadUnchanged

-----------------------------------------------------------------------------
(* budgetLimit.                                                            *)

BudgetGoto(g, from, to) == bpc[g] = from /\ bpc' = [bpc EXCEPT ![g] = to]
BudgetUnchanged == UNCHANGED <<linkVars, routerVars, regVars, readVars, callVars,
                               transVars, out, got, wpc>>

BudgetReceive(g) ==
    /\ \/ /\ inCh[g] # <<>> /\ BudgetGoto(g, "recv", "send")
          /\ bhold' = [bhold EXCEPT ![g] = Head(inCh[g])]
          /\ inCh' = [inCh EXCEPT ![g] = Tail(@)]
       \/ /\ (inCh[g] = <<>> /\ ChanClosed(g)) \/ ctxDone[g]
          /\ BudgetGoto(g, "recv", "exited")
          /\ UNCHANGED <<bhold, inCh>>
    /\ UNCHANGED <<count, dst>> /\ BudgetUnchanged

BudgetSend(g) ==
    /\ \/ /\ Len(dst[g]) < Buffer
          /\ dst' = [dst EXCEPT ![g] = Append(@, bhold[g])]
          /\ count' = [count EXCEPT ![g] = @ + 1]
          /\ BudgetGoto(g, "send", IF count[g] + 1 < opt[g].budget THEN "recv" ELSE "exited")
       \/ /\ ctxDone[g] /\ BudgetGoto(g, "send", "exited")
          /\ UNCHANGED <<count, dst>>
    /\ UNCHANGED <<bhold, inCh>> /\ BudgetUnchanged

-----------------------------------------------------------------------------
(* The translator.                                                         *)

\* The channel it reads, and whether that is closed.
Source(g) == IF opt[g].budget > 0 THEN dst[g] ELSE inCh[g]
SourceClosed(g) == IF opt[g].budget > 0 THEN bpc[g] = "exited" ELSE ChanClosed(g)

TakeSource(g) ==
    IF opt[g].budget > 0
    THEN dst' = [dst EXCEPT ![g] = Tail(@)] /\ UNCHANGED inCh
    ELSE inCh' = [inCh EXCEPT ![g] = Tail(@)] /\ UNCHANGED dst

TransGoto(g, from, to) == tpc[g] = from /\ tpc' = [tpc EXCEPT ![g] = to]
TransUnchanged == UNCHANGED <<linkVars, routerVars, regVars, readVars, callVars,
                              bpc, bhold, count, got, wpc>>

\* streamRepliesGeneric waits for the source alone; runLatestTranslator keeps
\* what it reads and watches the context too.
TransReceive(g) ==
    /\ Source(g) # <<>>
    /\ TransGoto(g, "recv", IF opt[g].stream THEN "emit" ELSE "recv")
    /\ thold' = [thold EXCEPT ![g] = Append(@, Head(Source(g)))]
    /\ TakeSource(g)
    /\ UNCHANGED out /\ TransUnchanged

\* Mutant of TransClosed: the translator leaves as soon as the source is closed.
TransClosedEarly(g) ==
    /\ SourceClosed(g)
    /\ TransGoto(g, "recv", IF opt[g].stream THEN "done" ELSE "emit")
    /\ UNCHANGED <<thold, inCh, dst, out>> /\ TransUnchanged

\* The source is closed and empty: the stream ends, Latest flushes.
TransClosed(g) ==
    /\ Source(g) = <<>> /\ SourceClosed(g)
    /\ TransGoto(g, "recv", IF opt[g].stream THEN "done" ELSE "emit")
    /\ UNCHANGED <<thold, inCh, dst, out>> /\ TransUnchanged

AfterEmit(g, rest) ==
    IF rest # <<>> THEN "emit" ELSE IF opt[g].stream THEN "recv" ELSE "done"

\* out <- reply
TransEmit(g) ==
    /\ thold[g] # <<>> /\ Len(out[g]) < Buffer
    /\ TransGoto(g, "emit", AfterEmit(g, Tail(thold[g])))
    /\ out' = [out EXCEPT ![g] = Append(@, Head(thold[g]))]
    /\ thold' = [thold EXCEPT ![g] = Tail(@)]
    /\ UNCHANGED <<inCh, dst>> /\ TransUnchanged

TransNothingToFlush(g) ==
    /\ thold[g] = <<>> /\ TransGoto(g, "emit", "done")
    /\ UNCHANGED <<thold, inCh, dst, out>> /\ TransUnchanged

TransCancelled(g) ==
    /\ ctxDone[g]
    /\ \/ TransGoto(g, "emit", "done")
       \/ ~opt[g].stream /\ TransGoto(g, "recv", "done")
    /\ UNCHANGED <<thold, inCh, dst, out>> /\ TransUnchanged

\* The caller ranges over the public channel.
Consume(g) ==
    /\ gpc[g] = "returned" /\ out[g] # <<>>
    /\ got' = [got EXCEPT ![g] = Append(@, Head(out[g]))]
    /\ out' = [out EXCEPT ![g] = Tail(@)]
    /\ UNCHANGED <<linkVars, routerVars, regVars, readVars, callVars, inCh,
                   budgetVars, transVars, wpc>>

-----------------------------------------------------------------------------
(* runCancelWatcher.                                                       *)

WatchGoto(g, from, to) == wpc[g] = from /\ wpc' = [wpc EXCEPT ![g] = to]
WatchUnchanged == UNCHANGED <<linkVars, routerVars, readVars, callVars, inCh,
                              budgetVars, transVars, out, got>>

\* Mutant of WatchCancels: only the context is watched.
WatchCancelsContextOnly(g) ==
    /\ ctxDone[g]
    /\ WatchGoto(g, "wait", "cancelled")
    /\ Finalise({g}, "cancel")
    /\ WatchUnchanged

\* The context or the timer fires: CancelGet.
WatchCancels(g) ==
    /\ ctxDone[g] \/ opt[g].timed
    /\ WatchGoto(g, "wait", "cancelled")
    /\ Finalise({g}, "cancel")
    /\ WatchUnchanged

\* translatorExited; when several cases are ready, select takes any of them.
WatchExited(g) ==
    /\ tpc[g] = "done"
    /\ WatchGoto(g, "wait", "exited")
    /\ UNCHANGED regVars /\ WatchUnchanged

-----------------------------------------------------------------------------
(* The link, Session.Close and the orchestrators.                          *)

LinkUnchanged == UNCHANGED <<routerVars, readVars, callVars, inCh, budgetVars,
                             transVars, out, got, wpc>>

\* The link ends, because it fails or because the session is closed; the
\* reader leaves between two messages.
LinkLost ==
    /\ up /\ holding = {} /\ (closed \/ link < MaxLinks)
    /\ up' = FALSE
    /\ UNCHANGED <<link, orch, doomed, closed, regVars>> /\ LinkUnchanged

CloseSession ==
    /\ ~closed /\ closed' = TRUE
    /\ UNCHANGED <<link, up, orch, doomed, regVars>> /\ LinkUnchanged

\* The Runtime's orchestrator after wg.Wait: cancelAllGets, under one lock.
CancelAllGets ==
    /\ orch = "run" /\ ~up /\ orch' = "listQueries"
    /\ Finalise({g \in reg : ~opt[g].liveliness}, "link")
    /\ UNCHANGED <<link, up, doomed, closed>> /\ LinkUnchanged

\* cancelAllLivelinessQueries lists the ids under the lock and finalises them
\* one by one.
ListQueries ==
    /\ orch = "listQueries" /\ holding = {} /\ orch' = "cancelQueries"
    /\ doomed' = {g \in reg : opt[g].liveliness}
    /\ UNCHANGED <<link, up, closed, regVars>> /\ LinkUnchanged

CancelQuery(g) ==
    /\ orch = "cancelQueries" /\ g \in doomed
    /\ doomed' = doomed \ {g}
    /\ Finalise({g}, "link")
    /\ UNCHANGED <<link, up, orch, closed>> /\ LinkUnchanged

\* close(rt.done).
RuntimeDone ==
    /\ orch = "cancelQueries" /\ doomed = {} /\ orch' = "uninstall"
    /\ UNCHANGED <<link, up, doomed, closed, regVars>> /\ LinkUnchanged

\* The reconnect loop: uninstall, then exit or a fresh link.
Uninstall ==
    /\ orch = "uninstall" /\ orch' = IF closed THEN "exited" ELSE "connect"
    /\ UNCHANGED <<link, up, doomed, closed, regVars>> /\ LinkUnchanged

Reconnect ==
    /\ orch = "connect"
    /\ \/ closed /\ orch' = "exited" /\ UNCHANGED <<link, up>>
       \/ ~closed /\ orch' = "run" /\ link' = link + 1 /\ up' = TRUE
    /\ UNCHANGED <<doomed, closed, regVars>> /\ LinkUnchanged

-----------------------------------------------------------------------------
Call(g) == Get(g) \/ Register(g) \/ Lookup(g) \/ Send(g) \/ Fail(g) \/ Spawn(g)
Reader(g) == DeliverLookup(g) \/ DeliverSend(g) \/ ReceiveFinal(g)
BudgetLimit(g) == BudgetReceive(g) \/ BudgetSend(g)
Translator(g) == TransReceive(g) \/ TransClosed(g) \/ TransEmit(g)
                 \/ TransNothingToFlush(g) \/ TransCancelled(g)
Watcher(g) == WatchCancels(g) \/ WatchExited(g)
Orchestrator == CancelAllGets \/ ListQueries \/ (\E g \in Calls : CancelQuery(g))
                \/ RuntimeDone \/ Uninstall \/ Reconnect

Next ==
    \/ \E g \in Calls : \/ Call(g) \/ CancelContext(g) \/ Reader(g)
                        \/ BudgetLimit(g) \/ Translator(g) \/ Consume(g)
                        \/ Watcher(g)
    \/ LinkLost \/ CloseSession \/ Orchestrator

Spec == Init /\ [][Next]_vars

\* Goroutines run when they can, the caller ranges over its channel and Close
\* brings the link down. The router may never answer.
Fairness ==
    /\ \A g \in Calls :
        /\ WF_vars(Call(g) /\ gpc[g] # "new")
        /\ WF_vars(DeliverSend(g)) /\ WF_vars(BudgetLimit(g))
        /\ WF_vars(Translator(g)) /\ WF_vars(Consume(g)) /\ WF_vars(Watcher(g))
    /\ WF_vars(LinkLost /\ closed) /\ WF_vars(Orchestrator)

FairSpec == Spec /\ Fairness

-----------------------------------------------------------------------------
(* Properties.                                                             *)

\* A late reply never meets a closed channel: deliverReply holds the read lock
\* across its send while RESPONSE_FINAL, the timer, the context and the end of
\* the link all race to close it.
NoSendOnClosed == ~panicked

\* What the caller has of a Get, in order.
Received(g) == got[g] \o out[g]

\* "the reply channel always closes after at most Budget items".
BudgetKept ==
    \A g \in Calls : opt[g].budget > 0 => Len(Received(g)) <= opt[g].budget

\* Replies pass three channels and goroutines in the router's order, and a Get
\* that RESPONSE_FINAL ended, with no reply dropped on a full channel and no
\* cancellation, gives the caller every reply, up to its budget.
NoReplyLost ==
    \A g \in Calls :
        /\ \A i, j \in 1 .. Len(Received(g)) :
               i < j => Received(g)[i] < Received(g)[j]
        /\ /\ tpc[g] = "done" /\ endedBy[g] = "final"
           /\ g \notin overflow /\ ~ctxDone[g]
           => Len(Received(g)) = IF 0 < opt[g].budget /\ opt[g].budget < sent[g]
                                 THEN opt[g].budget ELSE sent[g]

\* What a caller is given of the replies to a Get: at most its budget, in the
\* router's order, and none lost on the way (zenoh/get.go:282-313, 363-386).
RepliesAccounted == BudgetKept /\ NoReplyLost

\* The public channel of a Get is closed.
Ended(g) == tpc[g] = "done"

\* "The local reply channel always closes after Timeout", and a cancelled
\* context closes it too, whatever the router, the link and the budget do.
TimeoutEnds ==
    \A g \in Calls :
        gpc[g] = "returned" /\ (opt[g].timed \/ ctxDone[g]) ~> Ended(g)

\* "Gets do not survive across Runtimes": a Get that was running when its link
\* was lost ends, even if it has neither timeout nor context.
LinkLossEnds ==
    \A g \in Calls :
        (gpc[g] = "returned" /\ orch = "run" /\ ~up) ~> Ended(g)

\* A Get ends by its timeout or context and with its link, whichever of its
\* goroutines waits on which channel (zenoh/get.go:262-280, 468-496,
\* internal/session/run.go:283-299).
GetsEnd == TimeoutEnds /\ LinkLossEnds
=============================================================================

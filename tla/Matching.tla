------------------------------ MODULE Matching ------------------------------
(***************************************************************************)
(* The matching status of one Publisher (or Querier): the registry entry   *)
(* that tracks the remote subscribers its key intersects, the listeners    *)
(* attached to it, and the router that answers its INTEREST, across        *)
(* reconnects in client mode.                                              *)
(*                                                                         *)
(* Registry entries are independent of each other, so there is one. Every  *)
(* method of the registry runs under its mutex and is one step; the hooks  *)
(* that UnregisterMatching calls after unlocking are steps of their own.   *)
(* Keys are the (peer, entity id) pairs of remote declarations that        *)
(* intersect the publisher's key.                                          *)
(***************************************************************************)
EXTENDS Naturals, Sequences, FiniteSets

CONSTANTS
    Keys,         \* remote declarations that may come and go
    Listeners,    \* listeners that may be attached, each once
    LinkBound,    \* bound: links over the session's life
    MaxChanges    \* bound: remote declarations and undeclarations

VARIABLES
    linkNo, linkUp, \* number of the newest link, and whether it is alive
    rpc,            \* the orchestrator
    planned,        \* its replay plan holds this publisher's INTEREST
    remote,         \* the remote declarations the router knows of
    changes,        \* how often they changed
    interest,       \* the router holds our INTEREST on the newest link
    chan,           \* messages from the router, in order
    ppc,            \* where the publisher's user is
    published,      \* the publisher is in Session.publishers
    entry,          \* it has an entry in the matching registry
    initialDone,    \* entry.initialDone
    declarations,   \* entry.declarations
    attached,       \* entry.listeners
    hooks,          \* listeners whose onEntryRemoved is still to be called
    lpc,            \* where the user of each listener is
    detached,       \* MatchingListener.detached
    closes,         \* how often each handler was closed
    last,           \* the last status each handler received
    late            \* a status was delivered to a closed handler

runtimeVars   == <<linkNo, linkUp, rpc, planned>>
routerVars    == <<remote, changes, interest, chan>>
publisherVars == <<ppc, published>>
statusVars    == <<initialDone, declarations>>
handlerVars   == <<lpc, detached, closes>>
noticeVars    == <<last, late>>
matchingVars == <<runtimeVars, routerVars, publisherVars, entry, statusVars, attached, hooks,
          handlerVars, noticeVars>>

Statuses == {"none", "matching", "notMatching"}
StatusOf(decls) == IF decls = {} THEN "notMatching" ELSE "matching"

MatchingInit ==
    /\ linkNo = 1 /\ linkUp = TRUE /\ rpc = "steady" /\ planned = FALSE
    /\ remote = {} /\ changes = 0 /\ interest = FALSE /\ chan = <<>>
    /\ ppc = "new" /\ published = FALSE /\ entry = FALSE
    /\ initialDone = FALSE /\ declarations = {} /\ attached = {} /\ hooks = {}
    /\ lpc = [l \in Listeners |-> "new"]
    /\ detached = [l \in Listeners |-> FALSE]
    /\ closes = [l \in Listeners |-> 0]
    /\ last = [l \in Listeners |-> "none"] /\ late = FALSE

-----------------------------------------------------------------------------
(* The router: how src/ relies on it.                                      *)

\* What the router may send for an INTEREST[CurrentFuture]: the current
\* declarations in any order, then DECLARE Final.
Answers ==
    {Append([i \in DOMAIN order |-> [type |-> "D", key |-> order[i]]], [type |-> "Final"]) :
        order \in {o \in [1 .. Cardinality(remote) -> remote] :
                      remote = {o[i] : i \in DOMAIN o}}}

RouterInterest ==
    /\ interest' = TRUE
    /\ \E answer \in Answers : chan' = chan \o answer
    /\ UNCHANGED <<remote, changes>>

\* Later changes are sent while the INTEREST stands.
RemoteChange(k) ==
    /\ changes < MaxChanges
    /\ changes' = changes + 1
    /\ remote' = IF k \in remote THEN remote \ {k} ELSE remote \cup {k}
    /\ chan' = IF interest
               THEN Append(chan, [type |-> IF k \in remote THEN "U" ELSE "D",
                                  key |-> k])
               ELSE chan
    /\ UNCHANGED <<interest, runtimeVars, publisherVars, entry, statusVars, attached,
                   hooks, handlerVars, noticeVars>>

-----------------------------------------------------------------------------
(* Deliveries.                                                             *)

\* Every attached listener's deliver runs under the registry's mutex.
Deliver(ls, status) ==
    /\ last' = [l \in Listeners |-> IF l \in ls THEN status ELSE last[l]]
    /\ late' = (late \/ \E l \in ls : closes[l] > 0)

NoDelivery == UNCHANGED <<last, late>>

\* applyMatchingDelta on a declaration or undeclaration the entry does not
\* ignore: listeners hear of it only after the snapshot and on a transition.
Apply(decls) ==
    /\ declarations' = decls
    /\ IF initialDone /\ StatusOf(decls) # StatusOf(declarations)
       THEN Deliver(attached, StatusOf(decls))
       ELSE NoDelivery
    /\ UNCHANGED initialDone

\* Declaring a known key or undeclaring an unknown one leaves the set as it is.
ApplyDelta(m) ==
    IF m.type = "D" THEN Apply(declarations \cup {m.key})
    ELSE Apply(declarations \ {m.key})

\* onMatchingSnapshotDone, idempotent.
SnapshotDone ==
    /\ IF initialDone
       THEN NoDelivery /\ UNCHANGED initialDone
       ELSE /\ initialDone' = TRUE
            /\ Deliver(attached, StatusOf(declarations))
    /\ UNCHANGED declarations

\* The reader dispatches the next message; without an entry it has no effect.
Receive ==
    /\ chan # <<>>
    /\ chan' = Tail(chan)
    /\ IF entry
       THEN IF Head(chan).type = "Final" THEN SnapshotDone
                                         ELSE ApplyDelta(Head(chan))
       ELSE UNCHANGED <<statusVars, noticeVars>>
    /\ UNCHANGED <<remote, changes, interest, runtimeVars, publisherVars, entry,
                   attached, hooks, handlerVars>>

-----------------------------------------------------------------------------
(* The link and the orchestrator.                                          *)

LoopUnchanged == UNCHANGED <<publisherVars, entry, attached, hooks, handlerVars,
                             noticeVars>>

\* The link drops with what it carried, and the router forgets the INTEREST.
LinkDrops ==
    /\ linkUp /\ linkNo < LinkBound
    /\ linkUp' = FALSE /\ interest' = FALSE /\ chan' = <<>>
    /\ UNCHANGED <<linkNo, rpc, planned, remote, changes, statusVars>>
    /\ LoopUnchanged

\* Done() of the old Runtime and uninstallRuntime.
UninstallRuntime ==
    /\ rpc = "steady" /\ ~linkUp
    /\ rpc' = "connect"
    /\ UNCHANGED <<linkNo, linkUp, planned, routerVars, statusVars>> /\ LoopUnchanged

\* dialAndRun and installRuntime: reader and users have the new link now.
InstallRuntime ==
    /\ rpc = "connect"
    /\ rpc' = "reset" /\ linkNo' = linkNo + 1 /\ linkUp' = TRUE
    /\ UNCHANGED <<planned, routerVars, statusVars>> /\ LoopUnchanged

\* Mutant of ResetMatching: the snapshot flag survives the reconnect.
ResetMatchingKeepsFlag ==
    /\ rpc = "reset" /\ rpc' = "snapshot"
    /\ declarations' = IF entry THEN {} ELSE declarations
    /\ UNCHANGED <<initialDone, linkNo, linkUp, planned, routerVars>> /\ LoopUnchanged

\* Mutant of ResetMatching: it is not called.
ResetMatchingSkipped ==
    /\ rpc = "reset" /\ rpc' = "snapshot"
    /\ UNCHANGED <<statusVars, linkNo, linkUp, planned, routerVars>> /\ LoopUnchanged

\* replayEntities: ResetMatching, after the new link is in use.
ResetMatching ==
    /\ rpc = "reset" /\ rpc' = "snapshot"
    /\ IF entry THEN initialDone' = FALSE /\ declarations' = {}
                ELSE UNCHANGED statusVars
    /\ UNCHANGED <<linkNo, linkUp, planned, routerVars>> /\ LoopUnchanged

\* replayToTarget copies Session.publishers, then sends the INTEREST.
PlanReplay ==
    /\ rpc = "snapshot" /\ rpc' = "send"
    /\ planned' = published
    /\ UNCHANGED <<linkNo, linkUp, routerVars, statusVars>> /\ LoopUnchanged

SendReplay ==
    /\ rpc = "send" /\ rpc' = "steady"
    /\ planned' = FALSE
    /\ IF planned /\ linkUp THEN RouterInterest ELSE UNCHANGED routerVars
    /\ UNCHANGED <<linkNo, linkUp, statusVars>> /\ LoopUnchanged

-----------------------------------------------------------------------------
(* DeclarePublisher and Publisher.Drop.                                    *)

PubGoto(from, to) == ppc = from /\ ppc' = to
PubUnchanged == UNCHANGED <<runtimeVars, handlerVars, noticeVars>>

DeclarePublisher ==
    /\ PubGoto("new", "register")
    /\ published' = TRUE
    /\ UNCHANGED <<routerVars, entry, statusVars, attached, hooks>>
    /\ PubUnchanged

RegisterMatching ==
    /\ PubGoto("register", "send")
    /\ entry' = TRUE /\ initialDone' = FALSE /\ declarations' = {}
    /\ UNCHANGED <<published, routerVars, attached, hooks>> /\ PubUnchanged

\* Installed from Install until the next Uninstall.
Installed == rpc # "connect"

\* sendPublisherInterest: a dead link's OutQ may still accept it.
SendInterest ==
    /\ \/ /\ Installed /\ linkUp /\ PubGoto("send", "live")
          /\ RouterInterest
       \/ /\ Installed /\ ~linkUp
          /\ PubGoto("send", "live") \/ PubGoto("send", "undo")
          /\ UNCHANGED routerVars
       \/ ~Installed /\ PubGoto("send", "undo") /\ UNCHANGED routerVars
    /\ UNCHANGED <<published, entry, statusVars, attached, hooks>>
    /\ PubUnchanged

\* Drop of a live publisher, or the error path of DeclarePublisher.
Unpublish ==
    /\ PubGoto("live", "unregister") \/ PubGoto("undo", "unregisterOnly")
    /\ published' = FALSE
    /\ UNCHANGED <<routerVars, entry, statusVars, attached, hooks>>
    /\ PubUnchanged

\* The entry goes; its listeners' hooks are called after unlocking.
UnregisterMatching ==
    /\ PubGoto("unregister", "final") \/ PubGoto("unregisterOnly", "gone")
    /\ entry' = FALSE /\ initialDone' = FALSE /\ declarations' = {}
    /\ hooks' = attached /\ attached' = {}
    /\ UNCHANGED <<published, routerVars>> /\ PubUnchanged

\* sendInterestFinal, best effort, once the hooks have run.
SendInterestFinal ==
    /\ PubGoto("final", "gone") /\ hooks = {}
    /\ interest' = (interest /\ ~(Installed /\ linkUp))
    /\ UNCHANGED <<published, remote, changes, chan, entry, statusVars,
                   attached, hooks>>
    /\ PubUnchanged

-----------------------------------------------------------------------------
(* Listeners.                                                              *)

ListUnchanged == UNCHANGED <<runtimeVars, routerVars, publisherVars, entry, statusVars>>
ListGoto(l, from, to) == lpc[l] = from /\ lpc' = [lpc EXCEPT ![l] = to]
CloseHandler(l) == closes' = [closes EXCEPT ![l] = @ + 1]

\* declareMatchingListener, by a caller that has the publisher's handle.
Attach(l) ==
    /\ ppc \notin {"new", "register", "send", "undo", "unregisterOnly"}
    /\ \/ /\ entry
          /\ ListGoto(l, "new", "attached")
          /\ attached' = attached \cup {l}
          /\ IF initialDone THEN Deliver({l}, StatusOf(declarations))
                            ELSE NoDelivery
          /\ UNCHANGED closes
       \/ /\ ~entry
          /\ ListGoto(l, "new", "gone")
          /\ CloseHandler(l)
          /\ NoDelivery /\ UNCHANGED attached
    /\ UNCHANGED <<detached, hooks>> /\ ListUnchanged

\* MatchingListener.detach: the CAS, the removal, the close of the handler.
DetachBegin(l) ==
    /\ IF detached[l] THEN ListGoto(l, "attached", "gone")
                      ELSE ListGoto(l, "attached", "remove")
    /\ detached' = [detached EXCEPT ![l] = TRUE]
    /\ NoDelivery /\ UNCHANGED <<attached, closes, hooks>> /\ ListUnchanged

\* Mutant of DetachRemove: the handler is closed before the listener is removed.
DetachRemoveAfterClose(l) ==
    /\ \/ closes[l] = 0 /\ lpc[l] = "remove" /\ CloseHandler(l)
                        /\ UNCHANGED <<lpc, attached>>
       \/ closes[l] > 0 /\ ListGoto(l, "remove", "gone")
                        /\ attached' = attached \ {l} /\ UNCHANGED closes
    /\ NoDelivery /\ UNCHANGED <<detached, hooks>> /\ ListUnchanged

DetachRemove(l) ==
    /\ ListGoto(l, "remove", "close")
    /\ attached' = attached \ {l}
    /\ NoDelivery /\ UNCHANGED <<detached, closes, hooks>> /\ ListUnchanged

DetachClose(l) ==
    /\ ListGoto(l, "close", "gone")
    /\ CloseHandler(l)
    /\ NoDelivery /\ UNCHANGED <<attached, detached, hooks>> /\ ListUnchanged

\* onEntryRemoved: the publisher is gone.
EntryRemoved(l) ==
    /\ l \in hooks /\ hooks' = hooks \ {l}
    /\ \/ ~detached[l] /\ CloseHandler(l) /\ detached' = [detached EXCEPT ![l] = TRUE]
       \/ detached[l] /\ UNCHANGED <<closes, detached>>
    /\ NoDelivery /\ UNCHANGED <<lpc, attached>> /\ ListUnchanged

-----------------------------------------------------------------------------
Publisher == DeclarePublisher \/ RegisterMatching \/ SendInterest \/ Unpublish
             \/ UnregisterMatching \/ SendInterestFinal
Listener(l) == Attach(l) \/ DetachBegin(l) \/ DetachRemove(l) \/ DetachClose(l)
               \/ EntryRemoved(l)
ReconnectLoop == UninstallRuntime \/ InstallRuntime \/ ResetMatching \/ PlanReplay \/ SendReplay

MatchingNext ==
    \/ \E k \in Keys : RemoteChange(k)
    \/ Receive \/ LinkDrops \/ ReconnectLoop \/ Publisher
    \/ \E l \in Listeners : Listener(l)

MatchingSpec == MatchingInit /\ [][MatchingNext]_matchingVars

-----------------------------------------------------------------------------
(* Properties.                                                             *)

\* Once the link is up, the replay over and the router's messages are read, a
\* live publisher knows the router's declarations, however many links, resets
\* and overlapping INTERESTs it took.
MatchingConverges ==
    linkUp /\ rpc = "steady" /\ chan = <<>> /\ ppc = "live"
        => interest /\ initialDone /\ declarations = remote

\* After the snapshot, the last status an attached listener received is the
\* current one: no transition is missed between attach, deltas, snapshots and
\* resets.
ListenersCurrent ==
    initialDone => \A l \in attached : last[l] = StatusOf(declarations)

\* No status is ever delivered to a handler that was closed: closing follows
\* the removal of the listener, and deliveries happen under the lock.
NoLateDelivery == ~late

\* The handler of a listener whose publisher is gone is closed in the end:
\* a consumer ranging over it does not block for ever.
HandlersClosed ==
    ppc = "gone" /\ hooks = {} =>
        \A l \in Listeners : lpc[l] = "attached" => closes[l] = 1

\* A handler is closed once, when its listener or its publisher is gone, and
\* hears nothing afterwards (MatchingListener.detach, UnregisterMatching).
HandlersEndWell ==
    NoLateDelivery /\ HandlersClosed /\ \A l \in Listeners : closes[l] <= 1
=============================================================================

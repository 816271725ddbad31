------------------------- MODULE DeclarationsProofs -------------------------
(***************************************************************************)
(* Proofs about what survives a reconnect: Replay, for any set of entities *)
(* and any number of registries and links, and Matching, for any number of *)
(* remote declarations, listeners and links.                               *)
(***************************************************************************)
EXTENDS Replay, Matching, SequenceTheorems, FiniteSetTheorems, TLAPS

-----------------------------------------------------------------------------
(* Replay.                                                                 *)

\* A user only ever looked up the Runtime of a link that exists.
TargetsAreLinks == \A e \in Entities : target[e] <= link

\* Which entities are in a registry, by where their user is.
Registered ==
    \A e \in Entities :
        e \in reg <=> upc[e] \in {"lookupD", "sendD", "undo", "live"}

PlanOnlyInReplay == loop \in {"steady", "connect", "install"} => plan = {}

InstalledByLoop ==
    /\ installed => loop \in {"steady", "snapshot", "send"}
    /\ ~installed => loop \in {"connect", "install"}

\* A dead link has no declarations, and the loop waits for one to be dead.
DownMeansForgotten ==
    /\ ~up => router = {}
    /\ loop = "connect" => ~up

\* Nothing is sent on a fresh link before its Runtime is installed.
FreshLinkUnused ==
    loop = "install" =>
        /\ router = {}
        /\ \A e \in Entities : target[e] < link

\* The replay under way will still reach a registered entity e.
Pending(e) ==
    \/ loop \in {"connect", "install"}
    \/ loop = "snapshot" /\ KindOf[e] >= kind
    \/ e \in plan

\* A declaration that succeeded, or went to a link that is gone, is at the
\* router or will be replayed, unless the link is dead.
Replayed ==
    \A e \in Entities :
        (upc[e] = "live" \/ (upc[e] = "sendD" /\ target[e] # link))
            => (e \in router \/ ~up \/ Pending(e))

\* What remains of an entity that was taken out of its registry by Drop.
GhostsRaced ==
    \A e \in Entities :
        /\ upc[e] \in {"lookupU", "sendU", "dropped"} /\ e \in plan => e \in raced
        /\ (upc[e] = "dropped" \/ (upc[e] = "sendU" /\ target[e] # link))
               /\ e \in router => e \in raced

IndInv == /\ OtherTypes /\ TargetsAreLinks /\ Registered /\ PlanOnlyInReplay
          /\ InstalledByLoop /\ DownMeansForgotten /\ FreshLinkUnused
          /\ Replayed /\ GhostsRaced

-----------------------------------------------------------------------------
\* A session starts with one link, empty registries and nothing declared.
LEMMA InitIndInv == Init => IndInv
  BY ReplayAssumption
  DEF IndInv, OtherTypes, TargetsAreLinks, Registered, PlanOnlyInReplay,
        InstalledByLoop, DownMeansForgotten, FreshLinkUnused, Pending, Replayed,
        GhostsRaced, LoopPcs, UserPcs, Init

\* The loss of the link preserves the invariant.
LEMMA LinkLostStep == IndInv /\ LinkLost => IndInv'
<1> SUFFICES ASSUME IndInv, LinkLost PROVE IndInv'
  OBVIOUS
<1> QED
  BY ReplayAssumption
    DEF IndInv, OtherTypes, TargetsAreLinks, Registered, PlanOnlyInReplay,
        InstalledByLoop, DownMeansForgotten, FreshLinkUnused, Pending, Replayed,
        GhostsRaced, LoopPcs, UserPcs, LinkLost, linkVars, loopVars, userVars

\* So does every step of the orchestrator.
LEMMA OrchestratorStep == IndInv /\ Orchestrator => IndInv'
<1> SUFFICES ASSUME IndInv, Orchestrator PROVE IndInv'
  OBVIOUS
<1> USE ReplayAssumption
    DEF IndInv, OtherTypes, TargetsAreLinks, Registered, PlanOnlyInReplay,
        InstalledByLoop, DownMeansForgotten, FreshLinkUnused, Pending, Replayed,
        GhostsRaced, LoopPcs, UserPcs, linkVars, loopVars, userVars
<1>1. CASE Uninstall
  BY <1>1 DEF Uninstall
<1>2. CASE Connect
  BY <1>2 DEF Connect
<1>3. CASE Install
  BY <1>3 DEF Install
<1>4. CASE Snapshot
  BY <1>4 DEF Snapshot
<1>5. ASSUME NEW e \in Entities, ReplaySend(e) PROVE IndInv'
  BY <1>5 DEF ReplaySend
<1>6. CASE ReplayDone
  BY <1>6 DEF ReplayDone
<1>7. QED
  BY <1>1, <1>2, <1>3, <1>4, <1>5, <1>6 DEF Orchestrator

\* So does every step of a user.
LEMMA UserStep == ASSUME IndInv, NEW e \in Entities, User(e) PROVE IndInv'
<1> USE ReplayAssumption
    DEF IndInv, OtherTypes, TargetsAreLinks, Registered, PlanOnlyInReplay,
        InstalledByLoop, DownMeansForgotten, FreshLinkUnused, Pending, Replayed,
        GhostsRaced, LoopPcs, UserPcs, linkVars, loopVars, userVars, Goto, Reaches, Stale
<1>1. CASE Declare(e)
  BY <1>1 DEF Declare
<1>2. CASE LookupDeclare(e)
  BY <1>2 DEF LookupDeclare
<1>3. CASE SendDeclare(e)
  BY <1>3 DEF SendDeclare
<1>4. CASE UndoDeclare(e)
  BY <1>4 DEF UndoDeclare
<1>5. CASE Drop(e)
  BY <1>5 DEF Drop
<1>6. CASE LookupUndeclare(e)
  BY <1>6 DEF LookupUndeclare
<1>7. CASE SendUndeclare(e)
  BY <1>7 DEF SendUndeclare
<1>8. QED
  BY <1>1, <1>2, <1>3, <1>4, <1>5, <1>6, <1>7 DEF User

\* And a stuttering step.
LEMMA StutterStep == IndInv /\ UNCHANGED vars => IndInv'
  BY
    DEF IndInv, OtherTypes, TargetsAreLinks, Registered, PlanOnlyInReplay,
        InstalledByLoop, DownMeansForgotten, FreshLinkUnused, Pending, Replayed,
        GhostsRaced, LoopPcs, UserPcs, vars, linkVars, loopVars, userVars

\* The invariant holds in every reachable state, whatever links come and go.
THEOREM Invariance == Spec => []IndInv
<1>1. IndInv /\ [Next]_vars => IndInv'
  BY LinkLostStep, OrchestratorStep, UserStep, StutterStep DEF Next
<1>2. QED
  BY InitIndInv, <1>1, PTL DEF Spec

-----------------------------------------------------------------------------
\* Every variable of the replay keeps its type.
THEOREM TypeCorrect == Spec => []TypeOK
<1>1. Init => FlagTypes
  BY DEF Init, FlagTypes
<1>2. FlagTypes /\ [Next]_vars => FlagTypes'
  BY DEF FlagTypes, Next, LinkLost, Orchestrator, Uninstall, Connect, Install,
         Snapshot, ReplaySend, ReplayDone, User, Declare, LookupDeclare,
         SendDeclare, UndoDeclare, Drop, LookupUndeclare, SendUndeclare, vars,
         linkVars
<1>3. IndInv /\ FlagTypes => TypeOK
  BY DEF IndInv, TypeOK
<1>4. QED
  BY Invariance, <1>1, <1>2, <1>3, PTL DEF Spec

\* No successful declaration is lost, however declarations, drops, link losses
\* and replays interleave.
THEOREM NoLostDeclarationHolds == Spec => []NoLostDeclaration
<1>1. IndInv => NoLostDeclaration
  BY DEF IndInv, Replayed, Pending, PlanOnlyInReplay, Settled, NoLostDeclaration
<1>2. QED
  BY Invariance, <1>1, PTL

\* The only way a dropped entity stays declared at the router is a Drop that
\* falls between the snapshot of its registry and its replay.
THEOREM GhostOnlyByRaceHolds == Spec => []GhostOnlyByRace
<1>1. IndInv => GhostOnlyByRace
  BY DEF IndInv, GhostsRaced, GhostOnlyByRace
<1>2. QED
  BY Invariance, <1>1, PTL

-----------------------------------------------------------------------------
(* Matching: listeners.                                                    *)

\* Where the publisher's user is decides whether it is published and has an
\* entry; listeners are attached to an entry, and hooks are left when it is gone.
EntryInv ==
    /\ published <=> ppc \in {"register", "send", "live", "undo"}
    /\ entry <=> ppc \in {"send", "live", "undo", "unregister", "unregisterOnly"}
    /\ attached \subseteq Listeners /\ hooks \subseteq Listeners
    /\ attached # {} => entry
    /\ hooks # {} => ppc \in {"final", "gone"}

\* Who may be about to close the handler of l, and whether it has been closed.
HandlerOf(l) ==
    /\ lpc[l] \in {"new", "attached", "remove", "close", "gone"}
    /\ l \in attached => lpc[l] \in {"attached", "remove"}
    /\ l \in attached \/ l \in hooks => lpc[l] # "new" /\ (lpc[l] = "attached" \/ detached[l])
    /\ lpc[l] = "new" => ~detached[l] /\ closes[l] = 0
    /\ lpc[l] = "attached" => IF l \in attached \/ l \in hooks
                              THEN ~detached[l] /\ closes[l] = 0
                              ELSE detached[l] /\ closes[l] = 1
    /\ lpc[l] \in {"remove", "close"} => detached[l] /\ closes[l] = 0
    /\ lpc[l] = "gone" => closes[l] = 1

HandlersInv ==
    /\ lpc = [l \in Listeners |-> lpc[l]] /\ detached \in [Listeners -> BOOLEAN]
    /\ closes \in [Listeners -> Nat] /\ ~late
    /\ \A l \in Listeners : HandlerOf(l)

ListenersInv == EntryInv /\ HandlersInv /\ ListenersCurrent

\* At the start there is neither entry nor listener.
LEMMA InitListeners == MatchingInit => ListenersInv
BY DEF MatchingInit, ListenersInv, EntryInv, HandlersInv, HandlerOf, ListenersCurrent

\* What is delivered reaches attached listeners, whose handlers are open.
LEMMA DeliverOpen ==
    ASSUME ListenersInv, NEW status, Deliver(attached, status)
    PROVE  ~late' /\ \A l \in attached : last'[l] = status
<1>1. attached \subseteq Listeners /\ ~late
  BY DEF ListenersInv, EntryInv, HandlersInv
<1>2. ASSUME NEW l \in attached PROVE closes[l] = 0
  BY <1>1 DEF ListenersInv, HandlersInv, HandlerOf
<1>3. ~\E l \in attached : closes[l] > 0
  BY <1>2
<1>4. ~late'
  BY <1>1, <1>3 DEF Deliver
<1>5. \A l \in attached : last'[l] = status
  BY <1>1 DEF Deliver
<1> QED BY <1>4, <1>5

\* The reader's step.
LEMMA ReceiveListeners ==
    ASSUME ListenersInv, Receive
    PROVE  ListenersInv'
<1>1. UNCHANGED <<ppc, published, entry, attached, hooks, lpc, detached, closes>>
  BY DEF Receive, publisherVars, handlerVars
<1>2. EntryInv'
  BY <1>1 DEF ListenersInv, EntryInv
<1>3. ASSUME NEW decls, Apply(decls) PROVE ~late' /\ ListenersCurrent'
  <2>1. CASE initialDone /\ StatusOf(decls) # StatusOf(declarations)
    <3>1. Deliver(attached, StatusOf(decls)) /\ declarations' = decls
      BY <1>3, <2>1 DEF Apply
    <3> QED BY <1>1, <3>1, DeliverOpen DEF ListenersCurrent
  <2>2. CASE ~(initialDone /\ StatusOf(decls) # StatusOf(declarations))
    <3>1. UNCHANGED <<last, late, initialDone>> /\ declarations' = decls
      BY <1>3, <2>2 DEF Apply, NoDelivery
    <3> QED BY <1>1, <2>2, <3>1 DEF ListenersInv, HandlersInv, ListenersCurrent
  <2> QED BY <2>1, <2>2
<1>4. ASSUME entry, Head(chan).type = "Final" PROVE ~late' /\ ListenersCurrent'
  <2>1. SnapshotDone
    BY <1>4 DEF Receive
  <2>2. CASE initialDone
    BY <1>1, <2>1, <2>2 DEF SnapshotDone, NoDelivery, ListenersInv, HandlersInv, ListenersCurrent
  <2>3. CASE ~initialDone
    <3>1. Deliver(attached, StatusOf(declarations)) /\ UNCHANGED declarations
      BY <2>1, <2>3 DEF SnapshotDone
    <3> QED BY <1>1, <3>1, DeliverOpen DEF ListenersCurrent
  <2> QED BY <2>2, <2>3
<1>5. ASSUME entry, Head(chan).type # "Final" PROVE ~late' /\ ListenersCurrent'
  <2>1. ApplyDelta(Head(chan))
    BY <1>5 DEF Receive
  <2> QED BY <1>3, <2>1 DEF ApplyDelta
<1>6. ASSUME ~entry PROVE ~late' /\ ListenersCurrent'
  BY <1>1, <1>6 DEF Receive, statusVars, noticeVars, ListenersInv, HandlersInv, ListenersCurrent
<1>7. ~late' /\ ListenersCurrent'
  BY <1>4, <1>5, <1>6
<1>8. HandlersInv'
  BY <1>1, <1>7 DEF ListenersInv, HandlersInv, HandlerOf
<1> QED BY <1>2, <1>7, <1>8 DEF ListenersInv

\* The steps of the publisher's user: the entry comes and goes, and what is
\* attached when it goes is left to the hooks.
LEMMA PublisherListeners ==
    ASSUME ListenersInv, Publisher
    PROVE  ListenersInv'
<1>1. UNCHANGED <<lpc, detached, closes, last, late>>
  BY DEF Publisher, DeclarePublisher, RegisterMatching, SendInterest, Unpublish,
         UnregisterMatching, SendInterestFinal, PubUnchanged, handlerVars, noticeVars
<1>2. CASE UnregisterMatching
  <2>1. /\ ppc \in {"unregister", "unregisterOnly"} /\ ppc' \in {"final", "gone"}
        /\ entry' = FALSE /\ initialDone' = FALSE /\ hooks' = attached /\ attached' = {}
        /\ UNCHANGED published
    BY <1>2 DEF UnregisterMatching, PubGoto
  <2>2. hooks = {}
    BY <2>1 DEF ListenersInv, EntryInv
  <2>3. EntryInv'
    BY <2>1 DEF ListenersInv, EntryInv
  <2>4. ASSUME NEW l \in Listeners PROVE HandlerOf(l)'
    <3>1. HandlerOf(l) /\ (l \in attached' \/ l \in hooks' <=> l \in attached \/ l \in hooks) /\ l \notin attached'
      BY <2>1, <2>2 DEF ListenersInv, HandlersInv
    <3> QED BY <1>1, <3>1 DEF HandlerOf
  <2>5. HandlersInv'
    BY <1>1, <2>4 DEF ListenersInv, HandlersInv
  <2>6. ListenersCurrent'
    BY <2>1 DEF ListenersCurrent
  <2> QED BY <2>3, <2>5, <2>6 DEF ListenersInv
<1>3. CASE ~UnregisterMatching
  <2>1. /\ UNCHANGED <<attached, hooks>>
        /\ initialDone' = FALSE \/ UNCHANGED <<initialDone, declarations>>
    BY <1>3 DEF Publisher, DeclarePublisher, RegisterMatching, SendInterest, Unpublish,
                SendInterestFinal, statusVars
  <2>2. EntryInv'
    <3>1. CASE DeclarePublisher
      BY <2>1, <3>1 DEF DeclarePublisher, PubGoto, ListenersInv, EntryInv
    <3>2. CASE RegisterMatching
      BY <2>1, <3>2 DEF RegisterMatching, PubGoto, ListenersInv, EntryInv
    <3>3. CASE SendInterest
      BY <2>1, <3>3 DEF SendInterest, PubGoto, ListenersInv, EntryInv
    <3>4. CASE Unpublish
      BY <2>1, <3>4 DEF Unpublish, PubGoto, ListenersInv, EntryInv
    <3>5. CASE SendInterestFinal
      BY <2>1, <3>5 DEF SendInterestFinal, PubGoto, ListenersInv, EntryInv
    <3> QED BY <1>3, <3>1, <3>2, <3>3, <3>4, <3>5 DEF Publisher
  <2>3. HandlersInv'
    BY <1>1, <2>1 DEF ListenersInv, HandlersInv, HandlerOf
  <2>4. ListenersCurrent'
    BY <1>1, <2>1 DEF ListenersInv, ListenersCurrent
  <2> QED BY <2>2, <2>3, <2>4 DEF ListenersInv
<1> QED BY <1>2, <1>3

\* The steps of a listener: whoever wins the CAS on detached closes the handler,
\* after the listener has left the entry.
LEMMA ListenerListeners ==
    ASSUME ListenersInv, NEW l \in Listeners, Listener(l)
    PROVE  ListenersInv'
<1>1. UNCHANGED <<ppc, published, entry, initialDone, declarations>>
  BY DEF Listener, Attach, DetachBegin, DetachRemove, DetachClose, EntryRemoved, ListUnchanged,
         publisherVars, statusVars
<1>2. /\ lpc = [k \in Listeners |-> lpc[k]] /\ detached \in [Listeners -> BOOLEAN]
      /\ closes \in [Listeners -> Nat] /\ ~late /\ EntryInv /\ ListenersCurrent
      /\ \A k \in Listeners : HandlerOf(k)
  BY DEF ListenersInv, HandlersInv
<1>3. HandlerOf(l)
  BY <1>2
\* What suffices: the others are as they were.
<1>4. ASSUME /\ lpc' = [lpc EXCEPT ![l] = lpc'[l]] /\ detached' = [detached EXCEPT ![l] = detached'[l]]
             /\ closes' = [closes EXCEPT ![l] = closes'[l]]
             /\ detached'[l] \in BOOLEAN /\ closes'[l] \in Nat /\ ~late'
             /\ \A k \in Listeners : k # l => /\ k \in attached' <=> k \in attached
                                              /\ k \in hooks' <=> k \in hooks
             /\ HandlerOf(l)'
      PROVE  HandlersInv'
  <2>1. ASSUME NEW k \in Listeners, k # l PROVE HandlerOf(k)'
    <3>1. /\ lpc'[k] = lpc[k] /\ detached'[k] = detached[k] /\ closes'[k] = closes[k]
          /\ k \in attached' <=> k \in attached /\ HandlerOf(k)
      BY <1>2, <1>4, <2>1
    <3>2. (k \in hooks' <=> k \in hooks) /\ (k \in attached' <=> k \in attached)
      BY <1>4, <2>1
    <3>3. HandlerOf(k)
      BY <1>2
    <3> QED BY <3>1, <3>2, <3>3 DEF HandlerOf
  <2>2. /\ lpc' = [k \in Listeners |-> lpc'[k]] /\ detached' \in [Listeners -> BOOLEAN]
        /\ closes' \in [Listeners -> Nat]
    BY <1>2, <1>4
  <2> QED BY <1>4, <2>1, <2>2 DEF HandlersInv
<1>5. CASE Attach(l)
  <2>1. CASE entry
    <3>1. /\ lpc[l] = "new" /\ lpc' = [lpc EXCEPT ![l] = "attached"] /\ attached' = attached \cup {l}
          /\ IF initialDone THEN Deliver({l}, StatusOf(declarations)) ELSE UNCHANGED <<last, late>>
          /\ UNCHANGED <<closes, detached, hooks>>
      BY <1>5, <2>1 DEF Attach, ListGoto, NoDelivery
    <3>2. closes[l] = 0 /\ ~detached[l]
      BY <1>3, <3>1 DEF HandlerOf
    <3>3. ~late' /\ ListenersCurrent'
      <4>1. CASE initialDone
        <5>1. Deliver({l}, StatusOf(declarations))
          BY <3>1, <4>1
        <5>2. /\ last'[l] = StatusOf(declarations)
              /\ \A k \in Listeners : k # l => last'[k] = last[k]
          BY <5>1 DEF Deliver
        <5>3. ~\E k \in {l} : closes[k] > 0
          BY <3>2
        <5>4. ~late'
          BY <1>2, <5>1, <5>3 DEF Deliver
        <5>5. ListenersCurrent'
          BY <1>1, <1>2, <3>1, <5>2 DEF ListenersCurrent, EntryInv
        <5> QED BY <5>4, <5>5
      <4>2. CASE ~initialDone
        BY <1>1, <1>2, <3>1, <4>2 DEF ListenersCurrent
      <4> QED BY <4>1, <4>2
    <3>4. HandlerOf(l)' /\ lpc'[l] = "attached"
      BY <1>2, <1>3, <3>1, <3>2 DEF HandlerOf
    <3>5. HandlersInv'
      BY <1>2, <1>4, <3>1, <3>3, <3>4
    <3>6. EntryInv'
      BY <1>1, <1>2, <2>1, <3>1 DEF EntryInv
    <3> QED BY <3>3, <3>5, <3>6 DEF ListenersInv
  <2>2. CASE ~entry
    <3>1. /\ lpc[l] = "new" /\ lpc' = [lpc EXCEPT ![l] = "gone"]
          /\ closes' = [closes EXCEPT ![l] = @ + 1]
          /\ UNCHANGED <<attached, detached, hooks, last, late>>
      BY <1>5, <2>2 DEF Attach, ListGoto, NoDelivery, CloseHandler
    <3>2. closes[l] = 0 /\ l \notin attached /\ l \notin hooks
      BY <1>3, <3>1 DEF HandlerOf
    <3>3. lpc'[l] = "gone" /\ closes'[l] = 1
      BY <1>2, <3>1, <3>2
    <3>4. HandlerOf(l)'
      BY <3>1, <3>2, <3>3 DEF HandlerOf
    <3>5. HandlersInv'
      BY <1>2, <1>4, <3>1, <3>3, <3>4
    <3>6. EntryInv' /\ ListenersCurrent'
      BY <1>1, <1>2, <3>1 DEF EntryInv, ListenersCurrent
    <3> QED BY <3>5, <3>6 DEF ListenersInv
  <2> QED BY <2>1, <2>2
<1>6. CASE DetachBegin(l)
  <2>1. /\ lpc[l] = "attached" /\ lpc' = [lpc EXCEPT ![l] = IF detached[l] THEN "gone" ELSE "remove"]
        /\ detached' = [detached EXCEPT ![l] = TRUE] /\ UNCHANGED <<attached, closes, hooks, last, late>>
    BY <1>6 DEF DetachBegin, ListGoto, NoDelivery
  <2>2. /\ lpc'[l] = IF detached[l] THEN "gone" ELSE "remove"
        /\ detached'[l] = TRUE /\ closes'[l] = closes[l]
    BY <1>2, <2>1
  <2>3. HandlerOf(l)'
    BY <1>3, <2>1, <2>2 DEF HandlerOf
  <2>4. HandlersInv'
    BY <1>2, <1>4, <2>1, <2>2, <2>3
  <2>5. EntryInv' /\ ListenersCurrent'
    BY <1>1, <1>2, <2>1 DEF EntryInv, ListenersCurrent
  <2> QED BY <2>4, <2>5 DEF ListenersInv
<1>7. CASE DetachRemove(l)
  <2>1. /\ lpc[l] = "remove" /\ lpc' = [lpc EXCEPT ![l] = "close"] /\ attached' = attached \ {l}
        /\ UNCHANGED <<detached, closes, hooks, last, late>>
    BY <1>7 DEF DetachRemove, ListGoto, NoDelivery
  <2>2. lpc'[l] = "close" /\ l \notin attached' /\ detached'[l] = detached[l] /\ closes'[l] = closes[l]
    BY <1>2, <2>1
  <2>3. HandlerOf(l)'
    BY <1>3, <2>1, <2>2 DEF HandlerOf
  <2>4. HandlersInv'
    BY <1>2, <1>4, <2>1, <2>2, <2>3
  <2>5. EntryInv' /\ ListenersCurrent'
    BY <1>1, <1>2, <2>1 DEF EntryInv, ListenersCurrent
  <2> QED BY <2>4, <2>5 DEF ListenersInv
<1>8. CASE DetachClose(l)
  <2>1. /\ lpc[l] = "close" /\ lpc' = [lpc EXCEPT ![l] = "gone"]
        /\ closes' = [closes EXCEPT ![l] = @ + 1]
        /\ UNCHANGED <<detached, attached, hooks, last, late>>
    BY <1>8 DEF DetachClose, ListGoto, NoDelivery, CloseHandler
  <2>2. closes[l] = 0 /\ detached[l] /\ l \notin attached
    BY <1>3, <2>1 DEF HandlerOf
  <2>3. lpc'[l] = "gone" /\ closes'[l] = 1 /\ detached'[l] = detached[l]
    BY <1>2, <2>1, <2>2
  <2>4. HandlerOf(l)'
    BY <2>1, <2>2, <2>3 DEF HandlerOf
  <2>5. HandlersInv'
    BY <1>2, <1>4, <2>1, <2>3, <2>4
  <2>6. EntryInv' /\ ListenersCurrent'
    BY <1>1, <1>2, <2>1 DEF EntryInv, ListenersCurrent
  <2> QED BY <2>5, <2>6 DEF ListenersInv
<1>9. CASE EntryRemoved(l)
  <2>1. l \in hooks /\ hooks' = hooks \ {l} /\ UNCHANGED <<lpc, attached, last, late>>
    BY <1>9 DEF EntryRemoved, NoDelivery
  <2>2. l \notin attached
    BY <1>2, <2>1 DEF EntryInv
  <2>3. CASE ~detached[l]
    <3>1. closes' = [closes EXCEPT ![l] = @ + 1] /\ detached' = [detached EXCEPT ![l] = TRUE]
      BY <1>9, <2>3 DEF EntryRemoved, CloseHandler
    <3>2. lpc[l] = "attached" /\ closes[l] = 0
      BY <1>3, <2>1, <2>3 DEF HandlerOf
    <3>3. closes'[l] = 1 /\ detached'[l] = TRUE
      BY <1>2, <3>1, <3>2
    <3>4. HandlerOf(l)'
      BY <2>1, <2>2, <3>2, <3>3 DEF HandlerOf
    <3> QED BY <1>2, <1>4, <2>1, <3>1, <3>3, <3>4, <1>1 DEF EntryInv, ListenersCurrent, ListenersInv
  <2>4. CASE detached[l]
    <3>1. UNCHANGED <<closes, detached>>
      BY <1>9, <2>4 DEF EntryRemoved
    <3>2. HandlerOf(l)'
      BY <1>3, <2>1, <2>2, <2>4, <3>1 DEF HandlerOf
    <3>3. HandlersInv'
      BY <1>2, <1>4, <2>1, <3>1, <3>2
    <3>4. EntryInv' /\ ListenersCurrent'
      BY <1>1, <1>2, <2>1 DEF EntryInv, ListenersCurrent
    <3> QED BY <3>3, <3>4 DEF ListenersInv
  <2> QED BY <2>3, <2>4
<1> QED BY <1>5, <1>6, <1>7, <1>8, <1>9 DEF Listener

\* Every step keeps listeners current and handlers open as long as they may hear.
LEMMA NextListeners ==
    ASSUME ListenersInv, [MatchingNext]_matchingVars
    PROVE  ListenersInv'
<1>1. CASE Receive
  BY <1>1, ReceiveListeners
<1>2. CASE Publisher
  BY <1>2, PublisherListeners
<1>3. CASE \E l \in Listeners : Listener(l)
  BY <1>3, ListenerListeners
<1>4. CASE (\E k \in Keys : RemoteChange(k)) \/ LinkDrops \/ ReconnectLoop \/ UNCHANGED matchingVars
  <2>1. /\ UNCHANGED <<ppc, published, entry, attached, hooks, lpc, detached, closes, last, late>>
        /\ initialDone' = FALSE \/ UNCHANGED <<initialDone, declarations>>
    BY <1>4 DEF RemoteChange, LinkDrops, ReconnectLoop, UninstallRuntime, InstallRuntime,
                ResetMatching, PlanReplay, SendReplay, LoopUnchanged, matchingVars, publisherVars,
                handlerVars, noticeVars, statusVars
  <2>2. EntryInv'
    BY <2>1 DEF ListenersInv, EntryInv
  <2>3. HandlersInv'
    BY <2>1 DEF ListenersInv, HandlersInv, HandlerOf
  <2>4. ListenersCurrent'
    BY <2>1 DEF ListenersInv, ListenersCurrent
  <2> QED BY <2>2, <2>3, <2>4 DEF ListenersInv
<1> QED BY <1>1, <1>2, <1>3, <1>4 DEF MatchingNext

\* After the snapshot, the last status an attached listener received is the
\* current one, however deltas, snapshots, resets and attaches interleave
\* (applyMatchingDelta, onMatchingSnapshotDone, AttachMatchingListener).
THEOREM ListenersStayCurrent == MatchingSpec => []ListenersCurrent
<1>1. ListenersInv => ListenersCurrent
  BY DEF ListenersInv
<1> QED BY <1>1, InitListeners, NextListeners, PTL DEF MatchingSpec

\* A handler is closed once, by the Drop of its listener or by the end of its
\* publisher whichever comes first, hears nothing afterwards, and is closed when
\* the publisher is gone (MatchingListener.detach, UnregisterMatching).
THEOREM HandlersAlwaysEndWell == MatchingSpec => []HandlersEndWell
<1>1. ListenersInv => HandlersEndWell
  <2> SUFFICES ASSUME ListenersInv PROVE HandlersEndWell
    OBVIOUS
  <2>1. NoLateDelivery
    BY DEF ListenersInv, HandlersInv, NoLateDelivery
  <2>2. ASSUME NEW l \in Listeners PROVE closes[l] <= 1
    BY DEF ListenersInv, HandlersInv, HandlerOf
  <2>3. HandlersClosed
    BY DEF ListenersInv, EntryInv, HandlersInv, HandlerOf, HandlersClosed
  <2> QED BY <2>1, <2>2, <2>3 DEF HandlersEndWell
<1> QED BY <1>1, InitListeners, NextListeners, PTL DEF MatchingSpec

-----------------------------------------------------------------------------
(* Matching: the status converges.                                         *)

Msgs == [type : {"D", "U"}, key : Keys] \cup [type : {"Final"}]

\* Message m declares, or undeclares, k.
Adds(m, k) == m.type = "D" /\ m.key = k
Takes(m, k) == m.type = "U" /\ m.key = k

NoneTakes(q, k) == \A i \in 1..Len(q) : ~Takes(q[i], k)

\* The last word of the messages q about k is that it is declared.
LeavesIn(q, k) ==
    \E i \in 1..Len(q) : Adds(q[i], k) /\ \A j \in 1..Len(q) : j > i => ~Takes(q[j], k)

\* An entry with the declarations decls has k once it has read the messages q.
Settles(q, decls, k) == LeavesIn(q, k) \/ (k \in decls /\ NoneTakes(q, k))

FinalIn(q) == \E i \in 1..Len(q) : q[i].type = "Final"

\* One more message has the last word on its key.
LEMMA SettlesAppend ==
    ASSUME NEW q \in Seq(Msgs), NEW m \in Msgs, NEW decls, NEW k
    PROVE  /\ Append(q, m) \in Seq(Msgs)
           /\ FinalIn(q) => FinalIn(Append(q, m))
           /\ LeavesIn(Append(q, m), k) <=> Adds(m, k) \/ (LeavesIn(q, k) /\ ~Takes(m, k))
           /\ Settles(Append(q, m), decls, k) <=>
                  Adds(m, k) \/ (Settles(q, decls, k) /\ ~Takes(m, k))
<1>1. PICK n \in Nat : n = Len(q)
  BY LenProperties
<1>2. PICK p : p = Append(q, m)
  OBVIOUS
<1>3. /\ p \in Seq(Msgs) /\ Len(p) = n + 1 /\ p[n + 1] = m /\ \A i \in 1..n : p[i] = q[i]
  <2> HIDE DEF Msgs
  <2> QED BY <1>1, <1>2, AppendProperties
<1>4. ~(Adds(m, k) /\ Takes(m, k))
  BY DEF Adds, Takes
<1>5. FinalIn(q) => FinalIn(p)
  BY <1>1, <1>3 DEF FinalIn
<1>6. LeavesIn(p, k) => Adds(m, k) \/ (LeavesIn(q, k) /\ ~Takes(m, k))
  <2> SUFFICES ASSUME LeavesIn(p, k), ~Adds(m, k) PROVE LeavesIn(q, k) /\ ~Takes(m, k)
    OBVIOUS
  <2>1. PICK i \in 1..(n + 1) : Adds(p[i], k) /\ \A j \in 1..(n + 1) : j > i => ~Takes(p[j], k)
    BY <1>3 DEF LeavesIn
  <2>2. i # n + 1
    BY <1>3, <2>1
  <2>3. i \in 1..n /\ n + 1 > i /\ n + 1 \in 1..(n + 1)
    BY <2>1, <2>2
  <2>4. ~Takes(m, k)
    BY <1>3, <2>1, <2>3
  <2>5. Adds(q[i], k) /\ \A j \in 1..n : j > i => ~Takes(q[j], k)
    BY <1>3, <2>1, <2>3
  <2> QED BY <1>1, <2>3, <2>4, <2>5 DEF LeavesIn
<1>7. Adds(m, k) => LeavesIn(p, k)
  <2>1. n + 1 \in 1..(n + 1) /\ \A j \in 1..(n + 1) : ~(j > n + 1)
    OBVIOUS
  <2> QED BY <1>3, <2>1 DEF LeavesIn
<1>8. LeavesIn(q, k) /\ ~Takes(m, k) => LeavesIn(p, k)
  <2> SUFFICES ASSUME LeavesIn(q, k), ~Takes(m, k) PROVE LeavesIn(p, k)
    OBVIOUS
  <2>1. PICK i \in 1..n : Adds(q[i], k) /\ \A j \in 1..n : j > i => ~Takes(q[j], k)
    BY <1>1 DEF LeavesIn
  <2>2. ASSUME NEW j \in 1..(n + 1), j > i PROVE ~Takes(p[j], k)
    <3>1. CASE j = n + 1
      BY <1>3, <3>1
    <3>2. CASE j # n + 1
      BY <1>3, <2>1, <2>2, <3>2
    <3> QED BY <3>1, <3>2
  <2>3. i \in 1..(n + 1) /\ Adds(p[i], k)
    BY <1>3, <2>1
  <2> QED BY <1>3, <2>2, <2>3 DEF LeavesIn
<1>9. NoneTakes(p, k) <=> NoneTakes(q, k) /\ ~Takes(m, k)
  <2>1. ASSUME NoneTakes(p, k) PROVE NoneTakes(q, k) /\ ~Takes(m, k)
    <3>1. \A i \in 1..(n + 1) : ~Takes(p[i], k)
      BY <1>3, <2>1 DEF NoneTakes
    <3>2. ~Takes(m, k)
      BY <1>3, <3>1
    <3>3. \A i \in 1..n : ~Takes(q[i], k)
      BY <1>3, <3>1
    <3> QED BY <1>1, <3>2, <3>3 DEF NoneTakes
  <2>2. ASSUME NoneTakes(q, k), ~Takes(m, k) PROVE NoneTakes(p, k)
    <3>1. ASSUME NEW i \in 1..(n + 1) PROVE ~Takes(p[i], k)
      BY <1>1, <1>3, <2>2 DEF NoneTakes
    <3> QED BY <1>3, <3>1 DEF NoneTakes
  <2> QED BY <2>1, <2>2
<1>10. Settles(p, decls, k) <=> Adds(m, k) \/ (Settles(q, decls, k) /\ ~Takes(m, k))
  BY <1>4, <1>6, <1>7, <1>8, <1>9 DEF Settles
<1> QED BY <1>2, <1>3, <1>4, <1>5, <1>6, <1>7, <1>8, <1>10

\* Reading the next message changes what is declared, not what it will be.
LEMMA SettlesTail ==
    ASSUME NEW q \in Seq(Msgs), q # <<>>, NEW decls, NEW k
    PROVE  /\ Tail(q) \in Seq(Msgs) /\ Head(q) \in Msgs
           /\ FinalIn(q) => Head(q).type = "Final" \/ FinalIn(Tail(q))
           /\ LeavesIn(Tail(q), k) => LeavesIn(q, k)
           /\ Adds(Head(q), k) => (Settles(q, decls, k) <=> Settles(Tail(q), decls \cup {k}, k))
           /\ Takes(Head(q), k) => (Settles(q, decls, k) <=> Settles(Tail(q), decls \ {k}, k))
           /\ ~Adds(Head(q), k) /\ ~Takes(Head(q), k) =>
                  (Settles(q, decls, k) <=> Settles(Tail(q), decls, k))
<1>1. PICK p, m : p = Tail(q) /\ m = Head(q)
  OBVIOUS
<1>2. /\ p \in Seq(Msgs) /\ m \in Msgs /\ Len(p) = Len(q) - 1 /\ m = q[1]
      /\ \A i \in 1..(Len(q) - 1) : p[i] = q[i + 1] /\ Len(q) \in Nat \ {0}
      /\ Len(q) \in Nat \ {0}
  <2> HIDE DEF Msgs
  <2> QED BY <1>1, HeadTailProperties, EmptySeq, LenProperties
<1>3. PICK n \in Nat : Len(q) = n + 1
  <2>1. Len(q) - 1 \in Nat /\ Len(q) = (Len(q) - 1) + 1
    BY <1>2
  <2> QED BY <2>1
<1>4. /\ Len(p) = n /\ \A i \in 1..n : p[i] = q[i + 1]
      /\ \A i \in 2..(n + 1) : q[i] = p[i - 1] /\ i - 1 \in 1..n
  <2>1. Len(p) = n /\ \A i \in 1..n : p[i] = q[i + 1]
    BY <1>2, <1>3
  <2>2. ASSUME NEW i \in 2..(n + 1) PROVE q[i] = p[i - 1] /\ i - 1 \in 1..n
    <3>1. i - 1 \in 1..n /\ (i - 1) + 1 = i
      OBVIOUS
    <3> QED BY <2>1, <3>1
  <2> QED BY <2>1, <2>2
<1>5. FinalIn(q) => m.type = "Final" \/ FinalIn(p)
  <2> SUFFICES ASSUME FinalIn(q), m.type # "Final" PROVE FinalIn(p)
    OBVIOUS
  <2>1. PICK i \in 1..(n + 1) : q[i].type = "Final"
    BY <1>3 DEF FinalIn
  <2>2. i \in 2..(n + 1)
    BY <1>2, <2>1
  <2> QED BY <1>4, <2>1, <2>2 DEF FinalIn
<1>6. LeavesIn(p, k) => LeavesIn(q, k)
  <2> SUFFICES ASSUME LeavesIn(p, k) PROVE LeavesIn(q, k)
    OBVIOUS
  <2>1. PICK i \in 1..n : Adds(p[i], k) /\ \A j \in 1..n : j > i => ~Takes(p[j], k)
    BY <1>4 DEF LeavesIn
  <2>2. i + 1 \in 1..(n + 1) /\ Adds(q[i + 1], k)
    BY <1>4, <2>1
  <2>3. ASSUME NEW j \in 1..(n + 1), j > i + 1 PROVE ~Takes(q[j], k)
    <3>1. j \in 2..(n + 1) /\ j - 1 > i
      BY <2>3
    <3> QED BY <1>4, <2>1, <3>1
  <2> QED BY <1>3, <2>2, <2>3 DEF LeavesIn
<1>7. LeavesIn(q, k) => LeavesIn(p, k) \/ (Adds(m, k) /\ NoneTakes(p, k))
  <2> SUFFICES ASSUME LeavesIn(q, k), ~LeavesIn(p, k) PROVE Adds(m, k) /\ NoneTakes(p, k)
    OBVIOUS
  <2>1. PICK i \in 1..(n + 1) : Adds(q[i], k) /\ \A j \in 1..(n + 1) : j > i => ~Takes(q[j], k)
    BY <1>3 DEF LeavesIn
  <2>2. i = 1
    <3>1. ASSUME i # 1 PROVE FALSE
      <4>1. i \in 2..(n + 1) /\ i - 1 \in 1..n
        BY <3>1
      <4>2. Adds(p[i - 1], k)
        BY <1>4, <2>1, <4>1
      <4>3. ASSUME NEW j \in 1..n, j > i - 1 PROVE ~Takes(p[j], k)
        <5>1. j + 1 \in 1..(n + 1) /\ j + 1 > i
          BY <4>1, <4>3
        <5> QED BY <1>4, <2>1, <5>1
      <4> QED BY <1>4, <4>1, <4>2, <4>3 DEF LeavesIn
    <3> QED BY <3>1
  <2>3. ASSUME NEW j \in 1..n PROVE ~Takes(p[j], k)
    <3>1. j + 1 \in 1..(n + 1) /\ j + 1 > 1
      OBVIOUS
    <3> QED BY <1>4, <2>1, <2>2, <3>1
  <2> QED BY <1>2, <1>4, <2>1, <2>2, <2>3 DEF NoneTakes
<1>8. NoneTakes(q, k) <=> ~Takes(m, k) /\ NoneTakes(p, k)
  <2>1. ASSUME NoneTakes(q, k) PROVE ~Takes(m, k) /\ NoneTakes(p, k)
    <3>1. \A i \in 1..(n + 1) : ~Takes(q[i], k)
      BY <1>3, <2>1 DEF NoneTakes
    <3>2. ~Takes(m, k)
      BY <1>2, <3>1
    <3>3. ASSUME NEW i \in 1..n PROVE ~Takes(p[i], k)
      <4>1. i + 1 \in 1..(n + 1)
        OBVIOUS
      <4> QED BY <1>4, <3>1, <4>1
    <3> QED BY <1>4, <3>2, <3>3 DEF NoneTakes
  <2>2. ASSUME ~Takes(m, k), NoneTakes(p, k) PROVE NoneTakes(q, k)
    <3>1. ASSUME NEW i \in 1..(n + 1) PROVE ~Takes(q[i], k)
      <4>1. CASE i = 1
        BY <1>2, <2>2, <4>1
      <4>2. CASE i # 1
        <5>1. i \in 2..(n + 1)
          BY <4>2
        <5> QED BY <1>4, <2>2, <5>1 DEF NoneTakes
      <4> QED BY <4>1, <4>2
    <3> QED BY <1>3, <3>1 DEF NoneTakes
  <2> QED BY <2>1, <2>2
<1>9. Adds(m, k) /\ NoneTakes(p, k) => LeavesIn(q, k)
  <2> SUFFICES ASSUME Adds(m, k), NoneTakes(p, k) PROVE LeavesIn(q, k)
    OBVIOUS
  <2>1. ASSUME NEW j \in 1..(n + 1), j > 1 PROVE ~Takes(q[j], k)
    <3>1. j \in 2..(n + 1)
      BY <2>1
    <3> QED BY <1>4, <3>1 DEF NoneTakes
  <2>2. 1 \in 1..(n + 1) /\ Adds(q[1], k)
    BY <1>2
  <2> QED BY <1>3, <2>1, <2>2 DEF LeavesIn
<1>10. ~(Adds(m, k) /\ Takes(m, k))
  BY DEF Adds, Takes
<1>11. Adds(m, k) => (Settles(q, decls, k) <=> Settles(p, decls \cup {k}, k))
  BY <1>6, <1>7, <1>8, <1>9, <1>10 DEF Settles
<1>12. Takes(m, k) => (Settles(q, decls, k) <=> Settles(p, decls \ {k}, k))
  BY <1>6, <1>7, <1>8, <1>9, <1>10 DEF Settles
<1>13. ~Adds(m, k) /\ ~Takes(m, k) => (Settles(q, decls, k) <=> Settles(p, decls, k))
  BY <1>6, <1>7, <1>8 DEF Settles
<1> QED BY <1>1, <1>2, <1>5, <1>6, <1>11, <1>12, <1>13

\* An answer declares what the router has, undeclares nothing and ends in Final.
LEMMA AnswerShape ==
    ASSUME remote \subseteq Keys, IsFiniteSet(remote), NEW answer \in Answers
    PROVE  /\ answer \in Seq(Msgs) /\ FinalIn(answer)
           /\ \A k : NoneTakes(answer, k)
           /\ \A k : (\E i \in 1..Len(answer) : Adds(answer[i], k)) <=> k \in remote
<1>1. PICK n \in Nat : n = Cardinality(remote)
  BY FS_CardinalityType
<1>2. PICK order \in [1..n -> remote] :
         /\ remote = {order[i] : i \in 1..n}
         /\ answer = Append([i \in 1..n |-> [type |-> "D", key |-> order[i]]], [type |-> "Final"])
  BY <1>1 DEF Answers
<1>3. PICK s : s = [i \in 1..n |-> [type |-> "D", key |-> order[i]]]
  OBVIOUS
<1>4. PICK m : m = [type |-> "Final"]
  OBVIOUS
<1>5. m \in Msgs /\ m.type = "Final"
  BY <1>4 DEF Msgs
<1>6. ASSUME NEW i \in 1..n PROVE s[i] \in Msgs /\ s[i].type = "D" /\ s[i].key = order[i]
  <2>1. s[i] = [type |-> "D", key |-> order[i]] /\ order[i] \in Keys
    BY <1>2, <1>3
  <2> QED BY <2>1 DEF Msgs
<1>7. s \in Seq(Msgs) /\ Len(s) = n
  <2> HIDE DEF Msgs
  <2>1. s \in [1..n -> Msgs]
    BY <1>3, <1>6
  <2> QED BY <2>1, <1>1, SeqDef, LenProperties
<1>8. /\ answer \in Seq(Msgs) /\ Len(answer) = n + 1 /\ answer[n + 1] = m
      /\ \A i \in 1..n : answer[i] = s[i]
  <2> HIDE DEF Msgs
  <2>1. answer = Append(s, m)
    BY <1>2, <1>3, <1>4
  <2> QED BY <2>1, <1>5, <1>7, AppendProperties
<1>9. FinalIn(answer)
  <2>1. n + 1 \in 1..(n + 1)
    OBVIOUS
  <2> QED BY <2>1, <1>5, <1>8 DEF FinalIn
<1>10. ASSUME NEW i \in 1..(n + 1)
       PROVE  \/ answer[i].type = "Final"
              \/ i \in 1..n /\ answer[i].type = "D" /\ answer[i].key = order[i]
  <2>1. CASE i = n + 1
    <3>1. answer[i] = m
      BY <1>8, <2>1
    <3> QED BY <1>5, <3>1
  <2>2. CASE i # n + 1
    <3>1. i \in 1..n
      BY <2>2
    <3> QED BY <1>6, <1>8, <3>1
  <2> QED BY <2>1, <2>2
<1>11. \A k : NoneTakes(answer, k)
  BY <1>8, <1>10 DEF NoneTakes, Takes
<1>12. ASSUME NEW k, k \in remote PROVE \E i \in 1..Len(answer) : Adds(answer[i], k)
  <2>1. PICK i \in 1..n : order[i] = k
    BY <1>2, <1>12
  <2>2. i \in 1..(n + 1) /\ answer[i] = s[i]
    BY <1>8
  <2> QED BY <1>6, <1>8, <2>1, <2>2 DEF Adds
<1>13. ASSUME NEW k, NEW i \in 1..Len(answer), Adds(answer[i], k) PROVE k \in remote
  <2>1. i \in 1..n /\ answer[i].key = order[i] /\ answer[i].key = k
    BY <1>8, <1>10, <1>13 DEF Adds
  <2> QED BY <1>2, <2>1
<1> QED BY <1>8, <1>9, <1>11, <1>12, <1>13

\* After an answer the messages declare what the router has, and say of the rest
\* what they said before.
LEMMA SettlesAnswer ==
    ASSUME NEW q \in Seq(Msgs), remote \subseteq Keys, IsFiniteSet(remote), NEW answer \in Answers
    PROVE  /\ q \o answer \in Seq(Msgs) /\ FinalIn(q \o answer)
           /\ \A k \in remote : LeavesIn(q \o answer, k)
           /\ \A k \in Keys \ remote : LeavesIn(q \o answer, k) => LeavesIn(q, k)
           /\ \A k \in Keys \ remote : \A decls :
                  Settles(q \o answer, decls, k) => Settles(q, decls, k)
<1>1. /\ answer \in Seq(Msgs) /\ FinalIn(answer)
      /\ \A k : NoneTakes(answer, k)
      /\ \A k : (\E i \in 1..Len(answer) : Adds(answer[i], k)) <=> k \in remote
  BY AnswerShape
<1>2. PICK n \in Nat, a \in Nat : n = Len(q) /\ a = Len(answer)
  BY <1>1, LenProperties
<1>3. PICK p : p = q \o answer
  OBVIOUS
<1>4. /\ p \in Seq(Msgs) /\ Len(p) = n + a
      /\ \A i \in 1..(n + a) : p[i] = IF i <= n THEN q[i] ELSE answer[i - n]
  <2> HIDE DEF Msgs
  <2> QED BY <1>1, <1>2, <1>3, ConcatProperties
<1>5. /\ \A i \in 1..n : i \in 1..(n + a) /\ p[i] = q[i]
      /\ \A i \in 1..a : n + i \in 1..(n + a) /\ p[n + i] = answer[i]
  <2>1. ASSUME NEW i \in 1..n PROVE i \in 1..(n + a) /\ p[i] = q[i]
    BY <1>4
  <2>2. ASSUME NEW i \in 1..a PROVE n + i \in 1..(n + a) /\ p[n + i] = answer[i]
    <3>1. n + i \in 1..(n + a) /\ ~(n + i <= n) /\ (n + i) - n = i
      OBVIOUS
    <3> QED BY <1>4, <3>1
  <2> QED BY <2>1, <2>2
<1>6. ASSUME NEW k, NEW j \in 1..(n + a), Takes(p[j], k) PROVE j \in 1..n /\ Takes(q[j], k)
  <2>1. CASE j <= n
    BY <1>5, <1>6, <2>1
  <2>2. CASE ~(j <= n)
    <3>1. j - n \in 1..a /\ p[j] = answer[j - n]
      BY <1>4, <2>2
    <3> QED BY <1>1, <1>2, <1>6, <3>1 DEF NoneTakes
  <2> QED BY <2>1, <2>2
<1>7. FinalIn(p)
  <2>1. PICK i \in 1..a : answer[i].type = "Final"
    BY <1>1, <1>2 DEF FinalIn
  <2> QED BY <1>4, <1>5, <2>1 DEF FinalIn
<1>8. ASSUME NEW k \in remote PROVE LeavesIn(p, k)
  <2>1. PICK i \in 1..a : Adds(answer[i], k)
    BY <1>1, <1>2
  <2>2. n + i \in 1..(n + a) /\ Adds(p[n + i], k)
    BY <1>5, <2>1
  <2>3. ASSUME NEW j \in 1..(n + a), j > n + i PROVE ~Takes(p[j], k)
    <3>1. j \notin 1..n
      BY <2>3
    <3> QED BY <1>6, <3>1
  <2> QED BY <1>4, <2>2, <2>3 DEF LeavesIn
<1>9. ASSUME NEW k \in Keys \ remote, LeavesIn(p, k) PROVE LeavesIn(q, k)
  <2>1. PICK i \in 1..(n + a) : Adds(p[i], k) /\ \A j \in 1..(n + a) : j > i => ~Takes(p[j], k)
    BY <1>4, <1>9 DEF LeavesIn
  <2>2. i \in 1..n
    <3>1. ASSUME i \notin 1..n PROVE FALSE
      <4>1. i - n \in 1..a /\ p[i] = answer[i - n]
        BY <1>4, <3>1
      <4> QED BY <1>1, <1>2, <1>9, <2>1, <4>1
    <3> QED BY <3>1
  <2>3. Adds(q[i], k) /\ \A j \in 1..n : j > i => ~Takes(q[j], k)
    BY <1>5, <2>1, <2>2
  <2> QED BY <1>2, <2>2, <2>3 DEF LeavesIn
<1>10. ASSUME NEW k, NoneTakes(p, k) PROVE NoneTakes(q, k)
  BY <1>2, <1>4, <1>5, <1>10 DEF NoneTakes
<1>11. ASSUME NEW k \in Keys \ remote, NEW decls, Settles(p, decls, k) PROVE Settles(q, decls, k)
  BY <1>9, <1>10, <1>11 DEF Settles
<1> QED BY <1>3, <1>4, <1>7, <1>8, <1>9, <1>11

\* The orchestrator is past ResetMatching of the newest link.
ResetDone == rpc \in {"steady", "snapshot", "send"}

\* The newest link has what it needs to inform a live publisher: the replay is
\* over, or was planned before the publisher was declared.
NothingPlanned == rpc = "steady" \/ (rpc = "send" /\ ~planned)

ConvergeTypes ==
    /\ chan \in Seq(Msgs) /\ remote \subseteq Keys /\ IsFiniteSet(remote)
    /\ declarations \subseteq Keys
    /\ rpc \in {"steady", "connect", "reset", "snapshot", "send"}

\* Messages come on a live link, and to a publisher that is not gone only while
\* the router holds its INTEREST; before that its entry knows nothing.
OnlyByInterest ==
    /\ ~linkUp => ~interest /\ chan = <<>>
    /\ ppc # "gone" /\ ~interest => chan = <<>>
    /\ entry /\ linkUp /\ ResetDone /\ ~interest => declarations = {}

\* What the router has not got is undeclared in the end: by the messages alone,
\* and once the entry was reset by the entry and the messages.
NothingStale ==
    /\ ppc # "gone" => \A k \in Keys \ remote : ~LeavesIn(chan, k)
    /\ entry /\ linkUp /\ ResetDone => \A k \in Keys \ remote : ~Settles(chan, declarations, k)

\* What the router has is declared in the end, and the snapshot ends.
NothingMissed ==
    ppc = "live" /\ linkUp /\ NothingPlanned =>
        /\ interest /\ (initialDone \/ FinalIn(chan))
        /\ \A k \in remote : Settles(chan, declarations, k)

ConvergeInv == ConvergeTypes /\ OnlyByInterest /\ NothingStale /\ NothingMissed

\* At the start the router has nothing and the publisher is not declared.
LEMMA InitConverge == MatchingInit => ConvergeInv
<1> SUFFICES ASSUME MatchingInit PROVE ConvergeInv
  OBVIOUS
<1>1. /\ chan = <<>> /\ remote = {} /\ declarations = {} /\ rpc = "steady" /\ linkUp = TRUE
      /\ ppc = "new" /\ entry = FALSE /\ interest = FALSE
  BY DEF MatchingInit
<1>2. ConvergeTypes
  <2>1. chan \in Seq(Msgs)
    BY <1>1, EmptySeq
  <2> QED BY <1>1, <2>1, FS_EmptySet DEF ConvergeTypes
<1>3. OnlyByInterest /\ NothingMissed
  BY <1>1 DEF OnlyByInterest, NothingMissed
<1>4. NothingStale
  <2>1. Len(chan) = 0 /\ 1..0 = {}
    BY <1>1
  <2>2. \A k : ~LeavesIn(chan, k)
    BY <2>1 DEF LeavesIn
  <2> QED BY <1>1, <2>2 DEF NothingStale
<1> QED BY <1>2, <1>3, <1>4 DEF ConvergeInv

\* No message has the last word in an empty channel.
LEMMA SettlesEmpty ==
    ASSUME NEW decls, NEW k
    PROVE  ~LeavesIn(<<>>, k) /\ (Settles(<<>>, decls, k) <=> k \in decls) /\ ~FinalIn(<<>>)
<1>1. Len(<<>>) = 0 /\ 1..0 = {}
  OBVIOUS
<1>2. ~LeavesIn(<<>>, k) /\ NoneTakes(<<>>, k) /\ ~FinalIn(<<>>)
  BY <1>1 DEF LeavesIn, NoneTakes, FinalIn
<1> QED BY <1>2 DEF Settles

\* A remote declaration comes or goes: the router tells it while it holds the
\* INTEREST, and otherwise nothing of it is known here.
LEMMA RemoteChangeConverge ==
    ASSUME EntryInv, ConvergeInv, NEW k \in Keys, RemoteChange(k)
    PROVE  ConvergeInv'
<1>1. /\ chan \in Seq(Msgs) /\ remote \subseteq Keys /\ IsFiniteSet(remote)
      /\ declarations \subseteq Keys /\ rpc \in {"steady", "connect", "reset", "snapshot", "send"}
  BY DEF ConvergeInv, ConvergeTypes
<1>2. UNCHANGED <<interest, linkUp, rpc, planned, ppc, entry, initialDone, declarations>>
  BY DEF RemoteChange, runtimeVars, publisherVars, statusVars
<1>3. UNCHANGED ResetDone /\ UNCHANGED NothingPlanned
  BY <1>2 DEF ResetDone, NothingPlanned
<1>4. PICK m : m = [type |-> IF k \in remote THEN "U" ELSE "D", key |-> k]
  OBVIOUS
<1>5. /\ m \in Msgs
      /\ \A j : Adds(m, j) <=> (j = k /\ k \notin remote)
      /\ \A j : Takes(m, j) <=> (j = k /\ k \in remote)
  BY <1>4 DEF Msgs, Adds, Takes
<1>6. /\ remote' = IF k \in remote THEN remote \ {k} ELSE remote \cup {k}
      /\ chan' = IF interest THEN Append(chan, m) ELSE chan
  BY <1>4 DEF RemoteChange
<1>7. remote' \subseteq Keys /\ IsFiniteSet(remote')
  BY <1>1, <1>6, FS_AddElement, FS_RemoveElement
<1>8. chan' \in Seq(Msgs)
  BY <1>1, <1>5, <1>6, SettlesAppend
<1>9. ConvergeTypes'
  BY <1>1, <1>2, <1>7, <1>8 DEF ConvergeTypes
<1>10. OnlyByInterest'
  BY <1>2, <1>3, <1>6 DEF ConvergeInv, OnlyByInterest
<1>11. \A j : j \in remote' <=> IF j = k THEN k \notin remote ELSE j \in remote
  BY <1>6
<1>12. CASE interest
  <2>1. chan' = Append(chan, m)
    BY <1>6, <1>12
  <2>2. ASSUME NEW j
        PROVE  /\ FinalIn(chan) => FinalIn(chan')
               /\ LeavesIn(chan', j) <=> Adds(m, j) \/ (LeavesIn(chan, j) /\ ~Takes(m, j))
               /\ Settles(chan', declarations, j) <=>
                      Adds(m, j) \/ (Settles(chan, declarations, j) /\ ~Takes(m, j))
    BY <1>1, <1>5, <2>1, SettlesAppend
  <2>3. NothingStale'
    <3>1. ASSUME NEW j \in Keys \ remote', ppc # "gone" PROVE ~LeavesIn(chan', j)
      <4>1. (j = k /\ k \in remote) \/ (j # k /\ j \in Keys \ remote)
        BY <1>11, <3>1
      <4> QED BY <1>5, <2>2, <3>1, <4>1 DEF ConvergeInv, NothingStale
    <3>2. ASSUME NEW j \in Keys \ remote', entry /\ linkUp /\ ResetDone
          PROVE  ~Settles(chan', declarations, j)
      <4>1. (j = k /\ k \in remote) \/ (j # k /\ j \in Keys \ remote)
        BY <1>11, <3>2
      <4> QED BY <1>5, <2>2, <3>2, <4>1 DEF ConvergeInv, NothingStale
    <3> QED BY <1>2, <1>3, <3>1, <3>2 DEF NothingStale
  <2>4. NothingMissed'
    <3>1. SUFFICES ASSUME ppc = "live" /\ linkUp /\ NothingPlanned
                   PROVE  /\ interest /\ (initialDone \/ FinalIn(chan'))
                          /\ \A j \in remote' : Settles(chan', declarations, j)
      BY <1>2, <1>3 DEF NothingMissed
    <3>2. /\ interest /\ (initialDone \/ FinalIn(chan))
          /\ \A j \in remote : Settles(chan, declarations, j)
      BY <3>1 DEF ConvergeInv, NothingMissed
    <3>3. ASSUME NEW j \in remote' PROVE Settles(chan', declarations, j)
      <4>1. (j = k /\ k \notin remote) \/ (j # k /\ j \in remote)
        BY <1>11, <3>3
      <4> QED BY <1>5, <2>2, <3>2, <4>1
    <3> QED BY <2>2, <3>2, <3>3
  <2> QED BY <1>9, <1>10, <2>3, <2>4 DEF ConvergeInv
<1>13. CASE ~interest
  <2>1. chan' = chan /\ (ppc # "gone" => chan = <<>>)
        /\ (entry /\ linkUp /\ ResetDone => declarations = {})
    BY <1>6, <1>13 DEF ConvergeInv, OnlyByInterest
  <2>2. entry => ppc # "gone"
    BY DEF EntryInv
  <2>3. NothingStale'
    BY <1>2, <1>3, <2>1, <2>2, SettlesEmpty DEF NothingStale
  <2>4. NothingMissed'
    BY <1>2, <1>3, <1>13 DEF ConvergeInv, NothingMissed
  <2> QED BY <1>9, <1>10, <2>3, <2>4 DEF ConvergeInv
<1> QED BY <1>12, <1>13

\* The reader takes the next message: the entry gets closer to what it settles on.
LEMMA ReceiveConverge ==
    ASSUME EntryInv, ConvergeInv, Receive
    PROVE  ConvergeInv'
<1>1. /\ chan \in Seq(Msgs) /\ remote \subseteq Keys /\ IsFiniteSet(remote)
      /\ declarations \subseteq Keys /\ rpc \in {"steady", "connect", "reset", "snapshot", "send"}
  BY DEF ConvergeInv, ConvergeTypes
<1>2. UNCHANGED <<remote, interest, linkUp, rpc, planned, ppc, entry>> /\ chan # <<>>
  BY DEF Receive, runtimeVars, publisherVars
<1>3. UNCHANGED ResetDone /\ UNCHANGED NothingPlanned
  BY <1>2 DEF ResetDone, NothingPlanned
<1>4. PICK m, p : m = Head(chan) /\ p = Tail(chan)
  OBVIOUS
<1>5. chan' = p
  BY <1>4 DEF Receive
<1>6. /\ p \in Seq(Msgs) /\ m \in Msgs
      /\ FinalIn(chan) => m.type = "Final" \/ FinalIn(p)
      /\ \A j : LeavesIn(p, j) => LeavesIn(chan, j)
  BY <1>1, <1>2, <1>4, SettlesTail
<1>7. (m.type \in {"D", "U"} /\ m.key \in Keys) \/ m.type = "Final"
  BY <1>6 DEF Msgs
<1>8. /\ ~entry => UNCHANGED <<initialDone, declarations>>
      /\ entry /\ m.type = "Final" => initialDone' /\ UNCHANGED declarations
      /\ entry /\ m.type = "D" => declarations' = declarations \cup {m.key} /\ UNCHANGED initialDone
      /\ entry /\ m.type = "U" => declarations' = declarations \ {m.key} /\ UNCHANGED initialDone
  <2>1. ASSUME ~entry PROVE UNCHANGED <<initialDone, declarations>>
    BY <2>1 DEF Receive, statusVars
  <2>2. ASSUME entry, m.type = "Final" PROVE initialDone' /\ UNCHANGED declarations
    BY <1>4, <2>2 DEF Receive, SnapshotDone
  <2>3. ASSUME entry, m.type = "D"
        PROVE  declarations' = declarations \cup {m.key} /\ UNCHANGED initialDone
    BY <1>4, <2>3 DEF Receive, ApplyDelta, Apply
  <2>4. ASSUME entry, m.type = "U"
        PROVE  declarations' = declarations \ {m.key} /\ UNCHANGED initialDone
    BY <1>4, <2>4 DEF Receive, ApplyDelta, Apply
  <2> QED BY <2>1, <2>2, <2>3, <2>4
<1>9. declarations' \subseteq Keys
  BY <1>1, <1>7, <1>8
<1>10. ConvergeTypes'
  BY <1>1, <1>2, <1>5, <1>6, <1>9 DEF ConvergeTypes
<1>11. ppc # "gone" => interest
  BY <1>2 DEF ConvergeInv, OnlyByInterest
<1>12. linkUp /\ (entry => interest)
  BY <1>2, <1>11 DEF ConvergeInv, OnlyByInterest, EntryInv
<1>13. OnlyByInterest'
  BY <1>2, <1>3, <1>11, <1>12 DEF OnlyByInterest
<1>14. ASSUME entry, NEW j \in Keys
       PROVE  Settles(chan', declarations', j) <=> Settles(chan, declarations, j)
  <2>1. /\ Adds(m, j) => (Settles(chan, declarations, j) <=> Settles(p, declarations \cup {j}, j))
        /\ Takes(m, j) => (Settles(chan, declarations, j) <=> Settles(p, declarations \ {j}, j))
        /\ ~Adds(m, j) /\ ~Takes(m, j) =>
               (Settles(chan, declarations, j) <=> Settles(p, declarations, j))
    BY <1>1, <1>2, <1>4, SettlesTail
  <2>2. CASE Adds(m, j)
    BY <1>5, <1>8, <1>14, <2>1, <2>2 DEF Adds
  <2>3. CASE Takes(m, j)
    BY <1>5, <1>8, <1>14, <2>1, <2>3 DEF Takes
  <2>4. CASE ~Adds(m, j) /\ ~Takes(m, j)
    <3>1. j \in declarations' <=> j \in declarations
      BY <1>7, <1>8, <1>14, <2>4 DEF Adds, Takes
    <3>2. Settles(p, declarations', j) <=> Settles(p, declarations, j)
      BY <3>1 DEF Settles
    <3> QED BY <1>5, <2>1, <2>4, <3>2
  <2> QED BY <2>2, <2>3, <2>4
<1>15. NothingStale'
  BY <1>2, <1>3, <1>5, <1>6, <1>14 DEF ConvergeInv, NothingStale
<1>16. NothingMissed'
  <2>1. SUFFICES ASSUME ppc = "live" /\ linkUp /\ NothingPlanned
                 PROVE  /\ interest /\ (initialDone' \/ FinalIn(chan'))
                        /\ \A j \in remote : Settles(chan', declarations', j)
    BY <1>2, <1>3 DEF NothingMissed
  <2>2. /\ interest /\ (initialDone \/ FinalIn(chan))
        /\ \A j \in remote : Settles(chan, declarations, j)
    BY <2>1 DEF ConvergeInv, NothingMissed
  <2>3. entry
    BY <2>1 DEF EntryInv
  <2>4. initialDone' \/ FinalIn(chan')
    BY <1>5, <1>6, <1>7, <1>8, <2>2, <2>3
  <2> QED BY <1>1, <1>14, <2>2, <2>3, <2>4
<1> QED BY <1>10, <1>13, <1>15, <1>16 DEF ConvergeInv

\* What the router does with an INTEREST.
LEMMA InterestInforms ==
    ASSUME ConvergeTypes, RouterInterest
    PROVE  /\ interest' /\ chan' \in Seq(Msgs) /\ FinalIn(chan') /\ UNCHANGED remote
           /\ \A k \in remote : \A decls : Settles(chan', decls, k)
           /\ \A k \in Keys \ remote : LeavesIn(chan', k) => LeavesIn(chan, k)
           /\ \A k \in Keys \ remote : \A decls : Settles(chan', decls, k) => Settles(chan, decls, k)
<1>1. PICK answer \in Answers : chan' = chan \o answer
  BY DEF RouterInterest
<1>2. chan \in Seq(Msgs) /\ remote \subseteq Keys /\ IsFiniteSet(remote)
  BY DEF ConvergeTypes
<1>3. /\ chan' \in Seq(Msgs) /\ FinalIn(chan')
      /\ \A k \in remote : LeavesIn(chan', k)
      /\ \A k \in Keys \ remote : LeavesIn(chan', k) => LeavesIn(chan, k)
      /\ \A k \in Keys \ remote : \A decls : Settles(chan', decls, k) => Settles(chan, decls, k)
  BY <1>1, <1>2, SettlesAnswer
<1>4. \A k \in remote : \A decls : Settles(chan', decls, k)
  BY <1>3 DEF Settles
<1>5. interest' /\ UNCHANGED remote
  BY DEF RouterInterest
<1> QED BY <1>3, <1>4, <1>5

\* A link loss, and the orchestrator's way to the next link.
LEMMA LoopConverge ==
    ASSUME EntryInv, ConvergeInv, LinkDrops \/ ReconnectLoop
    PROVE  ConvergeInv'
<1>1. ConvergeTypes /\ OnlyByInterest /\ NothingStale /\ NothingMissed
  BY DEF ConvergeInv
<1>2. UNCHANGED <<ppc, published, entry>>
  BY DEF LinkDrops, ReconnectLoop, UninstallRuntime, InstallRuntime, ResetMatching, PlanReplay,
         SendReplay, LoopUnchanged, publisherVars
<1>3. CASE LinkDrops
  <2>1. /\ linkUp' = FALSE /\ interest' = FALSE /\ chan' = <<>>
        /\ UNCHANGED <<rpc, remote, declarations>>
    BY <1>3 DEF LinkDrops, statusVars
  <2>2. ConvergeTypes'
    BY <1>1, <2>1, EmptySeq DEF ConvergeTypes
  <2>3. OnlyByInterest' /\ NothingMissed'
    BY <2>1 DEF OnlyByInterest, NothingMissed
  <2>4. NothingStale'
    BY <2>1, SettlesEmpty DEF NothingStale
  <2> QED BY <2>2, <2>3, <2>4 DEF ConvergeInv
<1>4. CASE UninstallRuntime
  <2>1. rpc' = "connect" /\ UNCHANGED <<linkUp, remote, interest, chan, declarations>>
    BY <1>4 DEF UninstallRuntime, routerVars, statusVars
  <2>2. ~ResetDone' /\ ~NothingPlanned'
    BY <2>1 DEF ResetDone, NothingPlanned
  <2>3. ConvergeTypes'
    BY <1>1, <2>1 DEF ConvergeTypes
  <2>4. OnlyByInterest' /\ NothingMissed'
    BY <1>1, <1>2, <2>1, <2>2 DEF OnlyByInterest, NothingMissed
  <2>5. NothingStale'
    BY <1>1, <1>2, <2>1, <2>2 DEF NothingStale
  <2> QED BY <2>3, <2>4, <2>5 DEF ConvergeInv
<1>5. CASE InstallRuntime
  <2>1. rpc' = "reset" /\ linkUp' = TRUE /\ UNCHANGED <<remote, interest, chan, declarations>>
    BY <1>5 DEF InstallRuntime, routerVars, statusVars
  <2>2. ~ResetDone' /\ ~NothingPlanned'
    BY <2>1 DEF ResetDone, NothingPlanned
  <2>3. ConvergeTypes'
    BY <1>1, <2>1 DEF ConvergeTypes
  <2>4. OnlyByInterest' /\ NothingMissed'
    BY <1>1, <1>2, <2>1, <2>2 DEF OnlyByInterest, NothingMissed
  <2>5. NothingStale'
    BY <1>1, <1>2, <2>1, <2>2 DEF NothingStale
  <2> QED BY <2>3, <2>4, <2>5 DEF ConvergeInv
<1>6. CASE ResetMatching
  <2>1. rpc' = "snapshot" /\ UNCHANGED <<linkUp, remote, interest, chan>>
    BY <1>6 DEF ResetMatching, routerVars
  <2>2. (entry /\ declarations' = {}) \/ (~entry /\ UNCHANGED declarations)
    BY <1>6 DEF ResetMatching, statusVars
  <2>3. ~NothingPlanned'
    BY <2>1 DEF NothingPlanned
  <2>4. ConvergeTypes'
    BY <1>1, <2>1, <2>2 DEF ConvergeTypes
  <2>5. OnlyByInterest' /\ NothingMissed'
    BY <1>1, <1>2, <2>1, <2>2, <2>3 DEF OnlyByInterest, NothingMissed
  <2>6. NothingStale'
    <3>1. ppc' # "gone" => \A k \in Keys \ remote' : ~LeavesIn(chan', k)
      BY <1>1, <1>2, <2>1 DEF NothingStale
    <3>2. entry' => declarations' = {} /\ ppc' # "gone"
      BY <1>2, <2>2 DEF EntryInv
    <3>3. entry' => \A k \in Keys \ remote' : ~Settles(chan', declarations', k)
      BY <3>1, <3>2 DEF Settles
    <3> QED BY <3>1, <3>3 DEF NothingStale
  <2> QED BY <2>4, <2>5, <2>6 DEF ConvergeInv
<1>7. CASE PlanReplay
  <2>1. /\ rpc = "snapshot" /\ rpc' = "send" /\ planned' = published
        /\ UNCHANGED <<linkUp, remote, interest, chan, declarations>>
    BY <1>7 DEF PlanReplay, routerVars, statusVars
  <2>2. ResetDone /\ (ppc = "live" => ~NothingPlanned')
    BY <2>1 DEF ResetDone, NothingPlanned, EntryInv
  <2>3. ConvergeTypes'
    BY <1>1, <2>1 DEF ConvergeTypes
  <2>4. OnlyByInterest' /\ NothingMissed'
    BY <1>1, <1>2, <2>1, <2>2 DEF OnlyByInterest, NothingMissed
  <2>5. NothingStale'
    BY <1>1, <1>2, <2>1, <2>2 DEF NothingStale
  <2> QED BY <2>3, <2>4, <2>5 DEF ConvergeInv
<1>8. CASE SendReplay
  <2>1. /\ rpc = "send" /\ rpc' = "steady"
        /\ IF planned /\ linkUp THEN RouterInterest ELSE UNCHANGED <<remote, interest, chan>>
        /\ UNCHANGED <<linkUp, declarations, initialDone>>
    BY <1>8 DEF SendReplay, routerVars, statusVars
  <2>2. ResetDone
    BY <2>1 DEF ResetDone
  <2>3. CASE planned /\ linkUp
    <3>1. /\ interest' /\ chan' \in Seq(Msgs) /\ FinalIn(chan') /\ UNCHANGED remote
          /\ \A k \in remote : \A decls : Settles(chan', decls, k)
          /\ \A k \in Keys \ remote : LeavesIn(chan', k) => LeavesIn(chan, k)
          /\ \A k \in Keys \ remote : \A decls : Settles(chan', decls, k) => Settles(chan, decls, k)
      BY <1>1, <2>1, <2>3, InterestInforms
    <3>2. ConvergeTypes'
      BY <1>1, <2>1, <3>1 DEF ConvergeTypes
    <3>3. OnlyByInterest' /\ NothingMissed'
      BY <2>1, <2>3, <3>1 DEF OnlyByInterest, NothingMissed
    <3>4. NothingStale'
      BY <1>1, <1>2, <2>1, <2>2, <3>1 DEF NothingStale
    <3> QED BY <3>2, <3>3, <3>4 DEF ConvergeInv
  <2>4. CASE ~(planned /\ linkUp)
    <3>1. UNCHANGED <<remote, interest, chan>> /\ (linkUp => NothingPlanned)
      BY <2>1, <2>4 DEF NothingPlanned
    <3>2. ConvergeTypes'
      BY <1>1, <2>1, <3>1 DEF ConvergeTypes
    <3>3. OnlyByInterest' /\ NothingMissed'
      BY <1>1, <1>2, <2>1, <2>2, <3>1 DEF OnlyByInterest, NothingMissed
    <3>4. NothingStale'
      BY <1>1, <1>2, <2>1, <2>2, <3>1 DEF NothingStale
    <3> QED BY <3>2, <3>3, <3>4 DEF ConvergeInv
  <2> QED BY <2>3, <2>4
<1> QED BY <1>3, <1>4, <1>5, <1>6, <1>7, <1>8 DEF ReconnectLoop

\* The steps of the publisher's user.
LEMMA PublisherConverge ==
    ASSUME EntryInv, ConvergeInv, Publisher
    PROVE  ConvergeInv'
<1>1. ConvergeTypes /\ OnlyByInterest /\ NothingStale /\ NothingMissed
  BY DEF ConvergeInv
<1>2. UNCHANGED <<linkUp, rpc, planned>>
  BY DEF Publisher, DeclarePublisher, RegisterMatching, SendInterest, Unpublish,
         UnregisterMatching, SendInterestFinal, PubUnchanged, runtimeVars
<1>3. UNCHANGED ResetDone /\ UNCHANGED NothingPlanned
  BY <1>2 DEF ResetDone, NothingPlanned
<1>4. CASE DeclarePublisher \/ Unpublish
  <2>1. /\ UNCHANGED <<remote, interest, chan, entry, declarations, initialDone>>
        /\ ppc # "gone" /\ ppc' # "live"
    BY <1>4 DEF DeclarePublisher, Unpublish, PubGoto, routerVars, statusVars
  <2>2. ConvergeTypes'
    BY <1>1, <1>2, <2>1 DEF ConvergeTypes
  <2>3. OnlyByInterest' /\ NothingMissed'
    BY <1>1, <1>2, <1>3, <2>1 DEF OnlyByInterest, NothingMissed
  <2>4. NothingStale'
    BY <1>1, <1>2, <1>3, <2>1 DEF NothingStale
  <2> QED BY <2>2, <2>3, <2>4 DEF ConvergeInv
<1>5. CASE RegisterMatching \/ UnregisterMatching
  <2>1. /\ UNCHANGED <<remote, interest, chan>>
        /\ declarations' = {} /\ ppc # "gone" /\ ppc' # "live" /\ entry' \in BOOLEAN
    BY <1>5 DEF RegisterMatching, UnregisterMatching, PubGoto, routerVars
  <2>2. ConvergeTypes'
    BY <1>1, <1>2, <2>1 DEF ConvergeTypes
  <2>3. OnlyByInterest' /\ NothingMissed'
    BY <1>1, <1>2, <1>3, <2>1 DEF OnlyByInterest, NothingMissed
  <2>4. NothingStale'
    <3>1. \A k \in Keys \ remote' : ~LeavesIn(chan', k)
      BY <1>1, <2>1 DEF NothingStale
    <3>2. \A k \in Keys \ remote' : ~Settles(chan', declarations', k)
      BY <2>1, <3>1 DEF Settles
    <3> QED BY <3>1, <3>2 DEF NothingStale
  <2> QED BY <2>2, <2>3, <2>4 DEF ConvergeInv
<1>6. CASE SendInterest
  <2>1. ppc = "send" /\ UNCHANGED <<entry, declarations, initialDone>>
    BY <1>6 DEF SendInterest, PubGoto, statusVars
  <2>2. CASE Installed /\ linkUp
    <3>1. RouterInterest
      BY <1>6, <2>2 DEF SendInterest
    <3>2. /\ interest' /\ chan' \in Seq(Msgs) /\ FinalIn(chan') /\ UNCHANGED remote
          /\ \A k \in remote : \A decls : Settles(chan', decls, k)
          /\ \A k \in Keys \ remote : LeavesIn(chan', k) => LeavesIn(chan, k)
          /\ \A k \in Keys \ remote : \A decls : Settles(chan', decls, k) => Settles(chan, decls, k)
      BY <1>1, <3>1, InterestInforms
    <3>3. ConvergeTypes'
      BY <1>1, <1>2, <2>1, <3>2 DEF ConvergeTypes
    <3>4. OnlyByInterest' /\ NothingMissed'
      BY <1>2, <2>1, <2>2, <3>2 DEF OnlyByInterest, NothingMissed
    <3>5. NothingStale'
      BY <1>1, <1>2, <1>3, <2>1, <3>2 DEF NothingStale
    <3> QED BY <3>3, <3>4, <3>5 DEF ConvergeInv
  <2>3. CASE ~(Installed /\ linkUp)
    <3>1. UNCHANGED <<remote, interest, chan>>
      BY <1>6, <2>3 DEF SendInterest, routerVars
    <3>2. linkUp /\ NothingPlanned => ppc' # "live"
      <4>1. NothingPlanned => Installed
        BY DEF NothingPlanned, Installed
      <4> QED BY <2>3, <4>1
    <3>3. ConvergeTypes'
      BY <1>1, <1>2, <2>1, <3>1 DEF ConvergeTypes
    <3>4. OnlyByInterest' /\ NothingMissed'
      BY <1>1, <1>2, <1>3, <2>1, <3>1, <3>2 DEF OnlyByInterest, NothingMissed
    <3>5. NothingStale'
      BY <1>1, <1>2, <1>3, <2>1, <3>1 DEF NothingStale
    <3> QED BY <3>3, <3>4, <3>5 DEF ConvergeInv
  <2> QED BY <2>2, <2>3
<1>7. CASE SendInterestFinal
  <2>1. /\ ppc = "final" /\ ppc' = "gone" /\ (interest' => interest)
        /\ UNCHANGED <<remote, chan, entry, declarations>>
    BY <1>7 DEF SendInterestFinal, PubGoto, statusVars
  <2>2. ~entry'
    BY <2>1 DEF EntryInv
  <2>3. ConvergeTypes'
    BY <1>1, <1>2, <2>1 DEF ConvergeTypes
  <2>4. OnlyByInterest' /\ NothingMissed'
    BY <1>1, <1>2, <2>1, <2>2 DEF OnlyByInterest, NothingMissed
  <2>5. NothingStale'
    BY <2>1, <2>2 DEF NothingStale
  <2> QED BY <2>3, <2>4, <2>5 DEF ConvergeInv
<1> QED BY <1>4, <1>5, <1>6, <1>7 DEF Publisher

\* Every step keeps the status on its way to what the router has.
LEMMA NextConverge ==
    ASSUME EntryInv, ConvergeInv, [MatchingNext]_matchingVars
    PROVE  ConvergeInv'
<1>1. CASE \E k \in Keys : RemoteChange(k)
  BY <1>1, RemoteChangeConverge
<1>2. CASE Receive
  BY <1>2, ReceiveConverge
<1>3. CASE LinkDrops \/ ReconnectLoop
  BY <1>3, LoopConverge
<1>4. CASE Publisher
  BY <1>4, PublisherConverge
<1>5. CASE (\E l \in Listeners : Listener(l)) \/ UNCHANGED matchingVars
  <2>1. UNCHANGED <<linkUp, rpc, planned, remote, interest, chan, ppc, entry, initialDone, declarations>>
    BY <1>5 DEF Listener, Attach, DetachBegin, DetachRemove, DetachClose, EntryRemoved,
                ListUnchanged, matchingVars, runtimeVars, routerVars, publisherVars, statusVars
  <2> QED BY <2>1 DEF ConvergeInv, ConvergeTypes, OnlyByInterest, NothingStale, NothingMissed,
                      ResetDone, NothingPlanned
<1> QED BY <1>1, <1>2, <1>3, <1>4, <1>5 DEF MatchingNext

\* Once the link is up, the replay over and the router's messages are read, a live
\* publisher knows exactly the router's declarations, whatever order the router
\* answers in and however link losses, resets, the user's own INTEREST and the
\* replayed one overlap (ResetMatching, replayToTarget, sendPublisherInterest).
THEOREM StatusConverges == MatchingSpec => []MatchingConverges
<1>1. EntryInv /\ ConvergeInv => MatchingConverges
  <2> SUFFICES ASSUME EntryInv, ConvergeInv,
                      linkUp /\ rpc = "steady" /\ chan = <<>> /\ ppc = "live"
               PROVE  interest /\ initialDone /\ declarations = remote
    BY DEF MatchingConverges
  <2>1. entry /\ ResetDone /\ NothingPlanned
    BY DEF EntryInv, ResetDone, NothingPlanned
  <2>2. /\ interest /\ (initialDone \/ FinalIn(<<>>))
        /\ \A k \in remote : Settles(<<>>, declarations, k)
    BY <2>1 DEF ConvergeInv, NothingMissed
  <2>3. \A k \in Keys \ remote : ~Settles(<<>>, declarations, k)
    BY <2>1 DEF ConvergeInv, NothingStale
  <2>4. remote \subseteq Keys /\ declarations \subseteq Keys
    BY DEF ConvergeInv, ConvergeTypes
  <2>5. \A k : Settles(<<>>, declarations, k) <=> k \in declarations
    BY SettlesEmpty
  <2>6. declarations = remote
    BY <2>2, <2>3, <2>4, <2>5
  <2> QED BY <2>2, <2>6, SettlesEmpty
<1>2. ListenersInv => EntryInv
  BY DEF ListenersInv
<1> QED BY <1>1, <1>2, InitListeners, NextListeners, InitConverge, NextConverge, PTL DEF MatchingSpec

=============================================================================

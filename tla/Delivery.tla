------------------------------ MODULE Delivery ------------------------------
(***************************************************************************)
(* Inbound delivery: the readers that turn a remote face's DECLARE and     *)
(* PUSH messages into events, the receive-side alias and token tables they *)
(* use, the subscriber and liveliness-subscriber registries, the three     *)
(* handlers (Closure, FifoChannel, RingChannel), and the reset of the      *)
(* tables when the client reconnects.                                      *)
(*                                                                         *)
(* A key is a sequence of suffixes and an alias id stands for one; an      *)
(* event carries the key it is delivered under, its number and, as         *)
(* history, what its sender can have meant: the one key of a message, or   *)
(* the keys of the tokens alive under the id of a U_TOKEN. A channel holds *)
(* events' numbers. A face keeps to the protocol: it speaks on a link only *)
(* once the session has declared something on it, sends what that asked    *)
(* for, and uses only the ids it has declared on that link. zenohd may     *)
(* give several foreign tokens the id 0 at a time; another id is of one.   *)
(*                                                                         *)
(* A face may also stop reading for good, with the OutQ of its link full.  *)
(***************************************************************************)
EXTENDS Naturals, Sequences

CONSTANTS
    Faces,        \* remote faces: the router, or the unicast peers
    PeerMode,     \* peer mode: a new link resets no table
    ExprIds,      \* alias ids
    TokenIds,     \* token ids
    Suffixes,     \* what a key is made of
    Subs,         \* the subscribers
    Handlers,     \* the handlers they may use
    Capacity,     \* what a handler's channel holds
    MaxSends,     \* bound: messages and Puts over the session's life
    MaxInFlight,  \* bound: messages of a face on their way
    MaxLinks      \* bound: links of a face

ASSUME DeliveryAssumption ==
    /\ 0 \notin ExprIds
    /\ Handlers \subseteq {"closure", "fifo", "ring"}
    /\ Capacity \in Nat \ {0} /\ MaxSends \in Nat /\ MaxInFlight \in Nat /\ MaxLinks \in Nat \ {0}

VARIABLES
    links, lpc,         \* links a face has had, and where its current one is
    asked, heard,       \* what was declared to it; it filled a table entry
    inbox,              \* messages on their way from a face
    theirs, theirToks,  \* what a face's ids stand for on its link
    stalled,            \* faces that read no more, with OutQ full
    aliases, tokens,    \* remoteAliases.byID and inboundTokens.byID
    wiped,              \* history: a reset removed entries of the new link
    dispatch,           \* the event a goroutine is delivering
    liveSubs,           \* the liveliness subscribers among them
    handler, spc,       \* a subscriber's handler, and where its owner is
    registered,         \* subscribers in the registries
    queue, shut,        \* a handler's channel, and whether it is closed
    cpc, selfDrop,      \* Closure's goroutine; Drop was called from Call
    newest, taken,      \* history: last event delivered, last one received
    panicked,           \* an event was sent on a closed channel
    sends               \* messages sent so far

faceVars    == <<links, lpc, asked, heard, inbox, theirs, theirToks, stalled>>
tableVars   == <<aliases, tokens, wiped>>
subVars     == <<liveSubs, handler, spc, registered>>
handlerVars == <<queue, shut, cpc, selfDrop, newest, taken, panicked>>
deliveryVars == <<faceVars, tableVars, dispatch, subVars, handlerVars, sends>>

NoKey == <<>>
NoEvent == [key |-> NoKey, meant |-> {}, alive |-> FALSE, n |-> 0]
NoIds(ids) == [i \in ids |-> NoKey]
NoTokens == [i \in TokenIds |-> {}]
Idle == [event |-> NoEvent, todo |-> {}, ring |-> "free", at |-> "none"]
Goroutines == Faces \cup {"app"}

DeliveryInit ==
    /\ links = [f \in Faces |-> 1] /\ lpc = [f \in Faces |-> "up"]
    /\ asked = [f \in Faces |-> {}] /\ heard = [f \in Faces |-> FALSE]
    /\ inbox = [f \in Faces |-> <<>>]
    /\ theirs = [f \in Faces |-> NoIds(ExprIds)]
    /\ theirToks = [f \in Faces |-> NoTokens] /\ stalled = {}
    /\ aliases = NoIds(ExprIds) /\ tokens = NoIds(TokenIds) /\ wiped = FALSE
    /\ dispatch = [g \in Goroutines |-> Idle]
    /\ liveSubs \in SUBSET Subs
    /\ handler \in [Subs -> Handlers] /\ spc = [s \in Subs |-> "new"]
    /\ registered = {}
    /\ queue = [s \in Subs |-> <<>>] /\ shut = {}
    /\ cpc = [s \in Subs |-> "none"] /\ selfDrop = {}
    /\ newest = [s \in Subs |-> 0] /\ taken = [s \in Subs |-> 0]
    /\ panicked = FALSE /\ sends = 0

-----------------------------------------------------------------------------
(* What a face sends. A WireExpr is a scope (0 for none) and a suffix.     *)

WireExprs == [scope : ExprIds \cup {0}, suffix : {NoKey} \cup {<<x>> : x \in Suffixes}]

Meant(f, w) == IF w.scope = 0 THEN w.suffix
               ELSE IF theirs[f][w.scope] = NoKey THEN NoKey
               ELSE theirs[f][w.scope] \o w.suffix

Speak(f, m) ==
    /\ asked[f] # {} /\ Len(inbox[f]) < MaxInFlight
    /\ sends < MaxSends /\ sends' = sends + 1
    /\ inbox' = [inbox EXCEPT ![f] = Append(@, m)]
    /\ UNCHANGED <<links, lpc, asked, heard, stalled, tableVars, dispatch, subVars, handlerVars>>

Message(type, id, w, meant) ==
    [type |-> type, id |-> id, expr |-> w, meant |-> meant, n |-> sends + 1]

\* A bound on what a key may grow to: one alias on top of another.
Extends(f, w) == Meant(f, w) # NoKey /\ Len(Meant(f, w)) <= 2

SendKeyExpr(f) ==
    \E id \in ExprIds, w \in WireExprs :
        /\ theirs[f][id] = NoKey /\ Extends(f, w)
        /\ theirs' = [theirs EXCEPT ![f][id] = Meant(f, w)]
        /\ Speak(f, Message("D_KEYEXPR", id, w, {Meant(f, w)}))
        /\ UNCHANGED theirToks

SendUndeclareKeyExpr(f) ==
    \E id \in ExprIds :
        /\ theirs[f][id] # NoKey
        /\ theirs' = [theirs EXCEPT ![f][id] = NoKey]
        /\ Speak(f, Message("U_KEYEXPR", id, [scope |-> 0, suffix |-> NoKey], {}))
        /\ UNCHANGED theirToks

SendPush(f) ==
    \E w \in WireExprs :
        /\ "push" \in asked[f] /\ Extends(f, w)
        /\ Speak(f, Message("PUSH", 0, w, {Meant(f, w)}))
        /\ UNCHANGED <<theirs, theirToks>>

\* Under an id that is in use only if it is zenohd's 0 for foreign tokens.
SendToken(f) ==
    \E id \in TokenIds, w \in WireExprs :
        /\ "live" \in asked[f] /\ Extends(f, w)
        /\ (id = 0 /\ Meant(f, w) \notin theirToks[f][id]) \/ theirToks[f][id] = {}
        /\ theirToks' = [theirToks EXCEPT ![f][id] = @ \cup {Meant(f, w)}]
        /\ Speak(f, Message("D_TOKEN", id, w, {Meant(f, w)}))
        /\ UNCHANGED theirs

\* A router leaves the WireExpr of U_TOKEN empty, this library fills it in.
SendUndeclareToken(f) ==
    \E id \in TokenIds : \E key \in theirToks[f][id] :
        /\ \E x \in {NoKey, key} :
              Speak(f, Message("U_TOKEN", id, [scope |-> 0, suffix |-> x], theirToks[f][id]))
        /\ theirToks' = [theirToks EXCEPT ![f][id] = @ \ {key}]
        /\ UNCHANGED theirs

FaceSends(f) ==
    \/ SendKeyExpr(f) \/ SendUndeclareKeyExpr(f) \/ SendPush(f)
    \/ SendToken(f) \/ SendUndeclareToken(f)

-----------------------------------------------------------------------------
(* The reader of a face.                                                   *)

\* resolveRemoteKey; an unknown alias and an empty key are both skipped.
ResolveRemoteKey(w) ==
    IF w.scope = 0 THEN w.suffix
    ELSE IF aliases[w.scope] = NoKey THEN NoKey ELSE aliases[w.scope] \o w.suffix

\* Mutant of DeclareRemoteAlias: the base alias is not looked up.
DeclareSuffixOnly(id, w) == [aliases EXCEPT ![id] = w.suffix]

\* declareRemoteAlias: the concatenation is stored; an unknown base is empty.
DeclareRemoteAlias(id, w) ==
    [aliases EXCEPT ![id] = IF w.scope = 0 THEN w.suffix ELSE aliases[w.scope] \o w.suffix]

\* The lock of the registry of s is held by a dispatch.
Locked(s) == \E g \in Goroutines : \E t \in dispatch[g].todo :
                (s \in liveSubs) = (t \in liveSubs)

\* dispatchPush, dispatchLiveliness: the read lock is taken and the subscribers
\* whose expression intersects the key are served one by one. The subscribers
\* here watch every key.
Dispatch(g, live, event) ==
    LET matching == {s \in registered : (s \in liveSubs) = live /\ event.key # NoKey}
    IN  dispatch' = [dispatch EXCEPT ![g] =
            IF matching = {} THEN Idle
            ELSE [event |-> event, todo |-> matching, ring |-> "free", at |-> "none"]]

Event(m, key, alive) == [key |-> key, meant |-> m.meant, alive |-> alive, n |-> m.n]

OnPush(f, m) ==
    /\ Dispatch(f, FALSE, Event(m, ResolveRemoteKey(m.expr), TRUE))
    /\ UNCHANGED <<aliases, tokens, heard>>

OnKeyExpr(f, m) ==
    /\ aliases' = IF m.type = "U_KEYEXPR" THEN [aliases EXCEPT ![m.id] = NoKey]
                                          ELSE DeclareRemoteAlias(m.id, m.expr)
    /\ heard' = [heard EXCEPT ![f] = @ \/ m.type = "D_KEYEXPR"]
    /\ UNCHANGED <<tokens, dispatch>>

OnTokenDeclare(f, m) ==
    LET key == ResolveRemoteKey(m.expr) IN
    /\ tokens' = IF key = NoKey THEN tokens ELSE [tokens EXCEPT ![m.id] = key]
    /\ heard' = [heard EXCEPT ![f] = TRUE]
    /\ Dispatch(f, TRUE, Event(m, key, TRUE))
    /\ UNCHANGED aliases

\* ForgetInboundToken first, the message's own WireExpr only if the id is unknown.
OnTokenUndeclare(f, m) ==
    LET key == IF tokens[m.id] # NoKey THEN tokens[m.id] ELSE ResolveRemoteKey(m.expr) IN
    /\ tokens' = [tokens EXCEPT ![m.id] = NoKey]
    /\ Dispatch(f, TRUE, Event(m, key, FALSE))
    /\ UNCHANGED <<aliases, heard>>

Read(f) ==
    /\ inbox[f] # <<>> /\ dispatch[f].todo = {}
    /\ inbox' = [inbox EXCEPT ![f] = Tail(@)]
    /\ LET m == Head(inbox[f]) IN
       CASE m.type = "PUSH"    -> OnPush(f, m)
         [] m.type = "D_TOKEN" -> OnTokenDeclare(f, m)
         [] m.type = "U_TOKEN" -> OnTokenUndeclare(f, m)
         [] OTHER              -> OnKeyExpr(f, m)
    /\ UNCHANGED <<links, lpc, asked, theirs, theirToks, stalled, wiped, subVars, handlerVars,
                   sends>>

\* Put: the session's own subscribers are served on the caller's goroutine.
LocalPut ==
    \E x \in Suffixes :
        /\ dispatch["app"].todo = {} /\ sends < MaxSends /\ sends' = sends + 1
        /\ Dispatch("app", FALSE,
               [key |-> <<x>>, meant |-> {<<x>>}, alive |-> TRUE, n |-> sends + 1])
        /\ UNCHANGED <<faceVars, tableVars, subVars, handlerVars>>

-----------------------------------------------------------------------------
(* The handlers. deliver never blocks: Closure and FifoChannel drop the    *)
(* event when the channel is full, RingChannel makes room for it.          *)

Full(s) == Len(queue[s]) = Capacity

Served(g, s) ==
    IF dispatch[g].todo = {s} THEN [dispatch EXCEPT ![g] = Idle]
    ELSE [dispatch EXCEPT ![g].todo = @ \ {s}, ![g].ring = "free", ![g].at = "none"]

\* RingChannel's mutex is not held by another goroutine.
RingFree(g, s) == \A h \in Goroutines \ {g} :
                      dispatch[h].ring # "free" => dispatch[h].at # s

\* A goroutine serves one subscriber at a time, in the order of a map: the
\* others wait while RingChannel makes room.
Deliver(g, s) ==
    /\ s \in dispatch[g].todo /\ dispatch[g].ring # "full"
    /\ dispatch[g].ring = "retry" => dispatch[g].at = s
    /\ IF s \in shut THEN panicked' = TRUE /\ UNCHANGED <<queue, newest>>
       ELSE /\ handler[s] = "ring" => ~Full(s) /\ RingFree(g, s)
            /\ queue' = IF Full(s) THEN queue
                        ELSE [queue EXCEPT ![s] = Append(@, dispatch[g].event.n)]
            /\ newest' = [newest EXCEPT ![s] = dispatch[g].event.n]
            /\ UNCHANGED panicked
    /\ dispatch' = Served(g, s)
    /\ UNCHANGED <<faceVars, tableVars, subVars, shut, cpc, selfDrop, taken, sends>>

\* RingChannel finds the channel full, under its mutex.
RingFull(g, s) ==
    /\ s \in dispatch[g].todo /\ dispatch[g].ring # "full"
    /\ dispatch[g].ring = "retry" => dispatch[g].at = s
    /\ handler[s] = "ring" /\ Full(s) /\ s \notin shut /\ RingFree(g, s)
    /\ dispatch' = [dispatch EXCEPT ![g].ring = "full", ![g].at = s]
    /\ UNCHANGED <<faceVars, tableVars, subVars, handlerVars, sends>>

\* Mutant of RingEvict: the head is dropped and the event is not sent again.
RingGivesUp(g, s) ==
    /\ s \in dispatch[g].todo /\ dispatch[g].ring = "full" /\ dispatch[g].at = s
    /\ queue' = [queue EXCEPT ![s] = IF @ = <<>> THEN @ ELSE Tail(@)]
    /\ newest' = [newest EXCEPT ![s] = dispatch[g].event.n]
    /\ dispatch' = Served(g, s)
    /\ UNCHANGED <<faceVars, tableVars, subVars, shut, cpc, selfDrop, taken, panicked,
                   sends>>

\* It takes from the head what the user has left there, and will send again.
RingEvict(g, s) ==
    /\ s \in dispatch[g].todo /\ dispatch[g].ring = "full" /\ dispatch[g].at = s
    /\ queue' = [queue EXCEPT ![s] = IF @ = <<>> THEN @ ELSE Tail(@)]
    /\ dispatch' = [dispatch EXCEPT ![g].ring = "retry"]
    /\ UNCHANGED <<faceVars, tableVars, subVars, shut, cpc, selfDrop, newest, taken,
                   panicked, sends>>

Dispatching(g) == \E s \in Subs : Deliver(g, s) \/ RingFull(g, s) \/ RingEvict(g, s)

\* The user receives from the channel, or Closure's goroutine does for Call.
Receive(s) ==
    /\ queue[s] # <<>> /\ cpc[s] \in {"none", "range"}
    /\ queue' = [queue EXCEPT ![s] = Tail(@)]
    /\ taken' = [taken EXCEPT ![s] = Head(queue[s])]
    /\ cpc' = [cpc EXCEPT ![s] = IF handler[s] = "closure" THEN "call" ELSE @]
    /\ UNCHANGED <<faceVars, tableVars, dispatch, subVars, shut, selfDrop, newest,
                   panicked, sends>>

\* Call returns; not while it waits in its own subscriber's Drop.
CallReturns(s) ==
    /\ cpc[s] = "call" /\ (s \in selfDrop => spc[s] = "gone")
    /\ cpc' = [cpc EXCEPT ![s] = "range"]
    /\ UNCHANGED <<faceVars, tableVars, dispatch, subVars, queue, shut, selfDrop,
                   newest, taken, panicked, sends>>

\* The channel is closed and drained: the Drop callback runs, done is closed.
ClosureEnds(s) ==
    /\ cpc[s] = "range" /\ queue[s] = <<>> /\ s \in shut
    /\ cpc' = [cpc EXCEPT ![s] = "done"]
    /\ UNCHANGED <<faceVars, tableVars, dispatch, subVars, queue, shut, selfDrop,
                   newest, taken, panicked, sends>>

-----------------------------------------------------------------------------
(* The owner of a subscriber.                                              *)

OwnerGoto(s, from, to) == spc[s] = from /\ spc' = [spc EXCEPT ![s] = to]

\* DeclareSubscriber: Attach, then RegisterSubscriber.
Register(s) ==
    /\ OwnerGoto(s, "new", "declare") /\ ~Locked(s)
    /\ registered' = registered \cup {s}
    /\ cpc' = [cpc EXCEPT ![s] = IF handler[s] = "closure" THEN "range" ELSE "none"]
    /\ UNCHANGED <<faceVars, tableVars, dispatch, liveSubs, handler, queue, shut, selfDrop,
                   newest, taken, panicked, sends>>

\* A Runtime is registered, and takes messages, from Run on.
Reachable == {f \in Faces : lpc[f] # "lost"}

\* What a declaration asks for: samples or tokens.
Kind(s) == IF s \in liveSubs THEN "live" ELSE "push"

\* A send waits while the OutQ of a Runtime is full, and its link up.
SendBlocked == stalled # {}

\* D_SUBSCRIBER or INTEREST to every Runtime; without one the error path.
Declare(s) ==
    /\ ~SendBlocked
    /\ IF Reachable # {} THEN OwnerGoto(s, "declare", "live")
                         ELSE OwnerGoto(s, "declare", "undo")
    /\ asked' = [f \in Faces |-> IF f \in Reachable THEN asked[f] \cup {Kind(s)} ELSE asked[f]]
    /\ UNCHANGED <<links, lpc, heard, inbox, theirs, theirToks, stalled, tableVars, dispatch,
                   liveSubs, handler, registered, handlerVars, sends>>

\* Drop, by the owner or from the subscriber's own callback.
Drop(s) ==
    /\ OwnerGoto(s, "live", "unregister")
    /\ \/ UNCHANGED selfDrop
       \/ cpc[s] = "call" /\ selfDrop' = selfDrop \cup {s}
    /\ UNCHANGED <<faceVars, tableVars, dispatch, liveSubs, handler, registered, queue, shut,
                   cpc, newest, taken, panicked, sends>>

\* After Drop comes the undeclaration, in the error path there is none.
Unregistered(s) ==
    /\ OwnerGoto(s, "unregister", "send") \/ OwnerGoto(s, "undo", "close")
    /\ registered' = registered \ {s}
    /\ UNCHANGED <<faceVars, tableVars, dispatch, liveSubs, handler, handlerVars, sends>>

\* Mutant of Unregister: the entry is removed without the registry's lock.
UnregisterUnlocked(s) == Unregistered(s)

\* UnregisterSubscriber: the write lock waits for the dispatches under way.
Unregister(s) == ~Locked(s) /\ Unregistered(s)

\* U_SUBSCRIBER or INTEREST Final: deliverEncoded waits for OutQ or LinkClosed,
\* and its error is ignored.
SendUndeclare(s) ==
    /\ ~SendBlocked /\ OwnerGoto(s, "send", "close")
    /\ UNCHANGED <<faceVars, tableVars, dispatch, liveSubs, handler, registered, handlerVars, sends>>

\* Mutant of CloseHandler: the channel is left open.
LeaveOpen(s) ==
    /\ OwnerGoto(s, "close", IF handler[s] = "closure" THEN "await" ELSE "gone")
    /\ UNCHANGED <<faceVars, tableVars, dispatch, liveSubs, handler, registered, handlerVars, sends>>

\* The handler's drop: close(ch); Closure then waits for its goroutine.
CloseHandler(s) ==
    /\ OwnerGoto(s, "close", IF handler[s] = "closure" THEN "await" ELSE "gone")
    /\ shut' = shut \cup {s}
    /\ UNCHANGED <<faceVars, tableVars, dispatch, liveSubs, handler, registered, queue, cpc,
                   selfDrop, newest, taken, panicked, sends>>

AwaitClosure(s) ==
    /\ cpc[s] = "done" /\ OwnerGoto(s, "await", "gone")
    /\ UNCHANGED <<faceVars, tableVars, dispatch, liveSubs, handler, registered, handlerVars, sends>>

-----------------------------------------------------------------------------
(* A face's link is lost and replaced. Only the client resets its tables,  *)
(* after the new Runtime has begun to read.                                *)

LinkGoto(f, from, to) == lpc[f] = from /\ lpc' = [lpc EXCEPT ![f] = to]

LinkLost(f) ==
    /\ links[f] < MaxLinks /\ LinkGoto(f, "up", "lost")
    /\ inbox' = [inbox EXCEPT ![f] = <<>>]
    /\ theirs' = [theirs EXCEPT ![f] = NoIds(ExprIds)]
    /\ theirToks' = [theirToks EXCEPT ![f] = NoTokens]
    /\ asked' = [asked EXCEPT ![f] = {}] /\ heard' = [heard EXCEPT ![f] = FALSE]
    /\ stalled' = stalled \ {f}
    /\ UNCHANGED <<links, tableVars, dispatch, subVars, handlerVars, sends>>

\* The face stops reading, though it still sends, and OutQ fills up.
FaceStalls(f) ==
    /\ lpc[f] = "up" /\ f \notin stalled /\ stalled' = stalled \cup {f}
    /\ UNCHANGED <<links, lpc, asked, heard, inbox, theirs, theirToks, tableVars, dispatch,
                   subVars, handlerVars, sends>>

\* Run, once the old Runtime's reader has ended.
Run(f) ==
    /\ dispatch[f].todo = {}
    /\ LinkGoto(f, "lost", IF PeerMode THEN "replay" ELSE "resetAliases")
    /\ links' = [links EXCEPT ![f] = @ + 1]
    /\ UNCHANGED <<asked, heard, inbox, theirs, theirToks, stalled, tableVars, dispatch,
                   subVars, handlerVars, sends>>

ResetRemoteAliases(f) ==
    /\ LinkGoto(f, "resetAliases", "resetTokens")
    /\ aliases' = NoIds(ExprIds) /\ wiped' = (wiped \/ heard[f])
    /\ UNCHANGED <<links, asked, heard, inbox, theirs, theirToks, stalled, tokens, dispatch,
                   subVars, handlerVars, sends>>

ResetInboundTokens(f) ==
    /\ LinkGoto(f, "resetTokens", "replay")
    /\ tokens' = NoIds(TokenIds) /\ wiped' = (wiped \/ heard[f])
    /\ UNCHANGED <<links, asked, heard, inbox, theirs, theirToks, stalled, aliases, dispatch,
                   subVars, handlerVars, sends>>

\* The replay declares what is registered (module Replay).
ReplayTo(f) ==
    /\ LinkGoto(f, "replay", "up")
    /\ asked' = [asked EXCEPT ![f] = @ \cup {Kind(s) : s \in registered}]
    /\ UNCHANGED <<links, heard, inbox, theirs, theirToks, stalled, tableVars, dispatch, subVars,
                   handlerVars, sends>>

-----------------------------------------------------------------------------
Relink(f) == \/ Run(f) \/ ResetRemoteAliases(f) \/ ResetInboundTokens(f) \/ ReplayTo(f)

Handling(s) == Receive(s) \/ CallReturns(s) \/ ClosureEnds(s)

Owner(s) == \/ Register(s) \/ Declare(s) \/ Drop(s) \/ Unregister(s)
            \/ SendUndeclare(s) \/ CloseHandler(s) \/ AwaitClosure(s)

DeliveryNext ==
    \/ \E f \in Faces : FaceSends(f) \/ Read(f) \/ LinkLost(f) \/ FaceStalls(f) \/ Relink(f)
    \/ LocalPut
    \/ \E g \in Goroutines : Dispatching(g)
    \/ \E s \in Subs : Owner(s) \/ Handling(s)

\* Without the fairness that a run adds (MCDispatch).
DeliverySpec == DeliveryInit /\ [][DeliveryNext]_deliveryVars

-----------------------------------------------------------------------------
(* Properties.                                                             *)

\* In client mode every event is delivered under the key its sender meant,
\* across links that reuse the ids. Two exceptions: a Delete for an id that
\* several live tokens share goes to one of those, not always to the one that
\* ended (the limitation that inboundTokens states); and all is open once a reset
\* of replayEntities has met entries that the new link had already filled
\* (declareRemoteAlias, resolveRemoteKey, onTokenDeclare, onTokenUndeclare).
RightKey ==
    wiped \/ \A g \in Goroutines : dispatch[g].todo # {} =>
                 dispatch[g].event.key \in dispatch[g].event.meant

\* No event is sent on a closed handler channel, whatever Drop races with
\* (dispatchPush and UnregisterSubscriber).
NoSendOnClosedHandler == ~panicked

\* RingChannel: the newest event delivered is the last one in the channel or,
\* when the channel is empty, the last one the user received; while deliver
\* makes room, the event it will send is the newest.
RingKeepsNewest ==
    \A s \in Subs : handler[s] = "ring" /\ (\A g \in Goroutines : dispatch[g].ring = "free") =>
        newest[s] = IF queue[s] = <<>> THEN taken[s] ELSE queue[s][Len(queue[s])]

\* The owner waits in Drop's send on a face that no longer reads.
HeldBySend(s) == spc[s] = "send" /\ SendBlocked

\* Drop returns, with Closure's goroutine ended. Two exceptions: it was called
\* from the subscriber's own callback, for which it then waits; or the face has
\* stopped reading, OutQ is full, and for as long as that link stays up the
\* undeclaration that Drop sends before it closes the handler holds it
\* (Subscriber.Drop, LivelinessSubscriber.Drop, deliverEncoded, Closure.Attach).
DropReturns ==
    \A s \in Subs : spc[s] \in {"unregister", "undo"} /\ s \notin selfDrop
                       ~> spc[s] = "gone" \/ []HeldBySend(s)

\* What LivelinessSubscriber promises: a Put for every D_TOKEN and a Delete for
\* every U_TOKEN, on the token's key.
LivelinessReported ==
    \A g \in Goroutines : \A s \in dispatch[g].todo \cap liveSubs :
        dispatch[g].event.meant = {dispatch[g].event.key}
=============================================================================

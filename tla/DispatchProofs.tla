--------------------------- MODULE DispatchProofs ---------------------------
(***************************************************************************)
(* Proofs about the two machines of inbound dispatch.                      *)
(*                                                                         *)
(* Delivery, for any number of links, subscribers and messages: no event   *)
(* is sent on the closed channel of a handler, because Unregister waits    *)
(* for the dispatch under way and a channel is closed only after its       *)
(* subscriber has left the registry; a ring loses only its oldest events;  *)
(* and a sample carries the key its sender named.                          *)
(*                                                                         *)
(* Queries, for any number of sessions, queryables and Gets: the           *)
(* completion counter counts the copies that are left, so each session     *)
(* sends one RESPONSE_FINAL per request, after the last of them; no query  *)
(* goes to a closed queue; and between two sessions a Get that is closed   *)
(* has all the replies its channel had room for.                           *)
(***************************************************************************)
EXTENDS Delivery, Queries, SequenceTheorems, FiniteSetTheorems, TLAPS

-----------------------------------------------------------------------------
(* Delivery: handlers, rings and keys.                                     *)

\* The dispatches whose events are in E: the argument needs no more of an event.
DispatchesOf(E) ==
    [Goroutines -> [event : E, todo : SUBSET Subs, ring : {"free", "full", "retry"},
                    at : Subs \cup {"none"}]]

\* The types of what the argument is about.
DeliveryShape ==
    /\ dispatch \in DispatchesOf({dispatch[g].event : g \in Goroutines})
    /\ spc = [s \in Subs |-> spc[s]]

\* Who is being served is registered, as long as the read lock is held.
ServedRegistered == \A g \in Goroutines : dispatch[g].todo \subseteq registered

\* What the owner's place says of the registry and of the channel.
OwnerPlaces ==
    /\ registered \subseteq Subs
    /\ \A s \in registered : spc[s] \in {"declare", "live", "unregister", "undo"}
    /\ \A s \in shut : s \in Subs /\ spc[s] \in {"await", "gone"}

DeliveryInv == DeliveryShape /\ ServedRegistered /\ OwnerPlaces /\ NoSendOnClosedHandler

-----------------------------------------------------------------------------
\* The set of events may be any.
LEMMA AnyEvents ==
    ASSUME NEW E, NEW d \in DispatchesOf(E)
    PROVE  d \in DispatchesOf({d[g].event : g \in Goroutines})
  BY DEF DispatchesOf

\* A larger set of events admits the same dispatches.
LEMMA MoreEvents ==
    ASSUME NEW E, NEW d \in DispatchesOf(E), NEW F, E \subseteq F
    PROVE  d \in DispatchesOf(F)
  BY DEF DispatchesOf

\* A session starts with no subscriber and no dispatch.
LEMMA InitDeliveryInv == DeliveryInit => DeliveryInv
<1> SUFFICES ASSUME DeliveryInit PROVE DeliveryInv
  OBVIOUS
<1>1. dispatch = [g \in Goroutines |-> Idle]
  BY DEF DeliveryInit
<1>2. dispatch \in DispatchesOf({NoEvent})
  BY <1>1 DEF DispatchesOf, Idle
<1>3. DeliveryShape
  BY <1>2, AnyEvents DEF DeliveryInit, DeliveryShape
<1>4. ServedRegistered
  BY <1>1 DEF ServedRegistered, Idle
<1>5. QED
  BY <1>3, <1>4 DEF DeliveryInit, DeliveryInv, OwnerPlaces, NoSendOnClosedHandler

\* dispatchPush and dispatchLiveliness pick from the registry.
LEMMA DispatchInv ==
    ASSUME DeliveryInv, NEW g \in Goroutines, NEW live, NEW event, Dispatch(g, live, event),
           UNCHANGED <<spc, registered, shut, panicked>>
    PROVE  DeliveryInv'
<1> DEFINE E == {dispatch[h].event : h \in Goroutines} \cup {event, NoEvent}
<1>1. dispatch \in DispatchesOf(E)
  BY MoreEvents DEF DeliveryInv, DeliveryShape
<1>2. PICK d \in [event : E, todo : SUBSET registered, ring : {"free"}, at : {"none"}] :
          dispatch' = [dispatch EXCEPT ![g] = d]
  <2> DEFINE matching == {s \in registered : (s \in liveSubs) = live /\ event.key # NoKey}
  <2>1. CASE matching = {}
    BY <2>1 DEF Dispatch, Idle
  <2>2. CASE matching # {}
    BY <2>2 DEF Dispatch
  <2>3. QED
    BY <2>1, <2>2
<1>3. registered \subseteq Subs
  BY DEF DeliveryInv, OwnerPlaces
<1>4. /\ dispatch' \in DispatchesOf(E)
      /\ \A h \in Goroutines : dispatch'[h].todo \subseteq registered
  <2> HIDE DEF E
  <2> QED
    BY <1>1, <1>2, <1>3 DEF DispatchesOf, DeliveryInv, ServedRegistered
<1>5. DeliveryShape'
  <2> HIDE DEF E
  <2> QED
    BY <1>4, AnyEvents DEF DeliveryInv, DeliveryShape
<1>6. QED
  BY <1>4, <1>5 DEF DeliveryInv, ServedRegistered, OwnerPlaces, NoSendOnClosedHandler

\* A face, its reader and its link leave the subscribers alone.
LEMMA FaceInv ==
    ASSUME DeliveryInv, NEW f \in Faces, FaceSends(f) \/ Read(f) \/ LinkLost(f) \/ FaceStalls(f) \/ Relink(f)
    PROVE  DeliveryInv'
<1>1. CASE FaceSends(f) \/ LinkLost(f) \/ FaceStalls(f) \/ Relink(f)
  <2>1. UNCHANGED <<dispatch, spc, registered, shut, panicked>>
    <3>1. CASE FaceSends(f)
      BY <3>1 DEF FaceSends, SendKeyExpr, SendUndeclareKeyExpr, SendPush, SendToken,
                  SendUndeclareToken, Speak, subVars, handlerVars
    <3>2. CASE LinkLost(f) \/ FaceStalls(f)
      BY <3>2 DEF LinkLost, FaceStalls, subVars, handlerVars
    <3>3. CASE Relink(f)
      BY <3>3 DEF Relink, Run, ResetRemoteAliases, ResetInboundTokens, ReplayTo, subVars, handlerVars
    <3>4. QED
      BY <1>1, <3>1, <3>2, <3>3
  <2>2. QED
    BY <2>1 DEF DeliveryInv, DeliveryShape, ServedRegistered, OwnerPlaces, NoSendOnClosedHandler
<1>2. CASE Read(f)
  <2> DEFINE m == Head(inbox[f])
  <2>1. /\ OnPush(f, m) \/ OnTokenDeclare(f, m) \/ OnTokenUndeclare(f, m) \/ OnKeyExpr(f, m)
        /\ UNCHANGED <<spc, registered, shut, panicked>>
    BY <1>2 DEF Read, subVars, handlerVars
  <2>2. CASE OnKeyExpr(f, m)
    <3>1. UNCHANGED <<dispatch, spc, registered, shut, panicked>>
      BY <2>1, <2>2 DEF OnKeyExpr
    <3>2. QED
      BY <3>1 DEF DeliveryInv, DeliveryShape, ServedRegistered, OwnerPlaces, NoSendOnClosedHandler
  <2>3. CASE OnPush(f, m) \/ OnTokenDeclare(f, m) \/ OnTokenUndeclare(f, m)
    <3>1. \E live, event : Dispatch(f, live, event)
      BY <2>3 DEF OnPush, OnTokenDeclare, OnTokenUndeclare
    <3>2. f \in Goroutines
      BY DEF Goroutines
    <3>3. QED
      BY <2>1, <3>1, <3>2, DispatchInv
  <2>4. QED
    BY <2>1, <2>2, <2>3
<1>3. QED
  BY <1>1, <1>2

\* Serving a subscriber only shortens the list; the one served is registered,
\* so its channel is open.
LEMMA DispatchingInv ==
    ASSUME DeliveryInv, NEW g \in Goroutines, Dispatching(g)
    PROVE  DeliveryInv'
<1>1. PICK s \in Subs : Deliver(g, s) \/ RingFull(g, s) \/ RingEvict(g, s)
  BY DEF Dispatching
<1>2. s \in dispatch[g].todo /\ s \in registered /\ s \notin shut
  <2>1. s \in dispatch[g].todo
    BY <1>1 DEF Deliver, RingFull, RingEvict
  <2>2. s \in registered
    BY <2>1 DEF DeliveryInv, ServedRegistered
  <2>3. QED
    BY <2>1, <2>2 DEF DeliveryInv, OwnerPlaces
<1>3. UNCHANGED <<spc, registered, shut, panicked>>
  <2>1. CASE Deliver(g, s)
    BY <1>2, <2>1 DEF Deliver, subVars
  <2>2. CASE RingFull(g, s) \/ RingEvict(g, s)
    BY <2>2 DEF RingFull, RingEvict, subVars, handlerVars
  <2>3. QED
    BY <1>1, <2>1, <2>2
<1> DEFINE E == {dispatch[h].event : h \in Goroutines} \cup {NoEvent}
<1>4. dispatch \in DispatchesOf(E)
  BY MoreEvents DEF DeliveryInv, DeliveryShape
<1>5. /\ dispatch' \in DispatchesOf(E)
      /\ \A h \in Goroutines : dispatch'[h].todo \subseteq dispatch[h].todo
  <2>1. NoEvent \in E
    OBVIOUS
  <2> HIDE DEF E
  <2> USE DEF DispatchesOf
  <2>2. CASE Deliver(g, s)
    <3>1. dispatch' = Served(g, s)
      BY <2>2 DEF Deliver
    <3>2. CASE dispatch[g].todo = {s}
      BY <1>4, <2>1, <3>1, <3>2 DEF Served, Idle
    <3>3. CASE dispatch[g].todo # {s}
      BY <1>4, <3>1, <3>3, ZenonT(40) DEF Served
    <3>4. QED
      BY <3>2, <3>3
  <2>3. CASE RingFull(g, s)
    BY <1>4, <2>3 DEF RingFull
  <2>4. CASE RingEvict(g, s)
    BY <1>4, <2>4 DEF RingEvict
  <2>5. QED
    BY <1>1, <2>2, <2>3, <2>4
<1>6. DeliveryShape'
  <2> HIDE DEF E
  <2> QED
    BY <1>3, <1>5, AnyEvents DEF DeliveryInv, DeliveryShape
<1>7. QED
  BY <1>3, <1>5, <1>6 DEF DeliveryInv, ServedRegistered, OwnerPlaces, NoSendOnClosedHandler

\* The owner: the registry's write lock keeps Unregister out of a dispatch, and
\* the channel is closed after it.
LEMMA OwnerInv ==
    ASSUME DeliveryInv, NEW s \in Subs, Owner(s) \/ Handling(s)
    PROVE  DeliveryInv'
<1> USE DEF DeliveryInv, DeliveryShape, ServedRegistered, OwnerPlaces, NoSendOnClosedHandler
<1>1. CASE Handling(s)
  <2>1. UNCHANGED <<dispatch, spc, registered, shut, panicked>>
    BY <1>1 DEF Handling, Receive, CallReturns, ClosureEnds, subVars
  <2>2. QED
    BY <2>1
<1>2. CASE Register(s)
  BY <1>2 DEF Register, OwnerGoto
<1>3. CASE Declare(s)
  BY <1>3 DEF Declare, OwnerGoto, handlerVars
<1>4. CASE Drop(s)
  BY <1>4 DEF Drop, OwnerGoto
<1>5. CASE Unregister(s)
  <2>1. \A g \in Goroutines : s \notin dispatch[g].todo
    BY <1>5 DEF Unregister, Locked
  <2>2. QED
    BY <1>5, <2>1 DEF Unregister, Unregistered, OwnerGoto, handlerVars
<1>6. CASE CloseHandler(s)
  BY <1>6 DEF CloseHandler, OwnerGoto
<1>7. CASE AwaitClosure(s)
  BY <1>7 DEF AwaitClosure, OwnerGoto, handlerVars
<1>8. CASE SendUndeclare(s)
  BY <1>8 DEF SendUndeclare, OwnerGoto, handlerVars
<1>9. QED
  BY <1>1, <1>2, <1>3, <1>4, <1>5, <1>6, <1>7, <1>8 DEF Owner

\* Every step of the session and of its faces keeps the invariant.
LEMMA NextDeliveryInv == DeliveryInv /\ [DeliveryNext]_deliveryVars => DeliveryInv'
<1> SUFFICES ASSUME DeliveryInv, [DeliveryNext]_deliveryVars PROVE DeliveryInv'
  OBVIOUS
<1>1. CASE \E f \in Faces : FaceSends(f) \/ Read(f) \/ LinkLost(f) \/ FaceStalls(f) \/ Relink(f)
  BY <1>1, FaceInv
<1>2. CASE LocalPut
  <2>1. \E live, event : Dispatch("app", live, event)
    BY <1>2 DEF LocalPut
  <2>2. UNCHANGED <<spc, registered, shut, panicked>> /\ "app" \in Goroutines
    BY <1>2 DEF LocalPut, subVars, handlerVars, Goroutines
  <2>3. QED
    BY <2>1, <2>2, DispatchInv
<1>3. CASE \E g \in Goroutines : Dispatching(g)
  BY <1>3, DispatchingInv
<1>4. CASE \E s \in Subs : Owner(s) \/ Handling(s)
  BY <1>4, OwnerInv
<1>5. CASE UNCHANGED deliveryVars
  <2>1. UNCHANGED <<dispatch, spc, registered, shut, panicked>>
    BY <1>5 DEF deliveryVars, subVars, handlerVars
  <2>2. QED
    BY <2>1 DEF DeliveryInv, DeliveryShape, ServedRegistered, OwnerPlaces, NoSendOnClosedHandler
<1>6. QED
  BY <1>1, <1>2, <1>3, <1>4, <1>5 DEF DeliveryNext

\* No sample or token event is sent on a channel that Drop has closed
\* (dispatchPush, dispatchLiveliness, UnregisterSubscriber, the handlers' drop),
\* whatever readers, Puts, owners and reconnects interleave.
THEOREM NoSendOnClosedHandlerHolds == DeliverySpec => []NoSendOnClosedHandler
<1>1. DeliveryInv => NoSendOnClosedHandler
  BY DEF DeliveryInv
<1>2. QED
  BY <1>1, InitDeliveryInv, NextDeliveryInv, PTL DEF DeliverySpec

-----------------------------------------------------------------------------
\* What is last in a sequence once its first element is gone.
LEMMA TailLast ==
    ASSUME NEW S, NEW q \in Seq(S), q # <<>>
    PROVE  /\ Tail(q) \in Seq(S)
           /\ Tail(q) # <<>> => Tail(q)[Len(Tail(q))] = q[Len(q)]
           /\ Tail(q) = <<>> => Head(q) = q[Len(q)]
<1>1. /\ Tail(q) \in Seq(S) /\ Len(Tail(q)) = Len(q) - 1 /\ Head(q) = q[1]
      /\ \A i \in 1..(Len(q) - 1) : Tail(q)[i] = q[i + 1]
      /\ Len(q) \in Nat \ {0}
  BY HeadTailProperties, EmptySeq, LenProperties
<1>2. Tail(q) = <<>> <=> Len(Tail(q)) = 0
  BY <1>1, EmptySeq
<1>3. CASE Len(q) = 1
  BY <1>1, <1>2, <1>3
<1>4. CASE Len(q) # 1
  <2>1. PICK n \in Nat : Len(q) = n + 1 /\ n # 0
    <3>1. Len(q) - 1 \in Nat /\ Len(q) = (Len(q) - 1) + 1 /\ Len(q) - 1 # 0
      BY <1>1, <1>4
    <3> QED BY <3>1
  <2>2. Len(Tail(q)) = n /\ n \in 1..(Len(q) - 1)
    BY <2>1, <1>1
  <2> QED BY <2>1, <2>2, <1>1, <1>2
<1> QED BY <1>3, <1>4

-----------------------------------------------------------------------------
(* RingChannel keeps the newest event.                                     *)

\* The newest event is the last in the channel, or the last one received.
NewestIs(s) == newest[s] = IF queue[s] = <<>> THEN taken[s] ELSE queue[s][Len(queue[s])]

\* A goroutine has emptied the channel of s and is about to send.
AboutToSend(s) ==
    queue[s] = <<>> /\ \E g \in Goroutines : dispatch[g].ring = "retry" /\ dispatch[g].at = s

\* RingChannel's mutex is held for a subscriber still to be served; only while a
\* goroutine is about to send may the newest event be out of the channel.
RingInv ==
    /\ queue = [s \in Subs |-> queue[s]] /\ newest = [s \in Subs |-> newest[s]]
    /\ taken = [s \in Subs |-> taken[s]]
    /\ \A s \in Subs : \E S : queue[s] \in Seq(S)
    /\ \A g \in Goroutines : dispatch[g].ring # "free" => dispatch[g].at \in dispatch[g].todo
    /\ \A s \in Subs : handler[s] = "ring" => NewestIs(s) \/ AboutToSend(s)

\* A step that touches no channel and no dispatch.
LEMMA RingSame ==
    ASSUME RingInv, UNCHANGED <<queue, newest, taken, handler, dispatch>>
    PROVE  RingInv'
BY DEF RingInv, NewestIs, AboutToSend

\* A dispatch begins where none was under way: nothing is about to be sent by it.
LEMMA RingDispatch ==
    ASSUME DeliveryInv, RingInv, NEW g \in Goroutines, NEW live, NEW event,
           Dispatch(g, live, event), dispatch[g].todo = {},
           UNCHANGED <<queue, newest, taken, handler>>
    PROVE  RingInv'
<1>1. dispatch = [h \in Goroutines |-> dispatch[h]]
  BY DEF DeliveryInv, DeliveryShape, DispatchesOf
<1>2. PICK d : dispatch' = [dispatch EXCEPT ![g] = d] /\ d.ring = "free"
  <2>1. PICK q : q = {s \in registered : (s \in liveSubs) = live /\ event.key # NoKey}
    OBVIOUS
  <2>2. PICK d : d = IF q = {} THEN Idle
                    ELSE [event |-> event, todo |-> q, ring |-> "free", at |-> "none"]
    OBVIOUS
  <2>3. dispatch' = [dispatch EXCEPT ![g] = d]
    BY <2>1, <2>2 DEF Dispatch
  <2>4. d.ring = "free"
    BY <2>2 DEF Idle
  <2> QED BY <2>3, <2>4
<1>3. /\ dispatch'[g].ring = "free" /\ dispatch[g].ring = "free"
      /\ \A h \in Goroutines : h # g => dispatch'[h] = dispatch[h]
  BY <1>1, <1>2 DEF RingInv
<1>4. \A s \in Subs : AboutToSend(s) => AboutToSend(s)'
  BY <1>3 DEF AboutToSend
<1>5. \A s \in Subs : NewestIs(s) => NewestIs(s)'
  BY DEF NewestIs
<1>6. \A h \in Goroutines : dispatch'[h].ring # "free" => dispatch'[h].at \in dispatch'[h].todo
  BY <1>3 DEF RingInv
<1> QED BY <1>4, <1>5, <1>6 DEF RingInv

\* The steps of a dispatch: an event put on the channel is the newest, and what
\* is taken off its head is not, unless it is the only one.
LEMMA RingDispatching ==
    ASSUME DeliveryInv, RingInv, NEW g \in Goroutines, NEW s \in Subs,
           Deliver(g, s) \/ RingFull(g, s) \/ RingEvict(g, s)
    PROVE  RingInv'
<1>0. /\ dispatch \in DispatchesOf({dispatch[h].event : h \in Goroutines})
      /\ s \in dispatch[g].todo /\ s \notin shut
  <2>1. s \in dispatch[g].todo
    BY DEF Deliver, RingFull, RingEvict
  <2>2. s \in registered
    BY <2>1 DEF DeliveryInv, ServedRegistered
  <2> QED BY <2>1, <2>2 DEF DeliveryInv, DeliveryShape, OwnerPlaces
<1>1. /\ queue = [t \in Subs |-> queue[t]] /\ newest = [t \in Subs |-> newest[t]]
      /\ taken = [t \in Subs |-> taken[t]]
      /\ \A h \in Goroutines : dispatch[h].ring # "free" => dispatch[h].at \in dispatch[h].todo
      /\ \A t \in Subs : handler[t] = "ring" => NewestIs(t) \/ AboutToSend(t)
      /\ \A t \in Subs : \E S : queue[t] \in Seq(S)
  BY DEF RingInv
<1>2. PICK S : queue[s] \in Seq(S)
  BY <1>1
<1>3. CASE Deliver(g, s)
  <2>1. PICK n : n = dispatch[g].event.n
    OBVIOUS
  <2>2. /\ dispatch[g].ring = "retry" => dispatch[g].at = s
        /\ dispatch[g].ring # "full"
        /\ handler[s] = "ring" => ~Full(s)
        /\ queue' = IF Full(s) THEN queue ELSE [queue EXCEPT ![s] = Append(@, n)]
        /\ newest' = [newest EXCEPT ![s] = n] /\ dispatch' = Served(g, s)
        /\ UNCHANGED <<taken, handler>>
    BY <1>0, <1>3, <2>1 DEF Deliver, subVars
  <2>3. /\ dispatch'[g].ring = "free"
        /\ \A h \in Goroutines : h # g => dispatch'[h] = dispatch[h]
    BY <1>0, <2>2 DEF Served, Idle, DispatchesOf
  <2>4. /\ newest'[s] = n /\ \A t \in Subs : t # s => newest'[t] = newest[t] /\ queue'[t] = queue[t]
        /\ queue' = [t \in Subs |-> queue'[t]] /\ newest' = [t \in Subs |-> newest'[t]]
        /\ ~Full(s) => queue'[s] = Append(queue[s], n)
        /\ Full(s) => queue' = queue
    BY <1>1, <2>2
  <2>5. /\ Append(queue[s], n) \in Seq(S \cup {n}) /\ Append(queue[s], n) # <<>>
        /\ Append(queue[s], n)[Len(Append(queue[s], n))] = n
    <3>1. queue[s] \in Seq(S \cup {n}) /\ n \in S \cup {n}
      <4>1. queue[s] \in Seq(S \cup {n})
        BY <1>2, SeqDef
      <4> QED BY <4>1
    <3> HIDE <1>2
    <3>2. /\ Append(queue[s], n) \in Seq(S \cup {n}) /\ Append(queue[s], n) # <<>>
          /\ Len(Append(queue[s], n)) = Len(queue[s]) + 1
          /\ Append(queue[s], n)[Len(queue[s]) + 1] = n
      BY <3>1, AppendProperties
    <3> QED BY <3>2
  <2>6. \A t \in Subs : \E T : queue'[t] \in Seq(T)
    BY <1>1, <1>2, <2>4, <2>5
  <2>7. ASSUME NEW t \in Subs, handler'[t] = "ring" PROVE NewestIs(t)' \/ AboutToSend(t)'
    <3>1. CASE t = s
      <4>1. queue'[s] = Append(queue[s], n)
        BY <2>2, <2>4, <2>7, <3>1
      <4> QED BY <3>1, <4>1, <2>4, <2>5 DEF NewestIs
    <3>2. CASE t # s
      <4>1. NewestIs(t) \/ AboutToSend(t)
        BY <1>1, <2>2, <2>7
      <4>2. NewestIs(t) => NewestIs(t)'
        BY <3>2, <2>2, <2>4 DEF NewestIs
      <4>3. AboutToSend(t) => AboutToSend(t)'
        BY <3>2, <2>2, <2>3, <2>4 DEF AboutToSend
      <4> QED BY <4>1, <4>2, <4>3
    <3> QED BY <3>1, <3>2
  <2>8. \A h \in Goroutines : dispatch'[h].ring # "free" => dispatch'[h].at \in dispatch'[h].todo
    BY <1>1, <2>3
  <2> QED BY <1>1, <2>2, <2>4, <2>6, <2>7, <2>8 DEF RingInv
<1>4. CASE RingFull(g, s)
  <2>1. /\ dispatch[g].ring = "retry" => dispatch[g].at = s
        /\ dispatch' = [dispatch EXCEPT ![g].ring = "full", ![g].at = s] /\ Full(s)
        /\ UNCHANGED <<queue, newest, taken, handler>>
    BY <1>4 DEF RingFull, handlerVars, subVars
  <2>2. /\ dispatch'[g].at = s /\ dispatch'[g].todo = dispatch[g].todo
        /\ \A h \in Goroutines : h # g => dispatch'[h] = dispatch[h]
    BY <1>0, <2>1 DEF DispatchesOf
  <2>3. queue[s] # <<>>
    <3>1. Len(queue[s]) = Capacity /\ Capacity \in Nat \ {0}
      BY <2>1, DeliveryAssumption DEF Full
    <3>2. Len(<<>>) = 0
      OBVIOUS
    <3> QED BY <3>1, <3>2
  <2>4. ASSUME NEW t \in Subs, handler'[t] = "ring" PROVE NewestIs(t)' \/ AboutToSend(t)'
    <3>1. NewestIs(t) \/ AboutToSend(t)
      BY <1>1, <2>1, <2>4
    <3>2. NewestIs(t) => NewestIs(t)'
      BY <2>1 DEF NewestIs
    <3>3. AboutToSend(t) => AboutToSend(t)'
      BY <2>1, <2>2, <2>3 DEF AboutToSend
    <3> QED BY <3>1, <3>2, <3>3
  <2>5. \A h \in Goroutines : dispatch'[h].ring # "free" => dispatch'[h].at \in dispatch'[h].todo
    BY <1>0, <1>1, <2>2
  <2> QED BY <1>1, <2>1, <2>4, <2>5 DEF RingInv
<1>5. CASE RingEvict(g, s)
  <2>1. /\ dispatch[g].at = s /\ dispatch' = [dispatch EXCEPT ![g].ring = "retry"]
        /\ queue' = [queue EXCEPT ![s] = IF @ = <<>> THEN @ ELSE Tail(@)]
        /\ dispatch[g].ring = "full" /\ UNCHANGED <<newest, taken, handler>>
    BY <1>5 DEF RingEvict, subVars
  <2>2. /\ dispatch'[g].at = s /\ dispatch'[g].ring = "retry" /\ dispatch'[g].todo = dispatch[g].todo
        /\ \A h \in Goroutines : h # g => dispatch'[h] = dispatch[h]
    BY <1>0, <2>1 DEF DispatchesOf
  <2>3. /\ queue' = [t \in Subs |-> queue'[t]] /\ \A t \in Subs : t # s => queue'[t] = queue[t]
        /\ queue'[s] = IF queue[s] = <<>> THEN queue[s] ELSE Tail(queue[s])
    BY <1>1, <2>1
  <2>4. queue[s] # <<>> =>
            /\ Tail(queue[s]) \in Seq(S)
            /\ Tail(queue[s]) # <<>> => Tail(queue[s])[Len(Tail(queue[s]))] = queue[s][Len(queue[s])]
    BY <1>2, TailLast
  <2>5. \A t \in Subs : \E T : queue'[t] \in Seq(T)
    BY <1>1, <1>2, <2>3, <2>4
  <2>6. ASSUME NEW t \in Subs, handler'[t] = "ring" PROVE NewestIs(t)' \/ AboutToSend(t)'
    <3>0. NewestIs(t) \/ AboutToSend(t)
      BY <1>1, <2>1, <2>6
    <3>1. CASE t # s
      <4>1. NewestIs(t) => NewestIs(t)'
        BY <3>1, <2>1, <2>3 DEF NewestIs
      <4>2. AboutToSend(t) => AboutToSend(t)'
        BY <3>1, <2>1, <2>2, <2>3 DEF AboutToSend
      <4> QED BY <3>0, <4>1, <4>2
    <3>2. CASE t = s /\ queue'[s] = <<>>
      BY <3>2, <2>2 DEF AboutToSend
    <3>3. CASE t = s /\ queue'[s] # <<>>
      <4>1. queue[s] # <<>> /\ queue'[s] = Tail(queue[s])
        BY <3>3, <2>3
      <4>2. newest[s] = queue[s][Len(queue[s])]
        BY <3>0, <3>3, <4>1 DEF NewestIs, AboutToSend
      <4> QED BY <3>3, <4>1, <4>2, <2>1, <2>4 DEF NewestIs
    <3> QED BY <3>1, <3>2, <3>3
  <2>7. \A h \in Goroutines : dispatch'[h].ring # "free" => dispatch'[h].at \in dispatch'[h].todo
    BY <1>0, <1>1, <2>2
  <2> QED BY <1>1, <2>1, <2>3, <2>5, <2>6, <2>7 DEF RingInv
<1> QED BY <1>3, <1>4, <1>5

\* The user takes the oldest event.
LEMMA RingReceive ==
    ASSUME RingInv, NEW s \in Subs, Receive(s)
    PROVE  RingInv'
<1>1. /\ queue = [t \in Subs |-> queue[t]] /\ taken = [t \in Subs |-> taken[t]]
      /\ \A t \in Subs : handler[t] = "ring" => NewestIs(t) \/ AboutToSend(t)
      /\ \A t \in Subs : \E S : queue[t] \in Seq(S)
  BY DEF RingInv
<1>2. /\ queue[s] # <<>> /\ queue' = [queue EXCEPT ![s] = Tail(@)]
      /\ taken' = [taken EXCEPT ![s] = Head(queue[s])] /\ UNCHANGED <<dispatch, newest, handler>>
  BY DEF Receive, subVars
<1>3. PICK S : queue[s] \in Seq(S)
  BY <1>1
<1>4. /\ queue' = [t \in Subs |-> queue'[t]] /\ \A t \in Subs : t # s => queue'[t] = queue[t]
      /\ taken' = [t \in Subs |-> taken'[t]] /\ \A t \in Subs : t # s => taken'[t] = taken[t]
      /\ queue'[s] = Tail(queue[s]) /\ taken'[s] = Head(queue[s])
  BY <1>1, <1>2
<1>5. /\ Tail(queue[s]) \in Seq(S)
      /\ Tail(queue[s]) # <<>> => Tail(queue[s])[Len(Tail(queue[s]))] = queue[s][Len(queue[s])]
      /\ Tail(queue[s]) = <<>> => Head(queue[s]) = queue[s][Len(queue[s])]
  BY <1>2, <1>3, TailLast
<1>6. ASSUME NEW t \in Subs, handler'[t] = "ring" PROVE NewestIs(t)' \/ AboutToSend(t)'
  <2>0. NewestIs(t) \/ AboutToSend(t)
    BY <1>1, <1>2, <1>6
  <2>1. CASE t # s
    BY <2>0, <2>1, <1>2, <1>4 DEF NewestIs, AboutToSend
  <2>2. CASE t = s
    <3>1. newest[s] = queue[s][Len(queue[s])]
      BY <2>0, <2>2, <1>2 DEF NewestIs, AboutToSend
    <3> QED BY <2>2, <3>1, <1>2, <1>4, <1>5 DEF NewestIs
  <2> QED BY <2>1, <2>2
<1>7. \A t \in Subs : \E T : queue'[t] \in Seq(T)
  BY <1>1, <1>4, <1>5
<1> QED BY <1>2, <1>4, <1>6, <1>7 DEF RingInv

\* Every step keeps it.
LEMMA RingStep ==
    ASSUME DeliveryInv, RingInv, [DeliveryNext]_deliveryVars
    PROVE  RingInv'
<1>1. ASSUME NEW f \in Faces, FaceSends(f) \/ LinkLost(f) \/ FaceStalls(f) \/ Relink(f) PROVE RingInv'
  <2>1. UNCHANGED <<queue, newest, taken, handler, dispatch>>
    BY <1>1 DEF FaceSends, SendKeyExpr, SendUndeclareKeyExpr, SendPush, SendToken,
                SendUndeclareToken, Speak, LinkLost, FaceStalls, Relink, Run, ResetRemoteAliases,
                ResetInboundTokens, ReplayTo, subVars, handlerVars
  <2> QED BY <2>1, RingSame
<1>2. ASSUME NEW f \in Faces, Read(f) PROVE RingInv'
  <2> DEFINE m == Head(inbox[f])
  <2>1. /\ OnPush(f, m) \/ OnTokenDeclare(f, m) \/ OnTokenUndeclare(f, m) \/ OnKeyExpr(f, m)
        /\ UNCHANGED <<queue, newest, taken, handler>> /\ dispatch[f].todo = {}
    BY <1>2 DEF Read, subVars, handlerVars
  <2>2. CASE OnKeyExpr(f, m)
    BY <2>1, <2>2, RingSame DEF OnKeyExpr
  <2>3. CASE OnPush(f, m) \/ OnTokenDeclare(f, m) \/ OnTokenUndeclare(f, m)
    <3>1. \E live, event : Dispatch(f, live, event)
      BY <2>3 DEF OnPush, OnTokenDeclare, OnTokenUndeclare
    <3>2. f \in Goroutines
      BY DEF Goroutines
    <3> QED BY <2>1, <3>1, <3>2, RingDispatch
  <2> QED BY <2>1, <2>2, <2>3
<1>3. CASE LocalPut
  <2>1. \E live, event : Dispatch("app", live, event)
    BY <1>3 DEF LocalPut
  <2>2. /\ dispatch["app"].todo = {} /\ "app" \in Goroutines
        /\ UNCHANGED <<queue, newest, taken, handler>>
    BY <1>3 DEF LocalPut, subVars, handlerVars, Goroutines
  <2> QED BY <2>1, <2>2, RingDispatch
<1>4. ASSUME NEW g \in Goroutines, Dispatching(g) PROVE RingInv'
  BY <1>4, RingDispatching DEF Dispatching
<1>5. ASSUME NEW s \in Subs, Owner(s) \/ CallReturns(s) \/ ClosureEnds(s) PROVE RingInv'
  <2>1. UNCHANGED <<queue, newest, taken, handler, dispatch>>
    BY <1>5 DEF Owner, Register, Declare, Drop, Unregister, Unregistered, SendUndeclare, CloseHandler, AwaitClosure,
                CallReturns, ClosureEnds, subVars, handlerVars
  <2> QED BY <2>1, RingSame
<1>6. ASSUME NEW s \in Subs, Receive(s) PROVE RingInv'
  BY <1>6, RingReceive
<1>7. CASE UNCHANGED deliveryVars
  BY <1>7, RingSame DEF deliveryVars, subVars, handlerVars
<1> QED BY <1>1, <1>2, <1>3, <1>4, <1>5, <1>6, <1>7 DEF DeliveryNext, Handling

\* RingChannel never loses the newest event, however many goroutines deliver at
\* once, while the user receives and deliver makes room in a full channel
\* (RingChannel.Attach: the mutex, the send, the eviction and the second send).
THEOREM RingKeepsNewestHolds == DeliverySpec => []RingKeepsNewest
<1>1. DeliveryInit => RingInv
  <2> SUFFICES ASSUME DeliveryInit PROVE RingInv
    OBVIOUS
  <2>1. /\ queue = [s \in Subs |-> <<>>] /\ newest = [s \in Subs |-> 0] /\ taken = [s \in Subs |-> 0]
        /\ dispatch = [g \in Goroutines |-> Idle]
    BY DEF DeliveryInit
  <2>2. \A s \in Subs : queue[s] = <<>> /\ <<>> \in Seq({})
    BY <2>1, EmptySeq
  <2>3. \A s \in Subs : NewestIs(s)
    BY <2>1 DEF NewestIs
  <2>4. \A g \in Goroutines : dispatch[g].ring = "free"
    BY <2>1 DEF Idle
  <2> QED BY <2>1, <2>2, <2>3, <2>4 DEF RingInv
<1>2. RingInv => RingKeepsNewest
  BY DEF RingInv, RingKeepsNewest, NewestIs, AboutToSend
<1> QED BY <1>1, <1>2, RingStep, InitDeliveryInv, NextDeliveryInv, PTL DEF DeliverySpec

-----------------------------------------------------------------------------
(* With one face, the tables follow what the face declared.                *)

\* A client has one face at a time, its router. (With several, an id of one
\* face would overwrite the same id of another: the tables are the session's.)
OneFace == \A f, h \in Faces : f = h

\* A table is a function on its ids.
IsTable(k, ids) == k = [i \in ids |-> k[i]]

\* What a WireExpr stands for where the ids stand for k.
Means(k, w) == IF w.scope = 0 THEN w.suffix
               ELSE IF k[w.scope] = NoKey THEN NoKey ELSE k[w.scope] \o w.suffix

\* A table agrees with what the declared ids stand for; others may be left over.
Agrees(table, k, ids) == \A i \in ids : k[i] # NoKey => table[i] = k[i]

\* The table of tokens holds one that is alive under the id, or nothing since a
\* U_TOKEN; where none is, it may be left over.
Knows(toks, k) == \A i \in TokenIds : k[i] # {} => toks[i] \in k[i] \cup {NoKey}

\* A message m takes what the face's ids stand for from a to b, and its tokens
\* from c to d; what m is about is meant under a and c.
Follows(m, a, b, c, d) ==
    /\ m.expr.scope \in ExprIds \cup {0}
    /\ m.type \in {"PUSH", "D_KEYEXPR", "D_TOKEN"} =>
           Means(a, m.expr) # NoKey /\ m.meant = {Means(a, m.expr)}
    /\ CASE m.type = "PUSH"      -> b = a /\ d = c
         [] m.type = "D_KEYEXPR" -> /\ m.id \in ExprIds /\ d = c
                                    /\ b = [a EXCEPT ![m.id] = Means(a, m.expr)]
         [] m.type = "U_KEYEXPR" -> m.id \in ExprIds /\ b = [a EXCEPT ![m.id] = NoKey] /\ d = c
         [] m.type = "D_TOKEN"   -> /\ m.id \in TokenIds /\ b = a
                                    /\ d = [c EXCEPT ![m.id] = c[m.id] \cup m.meant]
         [] m.type = "U_TOKEN"   -> /\ m.id \in TokenIds /\ c[m.id] = m.meant /\ b = a
                                    /\ m.expr.scope = 0
                                    /\ \E x \in m.meant : /\ m.expr.suffix \in {NoKey, x}
                                                          /\ d = [c EXCEPT ![m.id] = c[m.id] \ {x}]
         [] OTHER                -> FALSE

\* v and t are what ids and tokens stand for before each message of q, and after all.
Path(q, v, t) ==
    /\ \E S : q \in Seq(S)
    /\ \A i \in 1..(Len(q) + 1) : IsTable(v[i], ExprIds) /\ IsTable(t[i], TokenIds)
    /\ \A i \in 1..Len(q) : Follows(q[i], v[i], v[i + 1], t[i], t[i + 1])

\* The session's tables agree with the face before its first unread message,
\* and its messages lead to what it has declared; while the reader has heard no
\* declaration on this link, the face had declared nothing then.
FaceFollowed(q, v, t, als, toks, ids, tks, hrd) ==
    /\ Path(q, v, t)
    /\ v[Len(q) + 1] = ids /\ t[Len(q) + 1] = tks
    /\ Agrees(als, v[1], ExprIds) /\ Knows(toks, t[1])
    /\ ~hrd => v[1] = NoIds(ExprIds) /\ t[1] = NoTokens

FaceKept(f) == \E v, t : FaceFollowed(inbox[f], v, t, aliases, tokens, theirs[f], theirToks[f], heard[f])

TableShape ==
    /\ inbox = [f \in Faces |-> inbox[f]] /\ theirs = [f \in Faces |-> theirs[f]]
    /\ theirToks = [f \in Faces |-> theirToks[f]] /\ heard \in [Faces -> BOOLEAN]
    /\ IsTable(aliases, ExprIds) /\ IsTable(tokens, TokenIds)

EventsRight == \A g \in Goroutines : dispatch[g].todo # {} =>
                   dispatch[g].event.key \in dispatch[g].event.meant

\* What holds until a reset removes entries of the new link.
KeysInv == TableShape /\ EventsRight /\ \A f \in Faces : FaceKept(f)

\* The message m takes a path on to b and d.
GoesOn(q, v, t, m, b, d) ==
    /\ Path(q, v, t) /\ Follows(m, v[Len(q) + 1], b, t[Len(q) + 1], d)
    /\ IsTable(b, ExprIds) /\ IsTable(d, TokenIds)

\* A message at the end of the path.
LEMMA PathAppend ==
    ASSUME NEW q, NEW v, NEW t, NEW m, NEW b, NEW d, GoesOn(q, v, t, m, b, d)
    PROVE  \E w, u : /\ Path(Append(q, m), w, u) /\ w[1] = v[1] /\ u[1] = t[1]
                     /\ w[Len(Append(q, m)) + 1] = b /\ u[Len(Append(q, m)) + 1] = d
<1>1. PICK S : q \in Seq(S)
  BY DEF GoesOn, Path
<1>2. PICK n \in Nat : n = Len(q)
  BY <1>1, LenProperties
<1>3. q \in Seq(S \cup {m}) /\ m \in S \cup {m}
  BY <1>1, SeqDef
<1>4. /\ Append(q, m) \in Seq(S \cup {m}) /\ Len(Append(q, m)) = n + 1
      /\ Append(q, m)[n + 1] = m /\ \A i \in 1..n : Append(q, m)[i] = q[i]
  BY <1>2, <1>3, AppendProperties
<1> DEFINE w == [i \in 1..(n + 2) |-> IF i = n + 2 THEN b ELSE v[i]]
           u == [i \in 1..(n + 2) |-> IF i = n + 2 THEN d ELSE t[i]]
<1>5. /\ \A i \in 1..(n + 1) : w[i] = v[i] /\ u[i] = t[i]
      /\ w[n + 2] = b /\ u[n + 2] = d
  OBVIOUS
<1>6. /\ \A i \in 1..(n + 1) : IsTable(v[i], ExprIds) /\ IsTable(t[i], TokenIds)
      /\ \A i \in 1..n : Follows(q[i], v[i], v[i + 1], t[i], t[i + 1])
      /\ Follows(m, v[n + 1], b, t[n + 1], d)
  BY <1>2 DEF GoesOn, Path
<1> HIDE DEF w, u
<1>7. ASSUME NEW i \in 1..(n + 2) PROVE IsTable(w[i], ExprIds) /\ IsTable(u[i], TokenIds)
  <2>1. CASE i = n + 2
    BY <2>1, <1>5 DEF GoesOn
  <2>2. CASE i # n + 2
    BY <2>2, <1>5, <1>6
  <2> QED BY <2>1, <2>2
<1>8. ASSUME NEW i \in 1..(n + 1)
      PROVE  Follows(Append(q, m)[i], w[i], w[i + 1], u[i], u[i + 1])
  <2>1. CASE i = n + 1
    <3>1. /\ Append(q, m)[i] = m /\ w[i] = v[n + 1] /\ u[i] = t[n + 1] /\ i + 1 = n + 2
          /\ w[i + 1] = b /\ u[i + 1] = d
      BY <2>1, <1>4, <1>5
    <3> QED BY <3>1, <1>6
  <2>2. CASE i # n + 1
    <3>1. i \in 1..n /\ i + 1 \in 1..(n + 1)
      BY <2>2
    <3>2. /\ Append(q, m)[i] = q[i] /\ w[i] = v[i] /\ u[i] = t[i]
          /\ w[i + 1] = v[i + 1] /\ u[i + 1] = t[i + 1]
      BY <3>1, <1>4, <1>5
    <3> QED BY <3>1, <3>2, <1>6
  <2> QED BY <2>1, <2>2
<1>9. Path(Append(q, m), w, u)
  <2>1. Len(Append(q, m)) + 1 = n + 2 /\ Len(Append(q, m)) = n + 1
    BY <1>4
  <2> QED BY <2>1, <1>4, <1>7, <1>8 DEF Path
<1>10. w[1] = v[1] /\ u[1] = t[1]
  BY <1>5
<1>11. w[Len(Append(q, m)) + 1] = b /\ u[Len(Append(q, m)) + 1] = d
  <2>1. Len(Append(q, m)) + 1 = n + 2
    BY <1>4
  <2> QED BY <2>1, <1>5
<1> QED BY <1>9, <1>10, <1>11

\* The path from the second message on.
LEMMA PathTail ==
    ASSUME NEW q, NEW v, NEW t, Path(q, v, t), q # <<>>
    PROVE  /\ Follows(Head(q), v[1], v[2], t[1], t[2])
           /\ \A i \in 1..2 : IsTable(v[i], ExprIds) /\ IsTable(t[i], TokenIds)
           /\ \E w, u : /\ Path(Tail(q), w, u) /\ w[1] = v[2] /\ u[1] = t[2]
                        /\ w[Len(Tail(q)) + 1] = v[Len(q) + 1] /\ u[Len(Tail(q)) + 1] = t[Len(q) + 1]
<1>1. PICK S : q \in Seq(S)
  BY DEF Path
<1>2. /\ Tail(q) \in Seq(S) /\ Len(Tail(q)) = Len(q) - 1 /\ Head(q) = q[1]
      /\ \A i \in 1..(Len(q) - 1) : Tail(q)[i] = q[i + 1]
      /\ Len(q) \in Nat \ {0}
  BY <1>1, HeadTailProperties, EmptySeq, LenProperties
<1>3. PICK n \in Nat : Len(q) = n + 1
  <2>1. Len(q) - 1 \in Nat /\ Len(q) = (Len(q) - 1) + 1
    BY <1>2
  <2> QED BY <2>1
<1>4. Len(Tail(q)) = n /\ \A i \in 1..n : Tail(q)[i] = q[i + 1]
  BY <1>2, <1>3
<1> DEFINE w == [i \in 1..(n + 1) |-> v[i + 1]]
           u == [i \in 1..(n + 1) |-> t[i + 1]]
<1>5. \A i \in 1..(n + 1) : w[i] = v[i + 1] /\ u[i] = t[i + 1]
  OBVIOUS
<1>6. /\ \A i \in 1..(n + 2) : IsTable(v[i], ExprIds) /\ IsTable(t[i], TokenIds)
      /\ \A i \in 1..(n + 1) : Follows(q[i], v[i], v[i + 1], t[i], t[i + 1])
  <2>1. Len(q) + 1 = n + 2
    BY <1>3
  <2> QED BY <2>1, <1>3 DEF Path
<1> HIDE DEF w, u
<1>7. Follows(Head(q), v[1], v[2], t[1], t[2])
  <2>1. 1 \in 1..(n + 1) /\ 1 + 1 = 2
    OBVIOUS
  <2> QED BY <2>1, <1>2, <1>6
<1>8. \A i \in 1..2 : IsTable(v[i], ExprIds) /\ IsTable(t[i], TokenIds)
  BY <1>6
<1>9. \A i \in 1..(n + 1) : IsTable(w[i], ExprIds) /\ IsTable(u[i], TokenIds)
  BY <1>5, <1>6
<1>10. ASSUME NEW i \in 1..n PROVE Follows(Tail(q)[i], w[i], w[i + 1], u[i], u[i + 1])
  <2>1. i \in 1..(n + 1) /\ i + 1 \in 1..(n + 1)
    OBVIOUS
  <2>2. /\ Tail(q)[i] = q[i + 1] /\ w[i] = v[i + 1] /\ u[i] = t[i + 1]
        /\ w[i + 1] = v[(i + 1) + 1] /\ u[i + 1] = t[(i + 1) + 1]
    BY <2>1, <1>4, <1>5
  <2>3. Follows(q[i + 1], v[i + 1], v[(i + 1) + 1], t[i + 1], t[(i + 1) + 1])
    BY <2>1, <1>6
  <2> QED BY <2>2, <2>3
<1>11. Path(Tail(q), w, u)
  BY <1>2, <1>4, <1>9, <1>10 DEF Path
<1>12. w[1] = v[2] /\ u[1] = t[2] /\ w[n + 1] = v[n + 2] /\ u[n + 1] = t[n + 2]
  BY <1>5
<1>13. Len(q) + 1 = n + 2 /\ Len(Tail(q)) + 1 = n + 1
  BY <1>3, <1>4
<1> QED BY <1>7, <1>8, <1>11, <1>12, <1>13

\* What a face has declared is a table.
LEMMA DeclaredTables ==
    ASSUME NEW f \in Faces, FaceKept(f)
    PROVE  IsTable(theirs[f], ExprIds) /\ IsTable(theirToks[f], TokenIds)
<1>1. PICK v, t : FaceFollowed(inbox[f], v, t, aliases, tokens, theirs[f], theirToks[f], heard[f])
  BY DEF FaceKept
<1>2. /\ Path(inbox[f], v, t)
      /\ v[Len(inbox[f]) + 1] = theirs[f] /\ t[Len(inbox[f]) + 1] = theirToks[f]
  BY <1>1 DEF FaceFollowed
<1>3. PICK S : inbox[f] \in Seq(S)
  BY <1>2 DEF Path
<1>4. Len(inbox[f]) + 1 \in 1..(Len(inbox[f]) + 1)
  <2>1. PICK n \in Nat : n = Len(inbox[f])
    BY <1>3, LenProperties
  <2>2. n + 1 \in 1..(n + 1)
    OBVIOUS
  <2> QED BY <2>1, <2>2
<1> QED BY <1>2, <1>4 DEF Path

\* A face sends m, having changed what its ids stand for as m says.
LEMMA SpeakKeeps ==
    ASSUME OneFace, KeysInv, NEW f \in Faces, NEW m, NEW b, NEW d, Speak(f, m),
           theirs' = [theirs EXCEPT ![f] = b], theirToks' = [theirToks EXCEPT ![f] = d],
           IsTable(b, ExprIds), IsTable(d, TokenIds),
           Follows(m, theirs[f], b, theirToks[f], d)
    PROVE  KeysInv'
<1>1. PICK q, a, c : q = inbox[f] /\ a = theirs[f] /\ c = theirToks[f]
  OBVIOUS
<1>2. /\ inbox' = [inbox EXCEPT ![f] = Append(q, m)]
      /\ UNCHANGED <<heard, aliases, tokens, dispatch>>
  BY <1>1 DEF Speak, tableVars
<1>3. TableShape /\ EventsRight /\ FaceKept(f)
  BY DEF KeysInv
<1>4. inbox'[f] = Append(q, m) /\ theirs'[f] = b /\ theirToks'[f] = d
  BY <1>2, <1>3 DEF TableShape
<1>5. TableShape'
  <2>1. /\ inbox' = [h \in Faces |-> inbox'[h]] /\ theirs' = [h \in Faces |-> theirs'[h]]
        /\ theirToks' = [h \in Faces |-> theirToks'[h]]
    BY <1>2, <1>3 DEF TableShape
  <2> QED BY <2>1, <1>2, <1>3 DEF TableShape
<1>6. EventsRight'
  BY <1>2, <1>3 DEF EventsRight
<1>7. PICK v, t : FaceFollowed(q, v, t, aliases, tokens, a, c, heard[f])
  BY <1>1, <1>3 DEF FaceKept
<1>8. /\ Path(q, v, t) /\ v[Len(q) + 1] = a /\ t[Len(q) + 1] = c
      /\ Agrees(aliases, v[1], ExprIds) /\ Knows(tokens, t[1])
      /\ ~heard[f] => v[1] = NoIds(ExprIds) /\ t[1] = NoTokens
  BY <1>7 DEF FaceFollowed
<1>9. PICK w, u : /\ Path(Append(q, m), w, u) /\ w[1] = v[1] /\ u[1] = t[1]
                  /\ w[Len(Append(q, m)) + 1] = b /\ u[Len(Append(q, m)) + 1] = d
  <2>1. GoesOn(q, v, t, m, b, d)
    BY <1>1, <1>8 DEF GoesOn
  <2> QED BY <2>1, PathAppend
<1>10. FaceFollowed(Append(q, m), w, u, aliases, tokens, b, d, heard[f])
  BY <1>8, <1>9 DEF FaceFollowed
<1>11. FaceKept(f)'
  <2>1. FaceFollowed(inbox'[f], w, u, aliases', tokens', theirs'[f], theirToks'[f], heard'[f])
    BY <1>2, <1>4, <1>10
  <2> QED BY <2>1 DEF FaceKept
<1> QED BY <1>5, <1>6, <1>11 DEF KeysInv, OneFace

\* Whatever a face sends, its messages lead to what it has declared.
LEMMA FaceSendsKeeps ==
    ASSUME OneFace, KeysInv, NEW f \in Faces, FaceSends(f)
    PROVE  KeysInv'
<1>1. PICK a, c : a = theirs[f] /\ c = theirToks[f]
  OBVIOUS
<1>2. IsTable(a, ExprIds) /\ IsTable(c, TokenIds)
  BY <1>1, DeclaredTables DEF KeysInv
<1>3. /\ theirs = [theirs EXCEPT ![f] = a] /\ theirToks = [theirToks EXCEPT ![f] = c]
  BY <1>1 DEF KeysInv, TableShape
<1>4. ASSUME NEW k, NEW ids, NEW i, NEW x, IsTable(k, ids) PROVE IsTable([k EXCEPT ![i] = x], ids)
  BY <1>4 DEF IsTable
<1>5. \A w : Meant(f, w) = Means(a, w)
  BY <1>1 DEF Meant, Means
<1>6. CASE SendKeyExpr(f)
  <2>1. PICK id \in ExprIds, w \in WireExprs :
            /\ Extends(f, w) /\ theirs' = [theirs EXCEPT ![f][id] = Meant(f, w)]
            /\ Speak(f, Message("D_KEYEXPR", id, w, {Meant(f, w)})) /\ UNCHANGED theirToks
    BY <1>6 DEF SendKeyExpr
  <2>2. PICK x, m : x = Meant(f, w) /\ m = Message("D_KEYEXPR", id, w, {x})
    OBVIOUS
  <2>3. x # NoKey /\ x = Means(a, w) /\ w.scope \in ExprIds \cup {0}
    BY <2>1, <2>2, <1>5 DEF Extends, WireExprs
  <2>4. m.type = "D_KEYEXPR" /\ m.id = id /\ m.expr = w /\ m.meant = {x}
    BY <2>2 DEF Message
  <2>5. PICK b : b = [a EXCEPT ![id] = x]
    OBVIOUS
  <2>6. Follows(m, a, b, c, c)
    BY <2>3, <2>4, <2>5 DEF Follows
  <2>7. theirs' = [theirs EXCEPT ![f] = b] /\ theirToks' = [theirToks EXCEPT ![f] = c]
    BY <2>1, <2>2, <2>5, <1>1, <1>3
  <2>8. Speak(f, m) /\ IsTable(b, ExprIds)
    BY <2>1, <2>2, <2>5, <1>2, <1>4
  <2> QED BY <1>1, <1>2, <2>6, <2>7, <2>8, SpeakKeeps
<1>7. CASE SendUndeclareKeyExpr(f)
  <2>1. PICK id \in ExprIds :
            /\ theirs' = [theirs EXCEPT ![f][id] = NoKey]
            /\ Speak(f, Message("U_KEYEXPR", id, [scope |-> 0, suffix |-> NoKey], {}))
            /\ UNCHANGED theirToks
    BY <1>7 DEF SendUndeclareKeyExpr
  <2>2. PICK m : m = Message("U_KEYEXPR", id, [scope |-> 0, suffix |-> NoKey], {})
    OBVIOUS
  <2>4. m.type = "U_KEYEXPR" /\ m.id = id /\ m.expr.scope = 0
    BY <2>2 DEF Message
  <2>5. PICK b : b = [a EXCEPT ![id] = NoKey]
    OBVIOUS
  <2>6. Follows(m, a, b, c, c)
    BY <2>4, <2>5 DEF Follows
  <2>7. theirs' = [theirs EXCEPT ![f] = b] /\ theirToks' = [theirToks EXCEPT ![f] = c]
    BY <2>1, <2>2, <2>5, <1>1, <1>3
  <2>8. Speak(f, m) /\ IsTable(b, ExprIds)
    BY <2>1, <2>2, <2>5, <1>2, <1>4
  <2> QED BY <1>1, <1>2, <2>6, <2>7, <2>8, SpeakKeeps
<1>8. CASE SendPush(f)
  <2>1. PICK w \in WireExprs :
            /\ Extends(f, w) /\ Speak(f, Message("PUSH", 0, w, {Meant(f, w)}))
            /\ UNCHANGED <<theirs, theirToks>>
    BY <1>8 DEF SendPush
  <2>2. PICK x, m : x = Meant(f, w) /\ m = Message("PUSH", 0, w, {x})
    OBVIOUS
  <2>3. x # NoKey /\ x = Means(a, w) /\ w.scope \in ExprIds \cup {0}
    BY <2>1, <2>2, <1>5 DEF Extends, WireExprs
  <2>4. m.type = "PUSH" /\ m.expr = w /\ m.meant = {x}
    BY <2>2 DEF Message
  <2>6. Follows(m, a, a, c, c)
    BY <2>3, <2>4 DEF Follows
  <2>7. theirs' = [theirs EXCEPT ![f] = a] /\ theirToks' = [theirToks EXCEPT ![f] = c]
    BY <2>1, <1>3
  <2>8. Speak(f, m)
    BY <2>1, <2>2
  <2> QED BY <1>1, <1>2, <2>6, <2>7, <2>8, SpeakKeeps
<1>9. CASE SendToken(f)
  <2>1. PICK id \in TokenIds, w \in WireExprs :
            /\ Extends(f, w) /\ theirToks' = [theirToks EXCEPT ![f][id] = @ \cup {Meant(f, w)}]
            /\ Speak(f, Message("D_TOKEN", id, w, {Meant(f, w)})) /\ UNCHANGED theirs
    BY <1>9 DEF SendToken
  <2>2. PICK x, m : x = Meant(f, w) /\ m = Message("D_TOKEN", id, w, {x})
    OBVIOUS
  <2>3. x # NoKey /\ x = Means(a, w) /\ w.scope \in ExprIds \cup {0}
    BY <2>1, <2>2, <1>5 DEF Extends, WireExprs
  <2>4. m.type = "D_TOKEN" /\ m.id = id /\ m.expr = w /\ m.meant = {x}
    BY <2>2 DEF Message
  <2>5. PICK d : d = [c EXCEPT ![id] = c[id] \cup {x}]
    OBVIOUS
  <2>6. Follows(m, a, a, c, d)
    BY <2>3, <2>4, <2>5 DEF Follows
  <2>7. theirs' = [theirs EXCEPT ![f] = a] /\ theirToks' = [theirToks EXCEPT ![f] = d]
    BY <2>1, <2>2, <2>5, <1>1, <1>3
  <2>8. Speak(f, m) /\ IsTable(d, TokenIds)
    BY <2>1, <2>2, <2>5, <1>2, <1>4
  <2> QED BY <1>1, <1>2, <2>6, <2>7, <2>8, SpeakKeeps
<1>10. CASE SendUndeclareToken(f)
  <2>1. PICK id \in TokenIds : \E x \in theirToks[f][id] : \E y \in {NoKey, x} :
            /\ Speak(f, Message("U_TOKEN", id, [scope |-> 0, suffix |-> y], theirToks[f][id]))
            /\ theirToks' = [theirToks EXCEPT ![f][id] = @ \ {x}] /\ UNCHANGED theirs
    BY <1>10 DEF SendUndeclareToken
  <2>0. PICK x \in c[id] : \E y \in {NoKey, x} :
            /\ Speak(f, Message("U_TOKEN", id, [scope |-> 0, suffix |-> y], c[id]))
            /\ theirToks' = [theirToks EXCEPT ![f][id] = @ \ {x}] /\ UNCHANGED theirs
    BY <2>1, <1>1
  <2>2. PICK y \in {NoKey, x} :
            /\ Speak(f, Message("U_TOKEN", id, [scope |-> 0, suffix |-> y], c[id]))
            /\ theirToks' = [theirToks EXCEPT ![f][id] = @ \ {x}] /\ UNCHANGED theirs
    BY <2>0
  <2>3. PICK m : m = Message("U_TOKEN", id, [scope |-> 0, suffix |-> y], c[id])
    OBVIOUS
  <2>4. m.type = "U_TOKEN" /\ m.id = id /\ m.expr.scope = 0 /\ m.expr.suffix = y /\ m.meant = c[id]
    BY <2>3 DEF Message
  <2>5. PICK d : d = [c EXCEPT ![id] = c[id] \ {x}]
    OBVIOUS
  <2>6. Follows(m, a, a, c, d)
    BY <2>2, <2>4, <2>5 DEF Follows
  <2>7. theirs' = [theirs EXCEPT ![f] = a] /\ theirToks' = [theirToks EXCEPT ![f] = d]
    BY <2>2, <2>5, <1>1, <1>3
  <2>8. Speak(f, m) /\ IsTable(d, TokenIds)
    BY <2>2, <2>3, <2>5, <1>2, <1>4
  <2> QED BY <1>1, <1>2, <2>6, <2>7, <2>8, SpeakKeeps
<1> QED BY <1>6, <1>7, <1>8, <1>9, <1>10 DEF FaceSends

\* A dispatch begins with an event under the key that was meant.
LEMMA EventsDispatch ==
    ASSUME DeliveryInv, EventsRight, NEW g \in Goroutines, NEW live, NEW event,
           Dispatch(g, live, event), event.key # NoKey => event.key \in event.meant
    PROVE  EventsRight'
<1>1. dispatch = [h \in Goroutines |-> dispatch[h]]
  BY DEF DeliveryInv, DeliveryShape, DispatchesOf
<1>2. PICK q : q = {s \in registered : (s \in liveSubs) = live /\ event.key # NoKey}
  OBVIOUS
<1>3. PICK d : d = IF q = {} THEN Idle
                   ELSE [event |-> event, todo |-> q, ring |-> "free", at |-> "none"]
  OBVIOUS
<1>4. dispatch' = [dispatch EXCEPT ![g] = d]
  BY <1>2, <1>3 DEF Dispatch
<1>5. d.todo # {} => d.event.key \in d.event.meant
  <2>1. CASE q = {}
    BY <2>1, <1>3 DEF Idle
  <2>2. CASE q # {}
    <3>1. event.key # NoKey /\ d.event = event
      BY <2>2, <1>2, <1>3
    <3> QED BY <3>1
  <2> QED BY <2>1, <2>2
<1>6. dispatch'[g] = d /\ \A h \in Goroutines : h # g => dispatch'[h] = dispatch[h]
  BY <1>1, <1>4
<1> QED BY <1>5, <1>6 DEF EventsRight

\* What a declared id stands for is what the table holds.
LEMMA Resolved ==
    ASSUME NEW k, NEW table, NEW w, Agrees(table, k, ExprIds), w.scope \in ExprIds \cup {0},
           Means(k, w) # NoKey
    PROVE  Means(table, w) = Means(k, w)
BY DEF Agrees, Means

\* Agreement is kept when table and face give an id the same key, or the face none.
LEMMA AgreesUpdate ==
    ASSUME NEW k, NEW table, NEW ids, NEW i \in ids, NEW x, NEW y, IsTable(k, ids), IsTable(table, ids),
           Agrees(table, k, ids), x = y \/ x = NoKey
    PROVE  /\ Agrees([table EXCEPT ![i] = y], [k EXCEPT ![i] = x], ids)
           /\ IsTable([table EXCEPT ![i] = y], ids)
BY DEF Agrees, IsTable

\* The table of tokens takes in a token that is alive, or forgets the id.
LEMMA KnowsUpdate ==
    ASSUME NEW k, NEW toks, NEW i \in TokenIds, NEW alive, NEW x, IsTable(k, TokenIds),
           IsTable(toks, TokenIds), Knows(toks, k), x \in alive \/ x = NoKey
    PROVE  /\ Knows([toks EXCEPT ![i] = x], [k EXCEPT ![i] = alive])
           /\ IsTable([toks EXCEPT ![i] = x], TokenIds)
BY DEF Knows, IsTable

\* After a message the tables agree with b and d, and the events are right.
TakenUp(f, b, d) ==
    /\ Agrees(aliases', b, ExprIds) /\ Knows(tokens', d)
    /\ IsTable(aliases', ExprIds) /\ IsTable(tokens', TokenIds)
    /\ EventsRight' /\ heard' \in [Faces -> BOOLEAN]

\* What the reader makes of the next message, where its tables agree with a and c.
LEMMA ReaderTakes ==
    ASSUME DeliveryInv, TableShape, EventsRight, NEW f \in Faces, Read(f),
           NEW a, NEW b, NEW c, NEW d, NEW m, m = Head(inbox[f]), Follows(m, a, b, c, d),
           IsTable(a, ExprIds), IsTable(c, TokenIds),
           Agrees(aliases, a, ExprIds), Knows(tokens, c)
    PROVE  /\ TakenUp(f, b, d)
           /\ ~heard'[f] => /\ ~heard[f]
                            /\ a = NoIds(ExprIds) => b = a
                            /\ c = NoTokens => d = c
<1>1. /\ m.type = "PUSH" => OnPush(f, m)
      /\ m.type = "D_TOKEN" => OnTokenDeclare(f, m)
      /\ m.type = "U_TOKEN" => OnTokenUndeclare(f, m)
      /\ m.type \notin {"PUSH", "D_TOKEN", "U_TOKEN"} => OnKeyExpr(f, m)
  BY DEF Read
<1>2. f \in Goroutines /\ IsTable(aliases, ExprIds) /\ IsTable(tokens, TokenIds) /\ heard \in [Faces -> BOOLEAN]
  BY DEF Goroutines, TableShape
<1>3. \A w : ResolveRemoteKey(w) = Means(aliases, w)
  BY DEF ResolveRemoteKey, Means
<1>4. /\ m.expr.scope \in ExprIds \cup {0}
      /\ m.type \in {"PUSH", "D_KEYEXPR", "D_TOKEN"} =>
             Means(a, m.expr) # NoKey /\ m.meant = {Means(a, m.expr)}
      /\ m.type \in {"PUSH", "D_KEYEXPR", "U_KEYEXPR", "D_TOKEN", "U_TOKEN"}
  BY DEF Follows
<1> DEFINE key == Means(a, m.expr)
<1>5. m.type \in {"PUSH", "D_KEYEXPR", "D_TOKEN"} =>
          ResolveRemoteKey(m.expr) = key /\ key # NoKey /\ m.meant = {key}
  BY <1>3, <1>4, Resolved
<1> HIDE DEF key
<1>6. CASE m.type = "PUSH"
  <2>1. b = a /\ d = c
    BY <1>6 DEF Follows
  <2>2. PICK e : e = Event(m, ResolveRemoteKey(m.expr), TRUE)
    OBVIOUS
  <2>3. Dispatch(f, FALSE, e) /\ UNCHANGED <<aliases, tokens, heard>>
    BY <1>1, <1>6, <2>2 DEF OnPush
  <2>4. e.key \in e.meant
    BY <2>2, <1>5, <1>6 DEF Event
  <2>5. EventsRight'
    BY <1>2, <2>3, <2>4, EventsDispatch
  <2> QED BY <1>2, <2>1, <2>3, <2>5 DEF TakenUp
<1>7. CASE m.type = "D_KEYEXPR"
  <2>1. m.id \in ExprIds /\ b = [a EXCEPT ![m.id] = key] /\ d = c
    BY <1>7 DEF Follows, key
  <2>2. /\ aliases' = DeclareRemoteAlias(m.id, m.expr)
        /\ heard' = [heard EXCEPT ![f] = TRUE] /\ UNCHANGED <<tokens, dispatch>>
    BY <1>1, <1>7 DEF OnKeyExpr
  <2>3. aliases' = [aliases EXCEPT ![m.id] = key]
    <3>1. Means(aliases, m.expr) = key /\ key # NoKey
      BY <1>3, <1>5, <1>7
    <3>2. key = IF m.expr.scope = 0 THEN m.expr.suffix
                    ELSE aliases[m.expr.scope] \o m.expr.suffix
      BY <3>1 DEF Means
    <3> QED BY <2>2, <3>2 DEF DeclareRemoteAlias
  <2>4. Agrees(aliases', b, ExprIds) /\ IsTable(aliases', ExprIds)
    BY <1>2, <2>1, <2>3, AgreesUpdate
  <2>5. EventsRight'
    BY <2>2 DEF EventsRight
  <2>6. heard' \in [Faces -> BOOLEAN] /\ heard'[f]
    BY <1>2, <2>2
  <2> QED BY <1>2, <2>1, <2>2, <2>4, <2>5, <2>6 DEF TakenUp
<1>8. CASE m.type = "U_KEYEXPR"
  <2>1. m.id \in ExprIds /\ b = [a EXCEPT ![m.id] = NoKey] /\ d = c
    BY <1>8 DEF Follows
  <2>2. /\ aliases' = [aliases EXCEPT ![m.id] = NoKey]
        /\ heard' = [heard EXCEPT ![f] = @ \/ FALSE] /\ UNCHANGED <<tokens, dispatch>>
    BY <1>1, <1>8 DEF OnKeyExpr
  <2>3. heard' = heard
    BY <1>2, <2>2
  <2>4. Agrees(aliases', b, ExprIds) /\ IsTable(aliases', ExprIds)
    BY <1>2, <2>1, <2>2, AgreesUpdate
  <2>5. EventsRight'
    BY <2>2 DEF EventsRight
  <2>6. a = NoIds(ExprIds) => b = a
    BY <2>1 DEF NoIds
  <2> QED BY <1>2, <2>1, <2>2, <2>3, <2>4, <2>5, <2>6 DEF TakenUp
<1>9. CASE m.type = "D_TOKEN"
  <2>1. m.id \in TokenIds /\ d = [c EXCEPT ![m.id] = c[m.id] \cup m.meant] /\ b = a
    BY <1>9 DEF Follows
  <2>2. PICK e : e = Event(m, ResolveRemoteKey(m.expr), TRUE)
    OBVIOUS
  <2>3. /\ tokens' = [tokens EXCEPT ![m.id] = key]
        /\ heard' = [heard EXCEPT ![f] = TRUE] /\ Dispatch(f, TRUE, e) /\ UNCHANGED aliases
    BY <1>1, <1>5, <1>9, <2>2 DEF OnTokenDeclare
  <2>4. e.key \in e.meant
    BY <2>2, <1>5, <1>9 DEF Event
  <2>5. EventsRight'
    BY <1>2, <2>3, <2>4, EventsDispatch
  <2>6. Knows(tokens', d) /\ IsTable(tokens', TokenIds)
    <3>1. key \in c[m.id] \cup m.meant
      BY <1>5, <1>9
    <3> QED BY <1>2, <2>1, <2>3, <3>1, KnowsUpdate
  <2>7. heard' \in [Faces -> BOOLEAN] /\ heard'[f]
    BY <1>2, <2>3
  <2> QED BY <1>2, <2>1, <2>3, <2>5, <2>6, <2>7 DEF TakenUp
<1>10. CASE m.type = "U_TOKEN"
  <2>1. /\ m.id \in TokenIds /\ c[m.id] = m.meant /\ b = a /\ m.expr.scope = 0
        /\ \E x \in m.meant : m.expr.suffix \in {NoKey, x} /\ d = [c EXCEPT ![m.id] = c[m.id] \ {x}]
    BY <1>10 DEF Follows
  <2>2. PICK x \in m.meant : m.expr.suffix \in {NoKey, x} /\ d = [c EXCEPT ![m.id] = c[m.id] \ {x}]
    BY <2>1
  <2>3. ResolveRemoteKey(m.expr) \in {NoKey, x}
    BY <2>1, <2>2 DEF ResolveRemoteKey
  <2>4. PICK k : k = IF tokens[m.id] # NoKey THEN tokens[m.id] ELSE ResolveRemoteKey(m.expr)
    OBVIOUS
  <2>5. k \in m.meant \cup {NoKey}
    BY <2>1, <2>2, <2>3, <2>4 DEF Knows
  <2>6. PICK e : e = Event(m, k, FALSE)
    OBVIOUS
  <2>7. /\ tokens' = [tokens EXCEPT ![m.id] = NoKey]
        /\ Dispatch(f, TRUE, e) /\ UNCHANGED <<aliases, heard>>
    BY <1>1, <1>10, <2>4, <2>6 DEF OnTokenUndeclare
  <2>8. e.key # NoKey => e.key \in e.meant
    BY <2>5, <2>6 DEF Event
  <2>9. EventsRight'
    BY <1>2, <2>7, <2>8, EventsDispatch
  <2>10. Knows(tokens', d) /\ IsTable(tokens', TokenIds)
    BY <1>2, <2>1, <2>2, <2>7, KnowsUpdate
  <2>11. c # NoTokens
    BY <2>1, <2>2 DEF NoTokens
  <2> QED BY <1>2, <2>1, <2>7, <2>9, <2>10, <2>11 DEF TakenUp
<1> QED BY <1>4, <1>6, <1>7, <1>8, <1>9, <1>10

\* The reader takes a message: the path goes on from the next one.
LEMMA ReadKeeps ==
    ASSUME OneFace, DeliveryInv, KeysInv, NEW f \in Faces, Read(f)
    PROVE  KeysInv'
<1>1. PICK q : q = inbox[f]
  OBVIOUS
<1>2. PICK m : m = Head(q)
  OBVIOUS
<1>3. TableShape /\ EventsRight /\ FaceKept(f)
  BY DEF KeysInv
<1>4. /\ q # <<>> /\ inbox' = [inbox EXCEPT ![f] = Tail(q)] /\ UNCHANGED <<theirs, theirToks>>
  BY <1>1 DEF Read
<1>5. PICK v, t : FaceFollowed(q, v, t, aliases, tokens, theirs[f], theirToks[f], heard[f])
  BY <1>1, <1>3 DEF FaceKept
<1>6. /\ Path(q, v, t) /\ v[Len(q) + 1] = theirs[f] /\ t[Len(q) + 1] = theirToks[f]
      /\ Agrees(aliases, v[1], ExprIds) /\ Knows(tokens, t[1])
      /\ ~heard[f] => v[1] = NoIds(ExprIds) /\ t[1] = NoTokens
  BY <1>5 DEF FaceFollowed
<1>7. /\ Follows(m, v[1], v[2], t[1], t[2]) /\ IsTable(v[1], ExprIds) /\ IsTable(t[1], TokenIds)
      /\ \E w, u : /\ Path(Tail(q), w, u) /\ w[1] = v[2] /\ u[1] = t[2]
                   /\ w[Len(Tail(q)) + 1] = v[Len(q) + 1] /\ u[Len(Tail(q)) + 1] = t[Len(q) + 1]
  BY <1>2, <1>4, <1>6, PathTail
<1>8. PICK w, u : /\ Path(Tail(q), w, u) /\ w[1] = v[2] /\ u[1] = t[2]
                  /\ w[Len(Tail(q)) + 1] = v[Len(q) + 1] /\ u[Len(Tail(q)) + 1] = t[Len(q) + 1]
  BY <1>7
<1>9. PICK a, b, c, d : a = v[1] /\ b = v[2] /\ c = t[1] /\ d = t[2]
  OBVIOUS
<1>10. /\ Follows(m, a, b, c, d) /\ IsTable(a, ExprIds) /\ IsTable(c, TokenIds)
       /\ Agrees(aliases, a, ExprIds) /\ Knows(tokens, c) /\ m = Head(inbox[f])
  BY <1>1, <1>2, <1>6, <1>7, <1>9
<1>11. /\ TakenUp(f, b, d)
       /\ ~heard'[f] => /\ ~heard[f]
                        /\ a = NoIds(ExprIds) => b = a
                        /\ c = NoTokens => d = c
  BY <1>3, <1>10, ReaderTakes
<1>12. ~heard'[f] => w[1] = NoIds(ExprIds) /\ u[1] = NoTokens
  BY <1>6, <1>8, <1>9, <1>11
<1>13. inbox'[f] = Tail(q) /\ inbox' = [h \in Faces |-> inbox'[h]]
  BY <1>3, <1>4 DEF TableShape
<1>14. FaceFollowed(inbox'[f], w, u, aliases', tokens', theirs'[f], theirToks'[f], heard'[f])
  <2>1. Agrees(aliases', w[1], ExprIds) /\ Knows(tokens', u[1])
    BY <1>8, <1>9, <1>11 DEF TakenUp
  <2>2. w[Len(Tail(q)) + 1] = theirs'[f] /\ u[Len(Tail(q)) + 1] = theirToks'[f]
    BY <1>4, <1>6, <1>8
  <2> QED BY <2>1, <2>2, <1>8, <1>12, <1>13 DEF FaceFollowed
<1>15. FaceKept(f)'
  BY <1>14 DEF FaceKept
<1>16. TableShape' /\ EventsRight'
  BY <1>3, <1>4, <1>11, <1>13 DEF TableShape, TakenUp
<1> QED BY <1>15, <1>16 DEF KeysInv, OneFace

\* A step that touches no face and no table.
LEMMA KeysSame ==
    ASSUME KeysInv, UNCHANGED <<inbox, theirs, theirToks, heard, aliases, tokens>>, EventsRight'
    PROVE  KeysInv'
<1>1. TableShape'
  BY DEF KeysInv, TableShape
<1>2. \A f \in Faces : FaceKept(f)'
  BY DEF KeysInv, FaceKept
<1> QED BY <1>1, <1>2 DEF KeysInv

\* Delivering an event changes neither it nor its key.
LEMMA EventsDispatching ==
    ASSUME DeliveryInv, EventsRight, NEW g \in Goroutines, Dispatching(g)
    PROVE  EventsRight'
<1>1. PICK s \in Subs : Deliver(g, s) \/ RingFull(g, s) \/ RingEvict(g, s)
  BY DEF Dispatching
<1>2. dispatch \in DispatchesOf({dispatch[h].event : h \in Goroutines})
  BY DEF DeliveryInv, DeliveryShape
<1>3. /\ dispatch'[g].todo # {} => dispatch'[g].event = dispatch[g].event /\ dispatch[g].todo # {}
      /\ \A h \in Goroutines : h # g => dispatch'[h] = dispatch[h]
  <2>1. CASE Deliver(g, s)
    <3>1. dispatch' = Served(g, s)
      BY <2>1 DEF Deliver
    <3> QED BY <1>2, <3>1 DEF Served, Idle, DispatchesOf
  <2>2. CASE RingFull(g, s)
    <3>1. dispatch' = [dispatch EXCEPT ![g].ring = "full", ![g].at = s]
      BY <2>2 DEF RingFull
    <3> QED BY <1>2, <3>1 DEF DispatchesOf
  <2>3. CASE RingEvict(g, s)
    <3>1. dispatch' = [dispatch EXCEPT ![g].ring = "retry"]
      BY <2>3 DEF RingEvict
    <3> QED BY <1>2, <3>1 DEF DispatchesOf
  <2> QED BY <1>1, <2>1, <2>2, <2>3
<1> QED BY <1>3 DEF EventsRight

\* A lost link takes the messages and the declared ids with it.
LEMMA LinkLostKeeps ==
    ASSUME OneFace, KeysInv, NEW f \in Faces, LinkLost(f)
    PROVE  KeysInv'
<1>1. TableShape /\ EventsRight
  BY DEF KeysInv
<1>2. /\ inbox' = [inbox EXCEPT ![f] = <<>>]
      /\ theirs' = [theirs EXCEPT ![f] = NoIds(ExprIds)]
      /\ theirToks' = [theirToks EXCEPT ![f] = NoTokens]
      /\ heard' = [heard EXCEPT ![f] = FALSE] /\ UNCHANGED <<aliases, tokens, dispatch>>
  BY DEF LinkLost, tableVars
<1>3. TableShape'
  BY <1>1, <1>2 DEF TableShape
<1>4. EventsRight'
  BY <1>1, <1>2 DEF EventsRight
<1>5. /\ inbox'[f] = <<>> /\ theirs'[f] = NoIds(ExprIds) /\ theirToks'[f] = NoTokens
  BY <1>1, <1>2 DEF TableShape
<1> DEFINE v == [i \in {1} |-> NoIds(ExprIds)]
           t == [i \in {1} |-> NoTokens]
<1>6. v[1] = NoIds(ExprIds) /\ t[1] = NoTokens
  OBVIOUS
<1> HIDE DEF v, t
<1>7. IsTable(NoIds(ExprIds), ExprIds) /\ IsTable(NoTokens, TokenIds)
  BY DEF IsTable, NoIds, NoTokens
<1>8. Path(<<>>, v, t)
  <2>1. <<>> \in Seq({}) /\ Len(<<>>) = 0
    BY EmptySeq
  <2>2. \A i \in 1..(Len(<<>>) + 1) : i = 1
    BY <2>1
  <2>3. \A i \in 1..(Len(<<>>) + 1) : IsTable(v[i], ExprIds) /\ IsTable(t[i], TokenIds)
    BY <2>2, <1>6, <1>7
  <2>4. 1..Len(<<>>) = {}
    BY <2>1
  <2> QED BY <2>1, <2>3, <2>4 DEF Path
<1>9. Agrees(aliases', v[1], ExprIds) /\ Knows(tokens', t[1])
  BY <1>6 DEF Agrees, Knows, NoIds, NoTokens
<1>10. FaceFollowed(inbox'[f], v, t, aliases', tokens', theirs'[f], theirToks'[f], heard'[f])
  <2>1. Len(<<>>) + 1 = 1
    OBVIOUS
  <2>2. v[Len(<<>>) + 1] = theirs'[f] /\ t[Len(<<>>) + 1] = theirToks'[f]
    BY <2>1, <1>5, <1>6
  <2> QED BY <2>2, <1>5, <1>6, <1>8, <1>9 DEF FaceFollowed
<1>11. FaceKept(f)'
  BY <1>10 DEF FaceKept
<1> QED BY <1>3, <1>4, <1>11 DEF KeysInv, OneFace

\* A reset of a table the reader has not filled on this link removes nothing
\* that the face has declared.
LEMMA ResetKeeps ==
    ASSUME OneFace, KeysInv, NEW f \in Faces, ~heard[f],
           ResetRemoteAliases(f) \/ ResetInboundTokens(f)
    PROVE  KeysInv'
<1>1. /\ \/ aliases' = NoIds(ExprIds) /\ UNCHANGED tokens
         \/ tokens' = NoIds(TokenIds) /\ UNCHANGED aliases
      /\ UNCHANGED <<inbox, theirs, theirToks, heard, dispatch>>
  BY DEF ResetRemoteAliases, ResetInboundTokens
<1>2. TableShape /\ EventsRight /\ FaceKept(f)
  BY DEF KeysInv
<1>3. TableShape'
  BY <1>1, <1>2 DEF TableShape, IsTable, NoIds
<1>4. EventsRight'
  BY <1>1, <1>2 DEF EventsRight
<1>5. PICK v, t : FaceFollowed(inbox[f], v, t, aliases, tokens, theirs[f], theirToks[f], heard[f])
  BY <1>2 DEF FaceKept
<1>6. v[1] = NoIds(ExprIds) /\ t[1] = NoTokens
  BY <1>5 DEF FaceFollowed
<1>7. Agrees(aliases', v[1], ExprIds) /\ Knows(tokens', t[1])
  BY <1>6 DEF Agrees, Knows, NoIds, NoTokens
<1>8. FaceFollowed(inbox[f], v, t, aliases', tokens', theirs[f], theirToks[f], heard[f])
  BY <1>5, <1>7 DEF FaceFollowed
<1>9. FaceFollowed(inbox'[f], v, t, aliases', tokens', theirs'[f], theirToks'[f], heard'[f])
  BY <1>1, <1>8
<1>10. FaceKept(f)'
  BY <1>9 DEF FaceKept
<1> QED BY <1>3, <1>4, <1>10 DEF KeysInv, OneFace

\* Init: nothing declared, nothing on its way.
LEMMA InitKeys == DeliveryInit => KeysInv
<1> SUFFICES ASSUME DeliveryInit PROVE KeysInv
  OBVIOUS
<1>1. TableShape
  BY DEF DeliveryInit, TableShape, IsTable, NoIds
<1>2. EventsRight
  BY DEF DeliveryInit, EventsRight, Idle
<1>3. ASSUME NEW f \in Faces PROVE FaceKept(f)
  <2>1. /\ inbox[f] = <<>> /\ theirs[f] = NoIds(ExprIds) /\ theirToks[f] = NoTokens
        /\ aliases = NoIds(ExprIds) /\ tokens = NoIds(TokenIds)
    BY DEF DeliveryInit
  <2> DEFINE v == [i \in {1} |-> NoIds(ExprIds)]
             t == [i \in {1} |-> NoTokens]
  <2>2. v[1] = NoIds(ExprIds) /\ t[1] = NoTokens
    OBVIOUS
  <2> HIDE DEF v, t
  <2>3. IsTable(NoIds(ExprIds), ExprIds) /\ IsTable(NoTokens, TokenIds)
    BY DEF IsTable, NoIds, NoTokens
  <2>4. <<>> \in Seq({}) /\ Len(<<>>) = 0 /\ Len(<<>>) + 1 = 1 /\ 1..Len(<<>>) = {}
    BY EmptySeq
  <2>5. \A i \in 1..(Len(<<>>) + 1) : i = 1
    BY <2>4
  <2>6. Path(<<>>, v, t)
    BY <2>2, <2>3, <2>4, <2>5 DEF Path
  <2>7. Agrees(aliases, v[1], ExprIds) /\ Knows(tokens, t[1])
    BY <2>2 DEF Agrees, Knows, NoIds, NoTokens
  <2>8. v[Len(<<>>) + 1] = theirs[f] /\ t[Len(<<>>) + 1] = theirToks[f]
    BY <2>1, <2>2, <2>4
  <2>9. FaceFollowed(inbox[f], v, t, aliases, tokens, theirs[f], theirToks[f], heard[f])
    BY <2>1, <2>2, <2>6, <2>7, <2>8 DEF FaceFollowed
  <2> QED BY <2>9 DEF FaceKept
<1> QED BY <1>1, <1>2, <1>3 DEF KeysInv

\* Every step keeps the tables and the face together, or is a reset that is not.
LEMMA NextKeys ==
    ASSUME OneFace, DeliveryInv, wiped \/ KeysInv, [DeliveryNext]_deliveryVars
    PROVE  (wiped \/ KeysInv)'
<1>1. CASE wiped
  <2>1. wiped' = wiped \/ \E f \in Faces : wiped' = (wiped \/ heard[f])
    BY ZenonT(40) DEF DeliveryNext, FaceSends, SendKeyExpr, SendUndeclareKeyExpr, SendPush, SendToken,
           SendUndeclareToken, Speak, Read, LinkLost, FaceStalls, Relink, Run, ResetRemoteAliases,
           ResetInboundTokens, ReplayTo, LocalPut, Dispatching, Deliver, RingFull, RingEvict,
           Owner, Register, Declare, Drop, Unregister, Unregistered, SendUndeclare, CloseHandler, AwaitClosure,
           Handling, Receive, CallReturns, ClosureEnds, tableVars, deliveryVars
  <2> QED BY <1>1, <2>1
<1>2. CASE KeysInv
  <2>0. EventsRight
    BY <1>2 DEF KeysInv
  <2>1. ASSUME NEW f \in Faces, FaceSends(f) PROVE KeysInv'
    BY <1>2, <2>1, FaceSendsKeeps
  <2>2. ASSUME NEW f \in Faces, Read(f) PROVE KeysInv'
    BY <1>2, <2>2, ReadKeeps
  <2>3. ASSUME NEW f \in Faces, LinkLost(f) PROVE KeysInv'
    BY <1>2, <2>3, LinkLostKeeps
  <2>8. ASSUME NEW f \in Faces, FaceStalls(f) PROVE KeysInv'
    <3>1. UNCHANGED <<inbox, theirs, theirToks, heard, aliases, tokens, dispatch>>
      BY <2>8 DEF FaceStalls, tableVars
    <3>2. EventsRight'
      BY <2>0, <3>1 DEF EventsRight
    <3> QED BY <1>2, <3>1, <3>2, KeysSame
  <2>4. ASSUME NEW f \in Faces, Relink(f) PROVE (wiped \/ KeysInv)'
    <3>1. CASE Run(f) \/ ReplayTo(f)
      <4>1. UNCHANGED <<inbox, theirs, theirToks, heard, aliases, tokens, dispatch>>
        BY <3>1 DEF Run, ReplayTo, tableVars
      <4>2. EventsRight'
        BY <2>0, <4>1 DEF EventsRight
      <4> QED BY <1>2, <4>1, <4>2, KeysSame
    <3>2. CASE ResetRemoteAliases(f) \/ ResetInboundTokens(f)
      <4>1. CASE heard[f]
        <5>1. wiped' = (wiped \/ heard[f])
          BY <3>2 DEF ResetRemoteAliases, ResetInboundTokens
        <5> QED BY <4>1, <5>1
      <4>2. CASE ~heard[f]
        BY <1>2, <3>2, <4>2, ResetKeeps
      <4> QED BY <4>1, <4>2
    <3> QED BY <2>4, <3>1, <3>2 DEF Relink
  <2>5. CASE LocalPut
    <3>1. PICK x \in Suffixes :
              Dispatch("app", FALSE, [key |-> <<x>>, meant |-> {<<x>>}, alive |-> TRUE, n |-> sends + 1])
      BY <2>5 DEF LocalPut
    <3>2. PICK e : e = [key |-> <<x>>, meant |-> {<<x>>}, alive |-> TRUE, n |-> sends + 1]
      OBVIOUS
    <3>3. e.key \in e.meant /\ "app" \in Goroutines
      BY <3>2 DEF Goroutines
    <3>4. EventsRight'
      BY <2>0, <3>1, <3>2, <3>3, EventsDispatch
    <3>5. UNCHANGED <<inbox, theirs, theirToks, heard, aliases, tokens>>
      BY <2>5 DEF LocalPut, faceVars, tableVars
    <3> QED BY <1>2, <3>4, <3>5, KeysSame
  <2>6. ASSUME NEW g \in Goroutines, Dispatching(g) PROVE KeysInv'
    <3>1. EventsRight'
      BY <2>0, <2>6, EventsDispatching
    <3>2. UNCHANGED <<inbox, theirs, theirToks, heard, aliases, tokens>>
      BY <2>6 DEF Dispatching, Deliver, RingFull, RingEvict, faceVars, tableVars
    <3> QED BY <1>2, <3>1, <3>2, KeysSame
  <2>7. CASE (\E s \in Subs : Owner(s) \/ Handling(s)) \/ UNCHANGED deliveryVars
    <3>1. UNCHANGED <<inbox, theirs, theirToks, heard, aliases, tokens, dispatch>>
      BY <2>7 DEF Owner, Register, Declare, Drop, Unregister, Unregistered, SendUndeclare, CloseHandler, AwaitClosure,
                  Handling, Receive, CallReturns, ClosureEnds, faceVars, tableVars, deliveryVars
    <3>2. EventsRight'
      BY <2>0, <3>1 DEF EventsRight
    <3> QED BY <1>2, <3>1, <3>2, KeysSame
  <2> QED BY <2>1, <2>2, <2>3, <2>4, <2>5, <2>6, <2>7, <2>8 DEF DeliveryNext
<1> QED BY <1>1, <1>2

\* With one face, the client's router, every event is delivered under the key
\* its sender meant, whatever links come and go and whatever ids they reuse, and
\* the Delete for an id that several live tokens share under the key of one of
\* them; until a reset of replayEntities meets entries that the new link had
\* already filled (declareRemoteAlias, resolveRemoteKey, onTokenDeclare,
\* onTokenUndeclare, replayEntities).
THEOREM RightKeyHolds == ASSUME OneFace PROVE DeliverySpec => []RightKey
<1>1. (wiped \/ KeysInv) => RightKey
  BY DEF KeysInv, EventsRight, RightKey
<1>2. DeliveryInit => wiped \/ KeysInv
  BY InitKeys
<1>3. DeliveryInv /\ (wiped \/ KeysInv) /\ [DeliveryNext]_deliveryVars => (wiped \/ KeysInv)'
  BY NextKeys
<1> QED BY <1>1, <1>2, <1>3, InitDeliveryInv, NextDeliveryInv, PTL DEF DeliverySpec

-----------------------------------------------------------------------------
(* Queries: dispatch of requests and their finals.                         *)

-----------------------------------------------------------------------------
(* The invariant.                                                          *)

Answers == [qbl : Qbls, to : Requests, n : Nat]
RequestOf(m) == [from |-> m.from, id |-> m.id]
MsgType ==
    {m \in [type : {"request", "final"}, from : Nodes, id : Nat]
           \cup [type : {"reply"}, from : Nodes, id : Nat, reply : Answers] :
       RequestOf(m) \in Requests}

QueriesShape ==
    /\ QueriesConstants
    /\ issued \in [Nodes -> Nat] /\ open \in SUBSET Requests /\ ended \in SUBSET Requests
    /\ replies \in [Requests -> SUBSET Answers]
    /\ chan \in [Links -> Seq(MsgType)]
    /\ serving \in [Links -> Requests \cup {NoRequest}] /\ todo \in [Links -> SUBSET Qbls]
    /\ remaining \in [Nodes -> [Requests -> Nat]] /\ finals \in [Nodes -> [Requests -> Nat]]
    /\ declared \in SUBSET Qbls /\ closedQ \in SUBSET Qbls
    /\ inQ \in [Qbls -> Seq(Requests)]
    /\ qpc \in [Qbls -> {"off", "idle", "run", "exited"}]
    /\ cur \in [Qbls -> Requests \cup {NoRequest}] /\ told \in [Qbls -> Nat]
    /\ answers \in SUBSET Answers

\* A dispatch under way is to registered queryables of its node, whose queues
\* are open; the registry's lock is held for it.
RegistryInv ==
    /\ \A c \in Links : /\ serving[c] = NoRequest <=> todo[c] = {}
                        /\ serving[c] # NoRequest => serving[c].from = c[1]
                        /\ \A q \in todo[c] : q \in declared /\ NodeOf[q] = c[2]
    /\ closedQ \cap declared = {}
    /\ \A q \in Qbls : qpc[q] = "off" => q \notin declared \cup closedQ
    /\ IsFiniteSet(declared)
    /\ ~sentOnClosed

Runs(q, r) == qpc[q] = "run" /\ cur[q] = r
InQueue(q, r) == \E i \in 1..Len(inQ[q]) : inQ[q][i] = r
ToCome(q, r) == \E c \in Links : q \in todo[c] /\ serving[c] = r

\* Queryable q has a copy of r: to be delivered, queued, or in its handler.
HasCopy(q, r) == Runs(q, r) \/ InQueue(q, r) \/ ToCome(q, r)
Copies(n, r) == {q \in Qbls : NodeOf[q] = n /\ HasCopy(q, r)}

\* A queryable never has two copies of a request.
SingleCopies ==
    \A q \in Qbls :
        /\ qpc[q] = "run" => cur[q] \in Requests
        /\ \A i, j \in 1..Len(inQ[q]) : i # j => inQ[q][i] # inQ[q][j]
        /\ \A r \in Requests : /\ ~(Runs(q, r) /\ InQueue(q, r))
                               /\ ~(Runs(q, r) /\ ToCome(q, r))
                               /\ ~(InQueue(q, r) /\ ToCome(q, r))

\* The counter counts the copies; the final comes when there are none.
CounterInv ==
    \A n \in Nodes, r \in Requests :
        /\ IsFiniteSet(Copies(n, r)) /\ remaining[n][r] = Cardinality(Copies(n, r))
        /\ finals[n][r] <= 1
        /\ finals[n][r] = 1 => Copies(n, r) = {}

Untouched(n, r) == finals[n][r] = 0 /\ Copies(n, r) = {}

\* A request on its way to a node, or not sent yet, is unknown there, and no
\* request is twice on a link.
ArrivalInv ==
    /\ \A n \in Nodes, r \in Requests : r.id > issued[r.from] => Untouched(n, r)
    /\ \A c \in Links : \A i \in 1..Len(chan[c]) : chan[c][i].type = "request" =>
          /\ chan[c][i].from = c[1] /\ chan[c][i].id <= issued[c[1]]
          /\ Untouched(c[2], RequestOf(chan[c][i]))
          /\ \A j \in 1..(i-1) : chan[c][j].type = "request" => chan[c][j].id < chan[c][i].id

QueriesInv == QueriesShape /\ RegistryInv /\ SingleCopies /\ CounterInv /\ ArrivalInv

\* There are two sessions at most.
TwoSessions == \A m, n, p \in Nodes : m = n \/ n = p \/ m = p

\* What is on link c: replies and finals for the session it leads to, finals
\* that were sent once, and no reply to a request behind its final.
AnswerOk(c, m) ==
    /\ m.type # "request" => m.from = c[2]
    /\ m.type = "reply" => m.reply.to = RequestOf(m)
    /\ m.type = "final" => finals[c[1]][RequestOf(m)] = 1
AnswersOn(c) ==
    /\ \A i \in 1..Len(chan[c]) : AnswerOk(c, chan[c][i])
    /\ \A i, j \in 1..Len(chan[c]) :
          /\ i < j /\ chan[c][i].type = "final" /\ chan[c][j].type = "reply"
          => chan[c][j].id # chan[c][i].id

\* Reply a is on link c.
OnTheWay(c, a) == \E i \in 1..Len(chan[c]) : chan[c][i].type = "reply" /\ chan[c][i].reply = a

\* Between two sessions: a reply is collected or dropped by the full channel of its
\* Get, or on its way to a Get that is open.
AnswerInv ==
    /\ \A q \in Qbls, r \in Requests : HasCopy(q, r) => r.from # NodeOf[q]
    /\ \A r \in Requests : r.id <= issued[r.from] <=> r \in open \cup ended
    /\ open \cap ended = {}
    /\ \A c \in Links : AnswersOn(c)
    /\ \A c \in Links, r \in ended : r.from = c[2] => finals[c[1]][r] = 1
    /\ \A a \in answers :
          \/ a \in replies[a.to] \cup dropped[a.to]
          \/ a.to \in open /\ \A c \in Links : a.to.from = c[2] => OnTheWay(c, a)

\* What is in a Get's channel has been collected; replies were dropped only
\* when the channel was full, and then it had been filled.
ChannelInv ==
    /\ held \in [Requests -> SUBSET Answers] /\ dropped \in [Requests -> SUBSET Answers]
    /\ \A r \in Requests : /\ held[r] \subseteq replies[r] /\ IsFiniteSet(replies[r])
                           /\ dropped[r] # {} => Cardinality(replies[r]) >= Buffer

-----------------------------------------------------------------------------
(* Requests, links and messages.                                           *)

\* A request is what its two fields are; none has the id 0 of NoRequest.
LEMMA RequestFacts ==
    ASSUME QueriesConstants
    PROVE  /\ \A r \in Requests : /\ r.from \in Nodes /\ r.id \in Nat \ {0}
                                  /\ r.id \in 1..MaxGets[r.from]
                                  /\ r = [from |-> r.from, id |-> r.id]
           /\ \A n \in Nodes : \A i \in 1..MaxGets[n] : [from |-> n, id |-> i] \in Requests
           /\ \A r, s \in Requests : r.from = s.from /\ r.id = s.id => r = s
           /\ NoRequest \notin Requests
<1>1. ASSUME NEW r \in Requests
      PROVE  /\ r.from \in Nodes /\ r.id \in Nat \ {0}
             /\ r.id \in 1..MaxGets[r.from]
             /\ r = [from |-> r.from, id |-> r.id]
  <2>1. PICK n \in Nodes : r \in {[from |-> n, id |-> i] : i \in 1 .. MaxGets[n]}
    BY DEF Requests
  <2>2. PICK i \in 1..MaxGets[n] : r = [from |-> n, id |-> i]
    BY <2>1
  <2>3. MaxGets[n] \in Nat
    BY DEF QueriesConstants
  <2> QED BY <2>2, <2>3
<1>2. ASSUME NEW n \in Nodes, NEW i \in 1..MaxGets[n]
      PROVE  [from |-> n, id |-> i] \in Requests
  BY DEF Requests
<1>3. NoRequest \notin Requests
  <2>1. NoRequest.id = 0
    BY DEF NoRequest
  <2> QED BY <1>1, <2>1
<1>4. ASSUME NEW r \in Requests, NEW s \in Requests, r.from = s.from, r.id = s.id
      PROVE  r = s
  BY <1>1, <1>4
<1> QED BY <1>1, <1>2, <1>3, <1>4

\* A link is the pair of its ends, which are different sessions.
LEMMA LinkFacts ==
    /\ \A c \in Links : c[1] \in Nodes /\ c[2] \in Nodes /\ c[1] # c[2]
    /\ \A c, d \in Links : c[1] = d[1] /\ c[2] = d[2] => c = d
BY DEF Links

\* The fields of a message, and the messages the sessions make.
LEMMA MessageFacts ==
    ASSUME QueriesConstants
    PROVE  /\ \A m \in MsgType : /\ m.type \in {"request", "final", "reply"}
                                 /\ m.from \in Nodes /\ m.id \in Nat
                                 /\ RequestOf(m) \in Requests
                                 /\ RequestOf(m).from = m.from /\ RequestOf(m).id = m.id
                                 /\ m.type = "reply" => m.reply \in Answers
           /\ \A r \in Requests, t \in {"request", "final"} :
                  [type |-> t, from |-> r.from, id |-> r.id] \in MsgType
           /\ \A r \in Requests, a \in Answers :
                  [type |-> "reply", from |-> r.from, id |-> r.id, reply |-> a] \in MsgType
<1>1. ASSUME NEW m \in MsgType
      PROVE  /\ m.type \in {"request", "final", "reply"}
             /\ m.from \in Nodes /\ m.id \in Nat
             /\ RequestOf(m) \in Requests
             /\ RequestOf(m).from = m.from /\ RequestOf(m).id = m.id
             /\ m.type = "reply" => m.reply \in Answers
  BY DEF MsgType, RequestOf
<1>2. ASSUME NEW r \in Requests, NEW t \in {"request", "final"}
      PROVE  [type |-> t, from |-> r.from, id |-> r.id] \in MsgType
  <2>1. RequestOf([type |-> t, from |-> r.from, id |-> r.id]) = r
    BY RequestFacts DEF RequestOf
  <2> QED BY <2>1, RequestFacts DEF MsgType
<1>3. ASSUME NEW r \in Requests, NEW a \in Answers
      PROVE  [type |-> "reply", from |-> r.from, id |-> r.id, reply |-> a] \in MsgType
  <2>1. RequestOf([type |-> "reply", from |-> r.from, id |-> r.id, reply |-> a]) = r
    BY RequestFacts DEF RequestOf
  <2> QED BY <2>1, RequestFacts DEF MsgType
<1> QED BY <1>1, <1>2, <1>3

\* A message appended to every link that leaves n.
LEMMA BroadcastFacts ==
    ASSUME NEW M, NEW ch \in [Links -> Seq(M)], NEW m \in M, NEW n \in Nodes
    PROVE  /\ Broadcast(n, ch, m) \in [Links -> Seq(M)]
           /\ \A c \in Links : c[1] = n => Broadcast(n, ch, m)[c] = Append(ch[c], m)
           /\ \A c \in Links : c[1] # n => Broadcast(n, ch, m)[c] = ch[c]
BY AppendProperties DEF Broadcast

\* The first message of a link taken off it.
LEMMA PopFacts ==
    ASSUME NEW M, chan \in [Links -> Seq(M)], NEW c \in Links, chan[c] # <<>>
    PROVE  /\ Pop(c) \in [Links -> Seq(M)]
           /\ Pop(c)[c] = Tail(chan[c])
           /\ \A d \in Links : d # c => Pop(c)[d] = chan[d]
           /\ Head(chan[c]) \in M /\ Head(chan[c]) = chan[c][1]
           /\ Len(chan[c]) \in Nat \ {0}
BY HeadTailProperties, EmptySeq, LenProperties DEF Pop

\* The messages of a sequence whose first one is taken or that gets a new last one.
LEMMA IndexFacts ==
    ASSUME NEW M, NEW s \in Seq(M), NEW m \in M
    PROVE  /\ Len(s) \in Nat /\ \A i \in 1..Len(s) : s[i] \in M
           /\ Append(s, m) \in Seq(M) /\ Len(Append(s, m)) = Len(s) + 1
           /\ \A i \in 1..Len(s) : Append(s, m)[i] = s[i]
           /\ Append(s, m)[Len(s) + 1] = m
           /\ s # <<>> => /\ Len(s) \in Nat \ {0} /\ Tail(s) \in Seq(M)
                          /\ Len(Tail(s)) = Len(s) - 1
                          /\ \A i \in 1..(Len(s) - 1) : Tail(s)[i] = s[i + 1]
                          /\ Head(s) = s[1]
BY AppendProperties, HeadTailProperties, EmptySeq, LenProperties, ElementOfSeq

-----------------------------------------------------------------------------
(* The copies of a request, step by step.                                  *)

\* A step that moves no query leaves the copies as they are.
LEMMA SameCopies ==
    ASSUME UNCHANGED <<inQ, serving, todo, cur>>,
           \A q \in Qbls : qpc'[q] = "run" <=> qpc[q] = "run"
    PROVE  /\ \A q \in Qbls, r \in Requests : /\ Runs(q, r)' <=> Runs(q, r)
                                              /\ InQueue(q, r)' <=> InQueue(q, r)
                                              /\ ToCome(q, r)' <=> ToCome(q, r)
                                              /\ HasCopy(q, r)' <=> HasCopy(q, r)
           /\ SingleCopies => SingleCopies'
<1>1. ASSUME NEW q \in Qbls, NEW r \in Requests
      PROVE  /\ Runs(q, r)' <=> Runs(q, r)
             /\ InQueue(q, r)' <=> InQueue(q, r)
             /\ ToCome(q, r)' <=> ToCome(q, r)
  BY DEF Runs, InQueue, ToCome
<1>2. SingleCopies => SingleCopies'
  BY <1>1 DEF SingleCopies
<1> QED BY <1>1, <1>2 DEF HasCopy

\* A queryable is to get a request from one reader at most.
LEMMA OneReader ==
    ASSUME QueriesShape, RegistryInv, NEW c \in Links, NEW d \in Links,
           NEW q \in Qbls, q \in todo[c], q \in todo[d], serving[c] = serving[d]
    PROVE  c = d
<1>1. serving[c] # NoRequest /\ serving[d] # NoRequest
  BY DEF RegistryInv
<1>2. c[1] = d[1] /\ c[2] = d[2]
  BY <1>1 DEF RegistryInv
<1> QED BY <1>2, LinkFacts

\* What a reader has still to deliver is a copy of a request of its peer.
LEMMA DeliverFacts ==
    ASSUME QueriesInv, NEW c \in Links, NEW q \in Qbls, q \in todo[c]
    PROVE  /\ serving[c] \in Requests /\ serving[c].from = c[1] /\ NodeOf[q] = c[2]
           /\ q \in declared /\ q \notin closedQ
           /\ ToCome(q, serving[c]) /\ q \in Copies(c[2], serving[c])
<1>1. serving[c] # NoRequest
  BY DEF QueriesInv, RegistryInv
<1>2. serving[c] \in Requests
  BY <1>1 DEF QueriesInv, QueriesShape
<1>3. serving[c].from = c[1] /\ NodeOf[q] = c[2] /\ q \in declared /\ q \notin closedQ
  BY <1>1 DEF QueriesInv, RegistryInv
<1>4. ToCome(q, serving[c])
  BY DEF ToCome
<1> QED BY <1>2, <1>3, <1>4 DEF Copies, HasCopy

\* The reader has done with one queryable: it is to get no copy any more.
LEMMA DeliverToCome ==
    ASSUME QueriesInv, NEW c \in Links, NEW q0 \in Qbls, q0 \in todo[c],
           todo' = [todo EXCEPT ![c] = @ \ {q0}],
           serving' = [serving EXCEPT ![c] = IF todo[c] = {q0} THEN NoRequest ELSE @]
    PROVE  \A q \in Qbls, r \in Requests :
               ToCome(q, r)' <=> ToCome(q, r) /\ ~(q = q0 /\ r = serving[c])
<1>0. QueriesShape /\ RegistryInv /\ serving \in [Links -> Requests \cup {NoRequest}]
      /\ todo \in [Links -> SUBSET Qbls]
  BY DEF QueriesInv, QueriesShape
<1>1. /\ todo'[c] = todo[c] \ {q0}
      /\ serving'[c] = IF todo[c] = {q0} THEN NoRequest ELSE serving[c]
      /\ \A d \in Links : d # c => todo'[d] = todo[d] /\ serving'[d] = serving[d]
  BY <1>0
<1>2. ASSUME NEW q \in Qbls, NEW r \in Requests, ToCome(q, r)'
      PROVE  ToCome(q, r) /\ ~(q = q0 /\ r = serving[c])
  <2>1. PICK d \in Links : q \in todo'[d] /\ serving'[d] = r
    BY <1>2 DEF ToCome
  <2>2. CASE d = c
    <3>1. q # q0 /\ q \in todo[c]
      BY <2>1, <2>2, <1>1
    <3>2. serving[c] = r
      BY <2>1, <2>2, <1>1, <3>1
    <3> QED BY <3>1, <3>2 DEF ToCome
  <2>3. CASE d # c
    <3>1. q \in todo[d] /\ serving[d] = r
      BY <2>1, <2>3, <1>1
    <3>2. ~(q = q0 /\ r = serving[c])
      BY <3>1, <2>3, <1>0, OneReader
    <3> QED BY <3>1, <3>2 DEF ToCome
  <2> QED BY <2>2, <2>3
<1>3. ASSUME NEW q \in Qbls, NEW r \in Requests, ToCome(q, r), ~(q = q0 /\ r = serving[c])
      PROVE  ToCome(q, r)'
  <2>1. PICK d \in Links : q \in todo[d] /\ serving[d] = r
    BY <1>3 DEF ToCome
  <2>2. q \in todo'[d] /\ serving'[d] = r
    <3>1. CASE d = c
      <4>1. q # q0
        BY <3>1, <2>1, <1>3
      <4> QED BY <4>1, <3>1, <2>1, <1>1
    <3>2. CASE d # c
      BY <3>2, <2>1, <1>1
    <3> QED BY <3>1, <3>2
  <2> QED BY <2>2 DEF ToCome
<1> QED BY <1>2, <1>3

\* Deliver into the queue: the copy moves from the reader to the queue.
LEMMA QueuedCopies ==
    ASSUME QueriesInv, NEW c \in Links, NEW q0 \in Qbls, DeliverQuery(c, q0), Len(inQ[q0]) < QCap
    PROVE  /\ \A q \in Qbls, r \in Requests : HasCopy(q, r)' <=> HasCopy(q, r)
           /\ SingleCopies'
           /\ UNCHANGED <<remaining, chan, finals>>
<1> DEFINE r0 == serving[c]
<1>0. /\ inQ \in [Qbls -> Seq(Requests)] /\ q0 \in todo[c]
      /\ todo' = [todo EXCEPT ![c] = @ \ {q0}]
      /\ serving' = [serving EXCEPT ![c] = IF todo[c] = {q0} THEN NoRequest ELSE @]
      /\ inQ' = [inQ EXCEPT ![q0] = Append(@, r0)]
      /\ UNCHANGED <<qpc, cur, remaining, chan, finals>>
  BY DEF QueriesInv, QueriesShape, DeliverQuery, qblVars
<1>1. r0 \in Requests /\ ToCome(q0, r0)
  BY <1>0, DeliverFacts
<1>2. \A q \in Qbls, r \in Requests : ToCome(q, r)' <=> ToCome(q, r) /\ ~(q = q0 /\ r = r0)
  BY <1>0, DeliverToCome
<1> HIDE DEF r0
<1>3. \A q \in Qbls, r \in Requests : Runs(q, r)' <=> Runs(q, r)
  BY <1>0 DEF Runs
<1>4. /\ inQ'[q0] = Append(inQ[q0], r0) /\ inQ[q0] \in Seq(Requests)
      /\ \A q \in Qbls : q # q0 => inQ'[q] = inQ[q]
  BY <1>0
<1>5. /\ Len(inQ[q0]) \in Nat /\ Len(inQ'[q0]) = Len(inQ[q0]) + 1
      /\ \A i \in 1..Len(inQ[q0]) : inQ'[q0][i] = inQ[q0][i]
      /\ inQ'[q0][Len(inQ[q0]) + 1] = r0
  BY <1>4, <1>1, IndexFacts
<1>6. \A q \in Qbls, r \in Requests : InQueue(q, r)' <=> InQueue(q, r) \/ (q = q0 /\ r = r0)
  <2> TAKE q \in Qbls, r \in Requests
  <2>1. CASE q # q0
    BY <2>1, <1>4 DEF InQueue
  <2>2. CASE q = q0
    <3>1. PICK n \in Nat : n = Len(inQ[q0])
      BY <1>5
    <3>2. InQueue(q, r)' <=> \E i \in 1..(n + 1) : inQ'[q0][i] = r
      BY <1>5, <2>2, <3>1 DEF InQueue
    <3>3. InQueue(q, r) <=> \E i \in 1..n : inQ[q0][i] = r
      BY <2>2, <3>1 DEF InQueue
    <3>4. \A i \in 1..(n + 1) : i \in 1..n \/ i = n + 1
      OBVIOUS
    <3>5. \A i \in 1..n : i \in 1..(n + 1) /\ inQ'[q0][i] = inQ[q0][i]
      BY <3>1, <1>5
    <3>6. n + 1 \in 1..(n + 1) /\ inQ'[q0][n + 1] = r0
      BY <3>1, <1>5
    <3>7. (\E i \in 1..(n + 1) : inQ'[q0][i] = r) <=> (\E i \in 1..n : inQ[q0][i] = r) \/ r = r0
      BY <3>4, <3>5, <3>6
    <3> QED BY <2>2, <3>2, <3>3, <3>7
  <2> QED BY <2>1, <2>2
<1>7. \A q \in Qbls, r \in Requests : HasCopy(q, r)' <=> HasCopy(q, r)
  BY <1>1, <1>2, <1>3, <1>6 DEF HasCopy
<1>8. SingleCopies'
  <2>1. SingleCopies
    BY DEF QueriesInv
  <2>2. ASSUME NEW q \in Qbls, qpc'[q] = "run" PROVE cur'[q] \in Requests
    BY <2>1, <2>2, <1>0 DEF SingleCopies
  <2>3. ASSUME NEW q \in Qbls, NEW i \in 1..Len(inQ'[q]), NEW j \in 1..Len(inQ'[q]), i # j
        PROVE  inQ'[q][i] # inQ'[q][j]
    <3>1. CASE q # q0
      BY <3>1, <2>3, <1>4, <2>1 DEF SingleCopies
    <3>2. CASE q = q0
      <4>1. \A k \in 1..Len(inQ[q0]) : inQ[q0][k] # r0
        BY <1>1, <2>1 DEF SingleCopies, InQueue
      <4>2. \A k, l \in 1..Len(inQ[q0]) : k # l => inQ[q0][k] # inQ[q0][l]
        BY <2>1 DEF SingleCopies
      <4>3. PICK n \in Nat : n = Len(inQ[q0])
        BY <1>5
      <4>4. i \in 1..(n + 1) /\ j \in 1..(n + 1)
        BY <3>2, <4>3, <1>5
      <4>5. CASE i = n + 1
        <5>1. j \in 1..n
          BY <4>4, <4>5, <2>3
        <5> QED BY <5>1, <4>5, <4>1, <4>3, <3>2, <1>5
      <4>6. CASE i # n + 1
        <5>1. i \in 1..n
          BY <4>4, <4>6
        <5>2. CASE j = n + 1
          BY <5>1, <5>2, <4>1, <4>3, <3>2, <1>5
        <5>3. CASE j # n + 1
          <6>1. j \in 1..n
            BY <4>4, <5>3
          <6> QED BY <5>1, <6>1, <4>2, <4>3, <3>2, <1>5, <2>3
        <5> QED BY <5>2, <5>3
      <4> QED BY <4>5, <4>6
    <3> QED BY <3>1, <3>2
  <2>4. ASSUME NEW q \in Qbls, NEW r \in Requests
        PROVE  /\ ~(Runs(q, r)' /\ InQueue(q, r)')
               /\ ~(Runs(q, r)' /\ ToCome(q, r)')
               /\ ~(InQueue(q, r)' /\ ToCome(q, r)')
    BY <2>1, <1>1, <1>2, <1>3, <1>6 DEF SingleCopies
  <2> QED BY <2>2, <2>3, <2>4 DEF SingleCopies
<1> QED BY <1>0, <1>7, <1>8

\* A copy finished: those of the others, and of other requests, are left.
LEMMA FullCopies ==
    ASSUME QueriesInv, NEW c \in Links, NEW q0 \in Qbls, DeliverQuery(c, q0), ~(Len(inQ[q0]) < QCap)
    PROVE  /\ \A q \in Qbls, r \in Requests :
                  HasCopy(q, r)' <=> HasCopy(q, r) /\ ~(q = q0 /\ r = serving[c])
           /\ SingleCopies'
           /\ FinishQuery(c[2], serving[c])
<1> DEFINE r0 == serving[c]
<1>0. /\ q0 \in todo[c] /\ FinishQuery(c[2], r0)
      /\ todo' = [todo EXCEPT ![c] = @ \ {q0}]
      /\ serving' = [serving EXCEPT ![c] = IF todo[c] = {q0} THEN NoRequest ELSE @]
      /\ UNCHANGED <<inQ, qpc, cur>>
  BY DEF DeliverQuery, qblVars
<1>1. r0 \in Requests /\ ToCome(q0, r0) /\ SingleCopies
  BY <1>0, DeliverFacts DEF QueriesInv
<1>2. \A q \in Qbls, r \in Requests : ToCome(q, r)' <=> ToCome(q, r) /\ ~(q = q0 /\ r = r0)
  BY <1>0, DeliverToCome
<1> HIDE DEF r0
<1>3. \A q \in Qbls, r \in Requests : Runs(q, r)' <=> Runs(q, r)
  BY <1>0 DEF Runs
<1>4. \A q \in Qbls, r \in Requests : InQueue(q, r)' <=> InQueue(q, r)
  BY <1>0 DEF InQueue
<1>5. \A q \in Qbls, r \in Requests : HasCopy(q, r)' <=> HasCopy(q, r) /\ ~(q = q0 /\ r = r0)
  BY <1>1, <1>2, <1>3, <1>4 DEF HasCopy, SingleCopies
<1>6. SingleCopies'
  <2>1. \A q \in Qbls : /\ qpc'[q] = "run" => cur'[q] \in Requests
                        /\ \A i, j \in 1..Len(inQ'[q]) : i # j => inQ'[q][i] # inQ'[q][j]
    BY <1>0, <1>1 DEF SingleCopies
  <2>2. ASSUME NEW q \in Qbls, NEW r \in Requests
        PROVE  /\ ~(Runs(q, r)' /\ InQueue(q, r)')
               /\ ~(Runs(q, r)' /\ ToCome(q, r)')
               /\ ~(InQueue(q, r)' /\ ToCome(q, r)')
    BY <1>1, <1>2, <1>3, <1>4 DEF SingleCopies
  <2> QED BY <2>1, <2>2 DEF SingleCopies
<1> QED BY <1>0, <1>5, <1>6 DEF r0

\* StartHandler: the copy moves from the queue to the handler.
LEMMA StartedCopies ==
    ASSUME QueriesInv, NEW q0 \in Qbls, StartHandler(q0)
    PROVE  /\ \A q \in Qbls, r \in Requests : HasCopy(q, r)' <=> HasCopy(q, r)
           /\ SingleCopies'
<1> DEFINE s == inQ[q0]
           r0 == s[1]
<1>0. /\ inQ \in [Qbls -> Seq(Requests)] /\ qpc \in [Qbls -> {"off", "idle", "run", "exited"}]
      /\ cur \in [Qbls -> Requests \cup {NoRequest}] /\ SingleCopies
      /\ qpc[q0] = "idle" /\ s # <<>>
      /\ qpc' = [qpc EXCEPT ![q0] = "run"]
      /\ cur' = [cur EXCEPT ![q0] = Head(s)]
      /\ inQ' = [inQ EXCEPT ![q0] = Tail(s)]
      /\ UNCHANGED <<serving, todo>>
  BY DEF QueriesInv, QueriesShape, StartHandler, readerVars
<1>1. s \in Seq(Requests)
  BY <1>0
<1>2. PICK n \in Nat : n + 1 = Len(s)
  <2>1. Len(s) \in Nat \ {0}
    BY <1>0, <1>1, EmptySeq, LenProperties
  <2>2. Len(s) - 1 \in Nat /\ (Len(s) - 1) + 1 = Len(s)
    BY <2>1
  <2> QED BY <2>2
<1>3. /\ r0 \in Requests /\ Head(s) = r0 /\ Len(Tail(s)) = n
      /\ \A i \in 1..n : Tail(s)[i] = s[i + 1]
  <2>1. 1 \in 1..Len(s) /\ Len(s) - 1 = n
    BY <1>2
  <2> QED BY <1>0, <1>1, <1>2, <2>1, HeadTailProperties, ElementOfSeq
<1>4. /\ qpc'[q0] = "run" /\ cur'[q0] = r0 /\ inQ'[q0] = Tail(s)
      /\ \A q \in Qbls : q # q0 => qpc'[q] = qpc[q] /\ cur'[q] = cur[q] /\ inQ'[q] = inQ[q]
  BY <1>0, <1>3
<1>5. /\ \A i \in 1..(n + 1) : inQ[q0][i] = s[i]
      /\ Len(inQ[q0]) = n + 1 /\ inQ[q0][1] = r0
      /\ \A i, j \in 1..(n + 1) : i # j => s[i] # s[j]
  BY <1>0, <1>2 DEF SingleCopies
<1>6. r0 \in Requests /\ Len(inQ'[q0]) = n /\ \A i \in 1..n : inQ'[q0][i] = s[i + 1]
  BY <1>3, <1>4
<1>7. s[1] = r0
  OBVIOUS
<1> HIDE DEF s, r0
<1>8. \A r \in Requests : InQueue(q0, r)' <=> InQueue(q0, r) /\ r # r0
  <2> TAKE r \in Requests
  <2>1. InQueue(q0, r)' <=> \E i \in 1..n : s[i + 1] = r
    BY <1>6 DEF InQueue
  <2>2. InQueue(q0, r) <=> \E i \in 1..(n + 1) : s[i] = r
    BY <1>5 DEF InQueue
  <2>3. ASSUME NEW i \in 1..n PROVE i + 1 \in 1..(n + 1) /\ s[i + 1] # r0
    <3>1. i + 1 \in 1..(n + 1) /\ 1 \in 1..(n + 1) /\ i + 1 # 1
      OBVIOUS
    <3> QED BY <3>1, <1>5, <1>7
  <2>4. ASSUME NEW i \in 1..(n + 1), s[i] # r0 PROVE \E j \in 1..n : s[j + 1] = s[i]
    <3>1. i # 1
      BY <2>4, <1>7
    <3>2. i - 1 \in 1..n /\ (i - 1) + 1 = i
      BY <3>1
    <3> QED BY <3>2
  <2>5. InQueue(q0, r)' => InQueue(q0, r) /\ r # r0
    BY <2>1, <2>2, <2>3
  <2>6. InQueue(q0, r) /\ r # r0 => InQueue(q0, r)'
    BY <2>1, <2>2, <2>4
  <2> QED BY <2>5, <2>6
<1>9. InQueue(q0, r0)
  BY <1>5 DEF InQueue
<1>10. \A q \in Qbls, r \in Requests : q # q0 => (InQueue(q, r)' <=> InQueue(q, r))
  BY <1>4 DEF InQueue
<1>11. \A r \in Requests : (Runs(q0, r)' <=> r = r0) /\ ~Runs(q0, r)
  BY <1>4, <1>0 DEF Runs
<1>12. \A q \in Qbls, r \in Requests : q # q0 => (Runs(q, r)' <=> Runs(q, r))
  BY <1>4 DEF Runs
<1>13. \A q \in Qbls, r \in Requests : ToCome(q, r)' <=> ToCome(q, r)
  BY <1>0 DEF ToCome
<1>14. \A q \in Qbls, r \in Requests : HasCopy(q, r)' <=> HasCopy(q, r)
  <2> TAKE q \in Qbls, r \in Requests
  <2>1. CASE q = q0
    BY <2>1, <1>6, <1>8, <1>9, <1>11, <1>13 DEF HasCopy
  <2>2. CASE q # q0
    BY <2>2, <1>10, <1>12, <1>13 DEF HasCopy
  <2> QED BY <2>1, <2>2
<1>15. SingleCopies'
  <2>1. ASSUME NEW q \in Qbls, qpc'[q] = "run" PROVE cur'[q] \in Requests
    BY <2>1, <1>0, <1>4, <1>6 DEF SingleCopies
  <2>2. ASSUME NEW q \in Qbls, NEW i \in 1..Len(inQ'[q]), NEW j \in 1..Len(inQ'[q]), i # j
        PROVE  inQ'[q][i] # inQ'[q][j]
    <3>1. CASE q # q0
      BY <3>1, <2>2, <1>4, <1>0 DEF SingleCopies
    <3>2. CASE q = q0
      <4>1. i \in 1..n /\ j \in 1..n
        BY <3>2, <1>6
      <4>2. i + 1 \in 1..(n + 1) /\ j + 1 \in 1..(n + 1) /\ i + 1 # j + 1
        BY <4>1, <2>2
      <4>3. s[i + 1] # s[j + 1]
        BY <4>2, <1>5, ZenonT(40)
      <4>4. inQ'[q0][i] = s[i + 1] /\ inQ'[q0][j] = s[j + 1]
        BY <4>1, <1>6
      <4> QED BY <3>2, <4>3, <4>4
    <3> QED BY <3>1, <3>2
  <2>3. ASSUME NEW q \in Qbls, NEW r \in Requests
        PROVE  /\ ~(Runs(q, r)' /\ InQueue(q, r)')
               /\ ~(Runs(q, r)' /\ ToCome(q, r)')
               /\ ~(InQueue(q, r)' /\ ToCome(q, r)')
    <3>1. CASE q = q0
      BY <3>1, <1>0, <1>6, <1>8, <1>9, <1>11, <1>13 DEF SingleCopies
    <3>2. CASE q # q0
      BY <3>2, <1>0, <1>10, <1>12, <1>13 DEF SingleCopies
    <3> QED BY <3>1, <3>2
  <2> QED BY <2>1, <2>2, <2>3 DEF SingleCopies
<1> QED BY <1>14, <1>15

\* EndHandler: the handler's copy is finished.
LEMMA EndedCopies ==
    ASSUME QueriesInv, NEW q0 \in Qbls, EndHandler(q0)
    PROVE  /\ cur[q0] \in Requests /\ q0 \in Copies(NodeOf[q0], cur[q0])
           /\ \A q \in Qbls, r \in Requests :
                  HasCopy(q, r)' <=> HasCopy(q, r) /\ ~(q = q0 /\ r = cur[q0])
           /\ SingleCopies'
<1> DEFINE r0 == cur[q0]
<1>0. /\ qpc \in [Qbls -> {"off", "idle", "run", "exited"}] /\ SingleCopies
      /\ qpc[q0] = "run" /\ qpc' = [qpc EXCEPT ![q0] = "idle"]
      /\ UNCHANGED <<inQ, cur, serving, todo>>
  BY DEF QueriesInv, QueriesShape, EndHandler, readerVars
<1>1. r0 \in Requests /\ Runs(q0, r0)
  BY <1>0 DEF SingleCopies, Runs
<1>2. \A q \in Qbls, r \in Requests : Runs(q, r)' <=> Runs(q, r) /\ ~(q = q0 /\ r = r0)
  BY <1>0 DEF Runs
<1> HIDE DEF r0
<1>3. \A q \in Qbls, r \in Requests : /\ InQueue(q, r)' <=> InQueue(q, r)
                                      /\ ToCome(q, r)' <=> ToCome(q, r)
  BY <1>0 DEF InQueue, ToCome
<1>4. \A q \in Qbls, r \in Requests : HasCopy(q, r)' <=> HasCopy(q, r) /\ ~(q = q0 /\ r = r0)
  BY <1>0, <1>1, <1>2, <1>3 DEF HasCopy, SingleCopies
<1>5. SingleCopies'
  <2>1. \A q \in Qbls : /\ qpc'[q] = "run" => cur'[q] \in Requests
                        /\ \A i, j \in 1..Len(inQ'[q]) : i # j => inQ'[q][i] # inQ'[q][j]
    <3>1. \A q \in Qbls : qpc'[q] = "run" => qpc[q] = "run"
      BY <1>0
    <3> QED BY <1>0, <3>1 DEF SingleCopies
  <2>2. ASSUME NEW q \in Qbls, NEW r \in Requests
        PROVE  /\ ~(Runs(q, r)' /\ InQueue(q, r)')
               /\ ~(Runs(q, r)' /\ ToCome(q, r)')
               /\ ~(InQueue(q, r)' /\ ToCome(q, r)')
    BY <1>0, <1>2, <1>3 DEF SingleCopies
  <2> QED BY <2>1, <2>2 DEF SingleCopies
<1>6. q0 \in Copies(NodeOf[q0], r0)
  BY <1>1 DEF Copies, HasCopy
<1> QED BY <1>1, <1>4, <1>5, <1>6 DEF r0

\* The reader of c starts to deliver r0 to these queryables.
Arms(c, r0, matched) ==
    /\ matched \subseteq Qbls /\ serving[c] = NoRequest
    /\ serving' = [serving EXCEPT ![c] = r0] /\ todo' = [todo EXCEPT ![c] = matched]
    /\ inQ' = inQ /\ qpc' = qpc /\ cur' = cur
    /\ \A q \in matched : ~HasCopy(q, r0)

\* ReceiveRequest with queryables: each of them is to get a copy.
LEMMA RequestedCopies ==
    ASSUME QueriesInv, NEW c \in Links, NEW r0 \in Requests, NEW matched,
           Arms(c, r0, matched)
    PROVE  /\ \A q \in Qbls, r \in Requests :
                  HasCopy(q, r)' <=> HasCopy(q, r) \/ (q \in matched /\ r = r0)
           /\ SingleCopies'
<1> USE DEF Arms
<1>0. /\ serving \in [Links -> Requests \cup {NoRequest}] /\ todo \in [Links -> SUBSET Qbls]
      /\ RegistryInv /\ SingleCopies
  BY DEF QueriesInv, QueriesShape
<1>1. /\ todo[c] = {} /\ todo'[c] = matched /\ serving'[c] = r0
      /\ \A d \in Links : d # c => todo'[d] = todo[d] /\ serving'[d] = serving[d]
  BY <1>0 DEF RegistryInv
<1>2. \A q \in Qbls, r \in Requests : ToCome(q, r)' <=> ToCome(q, r) \/ (q \in matched /\ r = r0)
  <2> TAKE q \in Qbls, r \in Requests
  <2>1. ASSUME ToCome(q, r)' PROVE ToCome(q, r) \/ (q \in matched /\ r = r0)
    <3>1. PICK d \in Links : q \in todo'[d] /\ serving'[d] = r
      BY <2>1 DEF ToCome
    <3> QED BY <3>1, <1>1 DEF ToCome
  <2>2. ASSUME ToCome(q, r) PROVE ToCome(q, r)'
    <3>1. PICK d \in Links : q \in todo[d] /\ serving[d] = r
      BY <2>2 DEF ToCome
    <3>2. d # c
      BY <3>1, <1>1
    <3>3. q \in todo'[d] /\ serving'[d] = r
      BY <3>1, <3>2, <1>1
    <3> QED BY <3>3 DEF ToCome
  <2>3. ASSUME q \in matched, r = r0 PROVE ToCome(q, r)'
    BY <2>3, <1>1 DEF ToCome
  <2> QED BY <2>1, <2>2, <2>3
<1>3. \A q \in Qbls, r \in Requests : /\ Runs(q, r)' <=> Runs(q, r)
                                      /\ InQueue(q, r)' <=> InQueue(q, r)
  BY DEF Runs, InQueue
<1>4. \A q \in Qbls, r \in Requests : HasCopy(q, r)' <=> HasCopy(q, r) \/ (q \in matched /\ r = r0)
  BY <1>2, <1>3 DEF HasCopy
<1>5. SingleCopies'
  <2>1. \A q \in Qbls : /\ qpc'[q] = "run" => cur'[q] \in Requests
                        /\ \A i, j \in 1..Len(inQ'[q]) : i # j => inQ'[q][i] # inQ'[q][j]
    BY <1>0 DEF SingleCopies
  <2>2. ASSUME NEW q \in Qbls, NEW r \in Requests
        PROVE  /\ ~(Runs(q, r)' /\ InQueue(q, r)')
               /\ ~(Runs(q, r)' /\ ToCome(q, r)')
               /\ ~(InQueue(q, r)' /\ ToCome(q, r)')
    BY <1>0, <1>2, <1>3 DEF SingleCopies, HasCopy
  <2> QED BY <2>1, <2>2 DEF SingleCopies
<1> QED BY <1>4, <1>5

-----------------------------------------------------------------------------
(* The counter.                                                            *)

\* A step that changes no copy, no counter and no final.
LEMMA SameCounter ==
    ASSUME CounterInv, UNCHANGED <<remaining, finals>>,
           \A q \in Qbls, r \in Requests : HasCopy(q, r)' <=> HasCopy(q, r)
    PROVE  /\ CounterInv'
           /\ \A n \in Nodes, r \in Requests : Untouched(n, r) => Untouched(n, r)'
<1>1. ASSUME NEW n \in Nodes, NEW r \in Requests PROVE Copies(n, r)' = Copies(n, r)
  BY DEF Copies
<1> QED BY <1>1 DEF CounterInv, Untouched

\* finishQuery with a copy that is then gone: the counter still counts the
\* copies, and the final goes out with the last of them.
LEMMA FinishCounter ==
    ASSUME QueriesInv, NEW n0 \in Nodes, NEW q0 \in Qbls, NEW r0 \in Requests,
           q0 \in Copies(n0, r0), FinishQuery(n0, r0),
           \A q \in Qbls, r \in Requests :
               HasCopy(q, r)' <=> HasCopy(q, r) /\ ~(q = q0 /\ r = r0)
    PROVE  /\ CounterInv'
           /\ \A n \in Nodes, r \in Requests : Untouched(n, r) => Untouched(n, r)'
           /\ remaining' \in [Nodes -> [Requests -> Nat]]
           /\ finals' \in [Nodes -> [Requests -> Nat]]
           /\ \A n \in Nodes, r \in Requests : ~(n = n0 /\ r = r0) => finals'[n][r] = finals[n][r]
           /\ \/ UNCHANGED <<chan, finals>>
              \/ /\ chan' = Broadcast(n0, chan, [type |-> "final", from |-> r0.from, id |-> r0.id])
                 /\ finals[n0][r0] = 0 /\ finals'[n0][r0] = 1 /\ Copies(n0, r0)' = {}
<1> DEFINE k == Cardinality(Copies(n0, r0))
           d == Cardinality(Copies(n0, r0) \ {q0})
<1>1. /\ remaining \in [Nodes -> [Requests -> Nat]] /\ finals \in [Nodes -> [Requests -> Nat]]
      /\ CounterInv
  BY DEF QueriesInv, QueriesShape
<1>2. IsFiniteSet(Copies(n0, r0)) /\ remaining[n0][r0] = k
  BY <1>1 DEF CounterInv
<1>3. /\ IsFiniteSet(Copies(n0, r0) \ {q0}) /\ k \in Nat /\ d \in Nat /\ k = d + 1
  <2>1. IsFiniteSet(Copies(n0, r0) \ {q0}) /\ d = k - 1
    BY <1>2, FS_RemoveElement
  <2>2. k \in Nat /\ d \in Nat
    BY <1>2, <2>1, FS_CardinalityType
  <2> QED BY <2>1, <2>2
<1>4. d = 0 <=> Copies(n0, r0) \ {q0} = {}
  BY <1>3, FS_EmptySet
<1> HIDE DEF k, d
<1>5. Copies(n0, r0)' = Copies(n0, r0) \ {q0}
  BY DEF Copies
<1>6. ASSUME NEW n \in Nodes, NEW r \in Requests, ~(n = n0 /\ r = r0)
      PROVE  Copies(n, r)' = Copies(n, r)
  <2>1. NodeOf[q0] = n0
    BY DEF Copies
  <2> QED BY <1>6, <2>1 DEF Copies
<1>7. finals[n0][r0] = 0
  <2>1. finals[n0][r0] \in Nat /\ finals[n0][r0] <= 1 /\ finals[n0][r0] # 1
    BY <1>1 DEF CounterInv
  <2> QED BY <2>1
<1>8. /\ remaining' = [remaining EXCEPT ![n0][r0] = @ - 1]
      /\ remaining[n0][r0] = 1 =>
            /\ chan' = Broadcast(n0, chan, [type |-> "final", from |-> r0.from, id |-> r0.id])
            /\ finals' = [finals EXCEPT ![n0][r0] = @ + 1]
      /\ remaining[n0][r0] # 1 => UNCHANGED <<chan, finals>>
  BY DEF FinishQuery, SendFinal
<1>9. /\ remaining' \in [Nodes -> [Requests -> Nat]] /\ remaining'[n0][r0] = d
      /\ \A n \in Nodes, r \in Requests :
             ~(n = n0 /\ r = r0) => remaining'[n][r] = remaining[n][r]
  <2>1. remaining[n0][r0] - 1 = d /\ d \in Nat
    BY <1>2, <1>3
  <2>2. remaining' = [remaining EXCEPT ![n0][r0] = d]
    BY <2>1, <1>8
  <2> QED BY <2>1, <2>2, <1>1
<1>10. CASE remaining[n0][r0] = 1
  <2>1. d = 0 /\ Copies(n0, r0)' = {}
    BY <1>10, <1>2, <1>3, <1>4, <1>5
  <2>2. finals' = [finals EXCEPT ![n0][r0] = 1]
    BY <1>10, <1>8, <1>7
  <2>3. /\ finals' \in [Nodes -> [Requests -> Nat]] /\ finals'[n0][r0] = 1
        /\ \A n \in Nodes, r \in Requests : ~(n = n0 /\ r = r0) => finals'[n][r] = finals[n][r]
    BY <2>2, <1>1
  <2>4. ASSUME NEW n \in Nodes, NEW r \in Requests
        PROVE  /\ IsFiniteSet(Copies(n, r)') /\ remaining'[n][r] = Cardinality(Copies(n, r)')
               /\ finals'[n][r] <= 1
               /\ finals'[n][r] = 1 => Copies(n, r)' = {}
               /\ Untouched(n, r) => Untouched(n, r)'
    <3>1. CASE n = n0 /\ r = r0
      <4>1. Copies(n, r) # {}
        BY <3>1
      <4> QED BY <3>1, <4>1, <2>1, <2>3, <1>9, FS_EmptySet DEF Untouched
    <3>2. CASE ~(n = n0 /\ r = r0)
      BY <3>2, <2>3, <1>9, <1>6, <1>1 DEF CounterInv, Untouched
    <3> QED BY <3>1, <3>2
  <2>5. CounterInv'
    BY <2>4 DEF CounterInv
  <2> QED BY <2>1, <2>3, <2>4, <2>5, <1>7, <1>8, <1>9, <1>10
<1>11. CASE remaining[n0][r0] # 1
  <2>1. ASSUME NEW n \in Nodes, NEW r \in Requests
        PROVE  /\ IsFiniteSet(Copies(n, r)') /\ remaining'[n][r] = Cardinality(Copies(n, r)')
               /\ finals'[n][r] <= 1
               /\ finals'[n][r] = 1 => Copies(n, r)' = {}
               /\ Untouched(n, r) => Untouched(n, r)'
    <3>0. finals' = finals
      BY <1>8, <1>11
    <3>1. CASE n = n0 /\ r = r0
      <4>1. Copies(n, r) # {}
        BY <3>1
      <4>2. Cardinality(Copies(n, r)') = d /\ IsFiniteSet(Copies(n, r)')
        BY <3>1, <1>5, <1>3 DEF d
      <4> QED BY <3>0, <3>1, <4>1, <4>2, <1>7, <1>9 DEF Untouched
    <3>2. CASE ~(n = n0 /\ r = r0)
      BY <3>0, <3>2, <1>9, <1>6, <1>1 DEF CounterInv, Untouched
    <3> QED BY <3>1, <3>2
  <2>2. CounterInv'
    BY <2>1 DEF CounterInv
  <2> QED BY <2>1, <2>2, <1>1, <1>8, <1>9, <1>11
<1> QED BY <1>10, <1>11

-----------------------------------------------------------------------------
(* What is on the links.                                                   *)

\* What a step other than Get may do to a link.
Passed(c) ==
    \/ chan'[c] = chan[c]
    \/ chan[c] # <<>> /\ chan'[c] = Tail(chan[c])
    \/ \E m \in MsgType : m.type # "request" /\ chan'[c] = Append(chan[c], m)

\* Node n takes the REQUEST r from the link it is on.
Taken(n, r) ==
    \E c \in Links : /\ c[2] = n /\ chan[c] # <<>> /\ chan'[c] = Tail(chan[c])
                     /\ chan[c][1].type = "request" /\ r = RequestOf(chan[c][1])

\* The requests on a link were there before, in the same order.
LEMMA PassedFacts ==
    ASSUME QueriesConstants, chan \in [Links -> Seq(MsgType)], NEW c \in Links, Passed(c)
    PROVE  /\ chan'[c] \in Seq(MsgType)
           /\ \E d \in {0, 1} : \A i \in 1..Len(chan'[c]) : chan'[c][i].type = "request" =>
                  i + d \in 1..Len(chan[c]) /\ chan'[c][i] = chan[c][i + d]
           /\ chan[c] # <<>> /\ chan'[c] = Tail(chan[c]) =>
                  \A i \in 1..Len(chan'[c]) :
                      i + 1 \in 1..Len(chan[c]) /\ chan'[c][i] = chan[c][i + 1]
<1> DEFINE M == MsgType
           s == chan[c]
           t == chan'[c]
<1>1. s \in Seq(M)
  OBVIOUS
<1>2. t = s \/ (s # <<>> /\ t = Tail(s)) \/ \E m \in M : m.type # "request" /\ t = Append(s, m)
  BY DEF Passed
<1> SUFFICES /\ t \in Seq(M)
             /\ \E d \in {0, 1} : \A i \in 1..Len(t) : t[i].type = "request" =>
                    i + d \in 1..Len(s) /\ t[i] = s[i + d]
             /\ s # <<>> /\ t = Tail(s) =>
                    \A i \in 1..Len(t) : i + 1 \in 1..Len(s) /\ t[i] = s[i + 1]
  OBVIOUS
<1> HIDE DEF M, s, t
<1>3. ASSUME s # <<>>, t = Tail(s)
      PROVE  t \in Seq(M) /\ \A i \in 1..Len(t) : i + 1 \in 1..Len(s) /\ t[i] = s[i + 1]
  <2>1. t \in Seq(M) /\ Len(s) \in Nat /\ Len(t) = Len(s) - 1
        /\ \A i \in 1..(Len(s) - 1) : t[i] = s[i + 1]
    BY <1>1, <1>3, HeadTailProperties, LenProperties
  <2> QED BY <2>1
<1>4. CASE s # <<>> /\ t = Tail(s)
  BY <1>3, <1>4
<1>5. CASE t = s /\ ~(s # <<>> /\ t = Tail(s))
  <2>1. Len(s) \in Nat
    BY <1>1, LenProperties
  <2>2. \A i \in 1..Len(t) : i + 0 = i
    BY <1>5, <2>1
  <2>3. \A i \in 1..Len(t) : i + 0 \in 1..Len(s) /\ t[i] = s[i + 0]
    BY <1>5, <2>2
  <2> QED BY <1>1, <1>5, <2>3
<1>6. ASSUME NEW m \in M, m.type # "request", t = Append(s, m), ~(s # <<>> /\ t = Tail(s))
      PROVE  /\ t \in Seq(M)
             /\ \E d \in {0, 1} : \A i \in 1..Len(t) : t[i].type = "request" =>
                    i + d \in 1..Len(s) /\ t[i] = s[i + d]
  <2>1. t \in Seq(M) /\ Len(s) \in Nat /\ Len(t) = Len(s) + 1 /\ t[Len(s) + 1] = m
        /\ \A i \in 1..Len(s) : t[i] = s[i]
    BY <1>1, <1>6, AppendProperties, LenProperties
  <2>2. ASSUME NEW i \in 1..Len(t), t[i].type = "request"
        PROVE  i + 0 \in 1..Len(s) /\ t[i] = s[i + 0]
    <3>1. i # Len(s) + 1
      BY <2>1, <2>2, <1>6
    <3>2. i \in 1..Len(s) /\ i + 0 = i
      BY <3>1, <2>1
    <3> QED BY <3>2, <2>1
  <2> QED BY <2>1, <2>2
<1> QED BY <1>2, <1>3, <1>4, <1>5, <1>6

\* The requests under way stay unknown where they go, but for the one taken.
LEMMA ArrivalKept ==
    ASSUME QueriesInv, issued' = issued, \A c \in Links : Passed(c),
           \A n \in Nodes, r \in Requests : Untouched(n, r) =>
               Untouched(n, r)' \/ Taken(n, r)
    PROVE  ArrivalInv'
<1>0. /\ QueriesConstants /\ issued \in [Nodes -> Nat]
      /\ chan \in [Links -> Seq(MsgType)] /\ ArrivalInv
  BY DEF QueriesInv, QueriesShape
<1>1. ASSUME NEW c \in Links, chan[c] # <<>>
      PROVE  1 \in 1..Len(chan[c]) /\ chan[c][1] \in MsgType
  <2>1. chan[c] \in Seq(MsgType)
    BY <1>0
  <2> HIDE <1>0
  <2>2. Len(chan[c]) \in Nat \ {0}
    BY <2>1, <1>1, EmptySeq, LenProperties
  <2>3. 1 \in 1..Len(chan[c])
    BY <2>2
  <2> QED BY <2>1, <2>3, ElementOfSeq
<1>2. ASSUME NEW n \in Nodes, NEW r \in Requests, r.id > issued[r.from], Taken(n, r)
      PROVE  FALSE
  <2>1. PICK c \in Links : chan[c] # <<>> /\ chan[c][1].type = "request" /\ r = RequestOf(chan[c][1])
    BY <1>2 DEF Taken
  <2>2. /\ 1 \in 1..Len(chan[c]) /\ chan[c][1] \in MsgType
    BY <1>1, <2>1
  <2>3. chan[c][1].from = c[1] /\ chan[c][1].id <= issued[c[1]]
    BY <2>1, <2>2, <1>0 DEF ArrivalInv
  <2>4. r.from = c[1] /\ r.id = chan[c][1].id /\ chan[c][1].id \in Nat /\ issued[c[1]] \in Nat
    BY <2>1, <2>2, <2>3, <1>0, MessageFacts, LinkFacts
  <2> QED BY <2>3, <2>4, <1>2
<1>3. ASSUME NEW n \in Nodes, NEW r \in Requests, r.id > issued'[r.from]
      PROVE  Untouched(n, r)'
  <2>1. Untouched(n, r)
    BY <1>0, <1>3 DEF ArrivalInv
  <2> QED BY <2>1, <1>2, <1>3
<1>4. ASSUME NEW c \in Links, NEW i \in 1..Len(chan'[c]), chan'[c][i].type = "request"
      PROVE  /\ chan'[c][i].from = c[1] /\ chan'[c][i].id <= issued'[c[1]]
             /\ Untouched(c[2], RequestOf(chan[c][i]))'
             /\ \A j \in 1..(i-1) : chan'[c][j].type = "request" => chan'[c][j].id < chan'[c][i].id
  <2>1. PICK d \in {0, 1} : \A k \in 1..Len(chan'[c]) : chan'[c][k].type = "request" =>
                  k + d \in 1..Len(chan[c]) /\ chan'[c][k] = chan[c][k + d]
    BY <1>0, PassedFacts
  <2>a. PICK m : m = chan'[c][i]
    OBVIOUS
  <2>b. PICK r : r = RequestOf(m)
    OBVIOUS
  <2>2. i + d \in 1..Len(chan[c]) /\ m = chan[c][i + d] /\ m.type = "request"
    BY <2>1, <1>4, <2>a
  <2>3. /\ m.from = c[1] /\ m.id <= issued[c[1]] /\ Untouched(c[2], r)
        /\ \A j \in 1..(i+d-1) : chan[c][j].type = "request" => chan[c][j].id < m.id
    BY <2>2, <2>b, <1>0 DEF ArrivalInv
  <2>4. m \in MsgType
    <3>1. chan[c] \in Seq(MsgType)
      BY <1>0
    <3> QED BY <2>2, <3>1, ElementOfSeq
  <2>5. r \in Requests /\ r.from = c[1] /\ r.id = m.id /\ c[2] \in Nodes
    BY <2>3, <2>4, <2>b, <1>0, MessageFacts, LinkFacts
  <2>6. i \in Nat /\ d \in Nat /\ i >= 1 /\ Len(chan'[c]) \in Nat /\ i <= Len(chan'[c])
    <3>1. chan'[c] \in Seq(MsgType)
      BY <1>0, PassedFacts
    <3>2. Len(chan'[c]) \in Nat
      BY <3>1, LenProperties
    <3> QED BY <3>2
  <2>7. \A j \in 1..(i-1) : chan'[c][j].type = "request" => chan'[c][j].id < m.id
    <3> SUFFICES ASSUME NEW j \in 1..(i-1), chan'[c][j].type = "request"
                 PROVE  chan'[c][j].id < m.id
      OBVIOUS
    <3>1. j \in 1..Len(chan'[c]) /\ j + d \in 1..(i+d-1)
      BY <2>6
    <3>2. chan'[c][j] = chan[c][j + d]
      BY <3>1, <2>1
    <3> QED BY <3>1, <3>2, <2>3
  <2>8. ~Taken(c[2], r)
    <3> SUFFICES ASSUME Taken(c[2], r) PROVE FALSE
      OBVIOUS
    <3>1. PICK e \in Links : /\ e[2] = c[2] /\ chan[e] # <<>> /\ chan'[e] = Tail(chan[e])
                             /\ chan[e][1].type = "request" /\ r = RequestOf(chan[e][1])
      BY DEF Taken
    <3>2. 1 \in 1..Len(chan[e]) /\ chan[e][1] \in MsgType
      BY <1>1, <3>1
    <3>3. chan[e][1].from = e[1]
      BY <3>1, <3>2, <1>0 DEF ArrivalInv
    <3>4. e[1] = c[1] /\ chan[e][1].id = m.id
      BY <3>1, <3>2, <3>3, <2>5, <1>0, MessageFacts
    <3>5. e = c
      BY <3>1, <3>4, LinkFacts
    <3>6. i + 1 \in 1..Len(chan[c]) /\ m = chan[c][i + 1]
      BY <3>1, <3>5, <2>a, <1>0, PassedFacts
    <3>7. 1 \in 1..((i + 1) - 1)
      BY <2>6
    <3>8. chan[c][1].id < m.id
      BY <3>1, <3>5, <3>6, <3>7, <2>2, <1>0, ZenonT(40) DEF ArrivalInv
    <3>9. m.id \in Nat
      BY <2>4, <1>0, MessageFacts
    <3> QED BY <3>4, <3>5, <3>8, <3>9
  <2>9. Untouched(c[2], r)'
    BY <2>3, <2>5, <2>8
  <2>10. Untouched(c[2], RequestOf(chan[c][i]))'
    BY <2>9, <2>a, <2>b
  <2> QED BY <2>a, <2>3, <2>7, <2>10
<1> QED BY <1>3, <1>4 DEF ArrivalInv

-----------------------------------------------------------------------------
(* Each action keeps the invariant.                                        *)

\* The copies of a request are where it is touched.
LEMMA Touched ==
    ASSUME QueriesInv, NEW q \in Qbls, NEW r \in Requests, HasCopy(q, r)
    PROVE  /\ q \in Copies(NodeOf[q], r) /\ NodeOf[q] \in Nodes
           /\ ~Untouched(NodeOf[q], r) /\ finals[NodeOf[q]][r] = 0
           /\ r.id <= issued[r.from]
<1>0. /\ QueriesConstants /\ issued \in [Nodes -> Nat] /\ finals \in [Nodes -> [Requests -> Nat]]
      /\ CounterInv /\ ArrivalInv
  BY DEF QueriesInv, QueriesShape
<1>1. q \in Copies(NodeOf[q], r) /\ NodeOf[q] \in Nodes
  BY <1>0 DEF Copies, QueriesConstants
<1>2. ~Untouched(NodeOf[q], r)
  BY <1>1 DEF Untouched
<1>3. ~(r.id > issued[r.from])
  BY <1>0, <1>1, <1>2 DEF ArrivalInv
<1>4. r.id <= issued[r.from]
  <2>1. r.id \in Nat /\ issued[r.from] \in Nat
    BY <1>0, RequestFacts
  <2> QED BY <2>1, <1>3
<1>5. finals[NodeOf[q]][r] \in Nat /\ finals[NodeOf[q]][r] <= 1 /\ finals[NodeOf[q]][r] # 1
  BY <1>0, <1>1 DEF CounterInv
<1> QED BY <1>1, <1>2, <1>4, <1>5

\* A step in which no query moves, nothing is registered or dropped, and the
\* links only lose their first message or get one that is not a request.
LEMMA QuietStep ==
    ASSUME QueriesInv, UNCHANGED <<issued, readerVars, remaining, dropVars, inQ, qpc, cur,
                                   finals, sentOnClosed>>,
           QueriesShape', \A c \in Links : Passed(c)
    PROVE  QueriesInv'
<1>1. RegistryInv /\ SingleCopies /\ CounterInv
  BY DEF QueriesInv
<1>2. /\ \A q \in Qbls, r \in Requests : HasCopy(q, r)' <=> HasCopy(q, r)
      /\ SingleCopies'
  BY <1>1, SameCopies DEF readerVars
<1>3. CounterInv' /\ \A n \in Nodes, r \in Requests : Untouched(n, r) => Untouched(n, r)'
  BY <1>1, <1>2, SameCounter
<1>4. ArrivalInv'
  BY <1>3, ArrivalKept
<1>5. RegistryInv'
  BY <1>1 DEF RegistryInv, readerVars, dropVars
<1> QED BY <1>2, <1>3, <1>4, <1>5 DEF QueriesInv

\* Get: the new request is known nowhere yet.
LEMMA GetKeeps ==
    ASSUME QueriesInv, NEW n \in Nodes, Get(n)
    PROVE  QueriesInv'
<1> DEFINE k == issued[n] + 1
           m == [type |-> "request", from |-> n, id |-> k]
           r0 == [from |-> n, id |-> k]
           M == MsgType
<1>0. /\ QueriesConstants /\ QueriesShape /\ RegistryInv /\ SingleCopies /\ CounterInv /\ ArrivalInv
      /\ issued \in [Nodes -> Nat] /\ chan \in [Links -> Seq(M)]
  BY DEF QueriesInv, QueriesShape
<1>1. /\ issued[n] < MaxGets[n] /\ issued' = [issued EXCEPT ![n] = @ + 1] /\ open' = open \cup {r0}
      /\ chan' = Broadcast(n, chan, m)
      /\ UNCHANGED <<ended, replies, serving, todo, remaining, declared, closedQ, inQ,
                     qpc, cur, told, answers, finals, sentOnClosed>>
  BY DEF Get, readerVars, dropVars, qblVars
<1>2. k \in 1..MaxGets[n] /\ k \in Nat /\ issued[n] \in Nat /\ issued[n] < k
  BY <1>0, <1>1 DEF QueriesConstants
<1>3. r0 \in Requests /\ r0.from = n /\ r0.id = k
  BY <1>0, <1>2, RequestFacts
<1>4. m \in M /\ m.type = "request" /\ m.from = n /\ m.id = k /\ RequestOf(m) = r0
  <2>1. [type |-> "request", from |-> r0.from, id |-> r0.id] \in MsgType
    BY <1>0, <1>3, MessageFacts
  <2> QED BY <2>1, <1>3 DEF RequestOf
<1>5. /\ issued' \in [Nodes -> Nat] /\ issued'[n] = k
      /\ \A p \in Nodes : p # n => issued'[p] = issued[p]
  BY <1>0, <1>1, <1>2
<1> HIDE DEF k, m, r0, M
<1>6. /\ chan' \in [Links -> Seq(M)]
      /\ \A c \in Links : c[1] = n => chan'[c] = Append(chan[c], m)
      /\ \A c \in Links : c[1] # n => chan'[c] = chan[c]
  BY <1>0, <1>1, <1>4, BroadcastFacts
<1>7. QueriesShape'
  <2>1. open' \in SUBSET Requests
    BY <1>0, <1>1, <1>3 DEF QueriesShape
  <2> QED BY <1>0, <1>1, <1>5, <1>6, <2>1 DEF QueriesShape, QueriesConstants, M
<1>8. RegistryInv'
  BY <1>0, <1>1 DEF RegistryInv
<1>9. /\ \A q \in Qbls, r \in Requests : HasCopy(q, r)' <=> HasCopy(q, r)
      /\ SingleCopies'
  BY <1>0, <1>1, SameCopies
<1>10. CounterInv' /\ \A p \in Nodes, r \in Requests : Untouched(p, r) => Untouched(p, r)'
  BY <1>0, <1>1, <1>9, SameCounter
<1>11. \A p \in Nodes : issued[p] \in Nat /\ issued'[p] \in Nat /\ issued[p] <= issued'[p]
  BY <1>2, <1>5, <1>0
<1>12. ASSUME NEW p \in Nodes, NEW r \in Requests, r.id > issued'[r.from]
       PROVE  Untouched(p, r)'
  <2>1. r.from \in Nodes /\ r.id \in Nat
    BY <1>0, RequestFacts
  <2>2. r.id > issued[r.from]
    BY <2>1, <1>11, <1>12
  <2>3. Untouched(p, r)
    BY <1>0, <2>2 DEF ArrivalInv
  <2> QED BY <2>3, <1>10
<1>13. ASSUME NEW c \in Links, NEW i \in 1..Len(chan'[c]), chan'[c][i].type = "request"
       PROVE  /\ chan'[c][i].from = c[1] /\ chan'[c][i].id <= issued'[c[1]]
              /\ Untouched(c[2], RequestOf(chan[c][i]))'
              /\ \A j \in 1..(i-1) : chan'[c][j].type = "request" => chan'[c][j].id < chan'[c][i].id
  <2>1. c[1] \in Nodes /\ c[2] \in Nodes
    BY LinkFacts
  <2>2. /\ chan[c] \in Seq(M) /\ Len(chan[c]) \in Nat
        /\ \A j \in 1..Len(chan[c]) : chan[c][j] \in MsgType
    <3>1. chan[c] \in Seq(M)
      BY <1>0
    <3> QED BY <3>1, IndexFacts DEF M
  <2>3. ASSUME i \in 1..Len(chan[c]),
               \A j \in 1..i : chan'[c][j] = chan[c][j]
        PROVE  /\ chan'[c][i].from = c[1] /\ chan'[c][i].id <= issued'[c[1]]
               /\ Untouched(c[2], RequestOf(chan[c][i]))'
               /\ \A j \in 1..(i-1) : chan'[c][j].type = "request" => chan'[c][j].id < chan'[c][i].id
    <3>1. PICK x : x = chan[c][i]
      OBVIOUS
    <3>2. chan'[c][i] = x
      BY <2>3, <3>1
    <3>3. x \in MsgType /\ x.type = "request"
      BY <2>2, <2>3, <3>1, <3>2, <1>13
    <3>4. /\ x.from = c[1] /\ x.id <= issued[c[1]] /\ Untouched(c[2], RequestOf(x))
          /\ \A j \in 1..(i-1) : chan[c][j].type = "request" => chan[c][j].id < x.id
      BY <3>1, <3>3, <2>3, <1>0 DEF ArrivalInv
    <3>5. x.id \in Nat /\ RequestOf(x) \in Requests
      BY <3>3, <1>0, MessageFacts
    <3>6. x.id <= issued'[c[1]]
      BY <3>4, <3>5, <2>1, <1>11
    <3>7. Untouched(c[2], RequestOf(x))'
      BY <3>4, <3>5, <2>1, <1>10
    <3>8. Untouched(c[2], RequestOf(chan[c][i]))'
      BY <3>7, <3>2
    <3>9. \A j \in 1..(i-1) : chan'[c][j] = chan[c][j]
      BY <2>3
    <3> QED BY <3>2, <3>4, <3>6, <3>8, <3>9
  <2>4. CASE c[1] # n
    <3>1. chan'[c] = chan[c]
      BY <2>4, <1>6
    <3> QED BY <3>1, <2>3
  <2>5. CASE c[1] = n
    <3>1. chan'[c] = Append(chan[c], m)
      BY <2>5, <1>6
    <3>2. /\ Len(chan'[c]) = Len(chan[c]) + 1 /\ chan'[c][Len(chan[c]) + 1] = m
          /\ \A j \in 1..Len(chan[c]) : chan'[c][j] = chan[c][j]
      BY <3>1, <2>2, <1>4, IndexFacts
    <3>3. CASE i \in 1..Len(chan[c])
      <4>1. \A j \in 1..i : chan'[c][j] = chan[c][j]
        BY <3>2, <3>3, <2>2
      <4> QED BY <3>3, <4>1, <2>3
    <3>4. CASE i = Len(chan[c]) + 1
      <4>1. chan'[c][i] = m
        BY <3>2, <3>4
      <4>2. Untouched(c[2], r0)
        BY <1>0, <1>2, <1>3, <2>1 DEF ArrivalInv
      <4>3. PICK x : x = m
        OBVIOUS
      <4>4. Untouched(c[2], RequestOf(chan[c][i]))'
        <5>1. PICK r \in Requests : r = r0
          BY <1>3
        <5>2. Untouched(c[2], r)'
          BY <4>2, <5>1, <1>10, <2>1
        <5>3. r = RequestOf(x)
          BY <5>1, <1>4, <4>3
        <5>4. Untouched(c[2], RequestOf(x))'
          BY <5>2, <5>3
        <5>5. chan'[c][i] = x
          BY <4>1, <4>3
        <5> QED BY <5>4, <5>5
      <4>5. ASSUME NEW j \in 1..(i-1), chan'[c][j].type = "request"
            PROVE  chan'[c][j].id < m.id
        <5>1. j \in 1..Len(chan[c]) /\ chan'[c][j] = chan[c][j]
          BY <3>2, <3>4, <2>2
        <5>2. chan[c][j].id <= issued[n] /\ chan[c][j].id \in Nat
          BY <5>1, <4>5, <2>5, <2>2, <1>0, MessageFacts DEF ArrivalInv
        <5> QED BY <5>1, <5>2, <1>2, <1>4
      <4> QED BY <4>1, <4>4, <4>5, <1>2, <1>4, <1>5, <2>5
    <3>5. i \in 1..Len(chan[c]) \/ i = Len(chan[c]) + 1
      BY <3>2, <2>2
    <3> QED BY <3>3, <3>4, <3>5
  <2> QED BY <2>4, <2>5
<1>14. ArrivalInv'
  BY <1>12, <1>13 DEF ArrivalInv
<1> QED BY <1>7, <1>8, <1>9, <1>10, <1>14 DEF QueriesInv

\* The reader takes the first message: what it is, and the links without it.
LEMMA TakeFacts ==
    ASSUME QueriesInv, NEW c \in Links, chan[c] # <<>>
    PROVE  /\ Head(chan[c]) = chan[c][1] /\ chan[c][1] \in MsgType /\ 1 \in 1..Len(chan[c])
           /\ Pop(c) \in [Links -> Seq(MsgType)]
           /\ Pop(c)[c] = Tail(chan[c]) /\ \A d \in Links : d # c => Pop(c)[d] = chan[d]
           /\ chan' = Pop(c) => \A d \in Links : Passed(d)
<1> DEFINE M == MsgType
<1>1. chan \in [Links -> Seq(M)]
  BY DEF QueriesInv, QueriesShape
<1> HIDE DEF M
<1>2. /\ Pop(c) \in [Links -> Seq(M)] /\ Head(chan[c]) \in M /\ Head(chan[c]) = chan[c][1]
      /\ Pop(c)[c] = Tail(chan[c]) /\ \A d \in Links : d # c => Pop(c)[d] = chan[d]
      /\ Len(chan[c]) \in Nat \ {0}
  BY <1>1, PopFacts
<1>3. 1 \in 1..Len(chan[c])
  BY <1>2
<1>4. chan' = Pop(c) => \A d \in Links : Passed(d)
  BY <1>2 DEF Passed
<1> QED BY <1>2, <1>3, <1>4 DEF M

\* ReceiveReply changes what a Get has collected.
LEMMA ReceiveReplyKeeps ==
    ASSUME QueriesInv, NEW c \in Links, ReceiveReply(c)
    PROVE  QueriesInv'
<1>0. /\ QueriesShape /\ QueriesConstants /\ open \in SUBSET Requests
      /\ replies \in [Requests -> SUBSET Answers]
  BY DEF QueriesInv, QueriesShape
<1>1. /\ chan[c] # <<>> /\ Head(chan[c]).type = "reply" /\ chan' = Pop(c)
      /\ replies' = replies \/ replies' = WithReply(replies, c)
      /\ UNCHANGED <<issued, open, ended, readerVars, remaining, finals, dropVars, inQ, qpc, cur,
                     told, answers, sentOnClosed>>
  BY DEF ReceiveReply, HeadIs, ReadUnchanged, qblVars
<1>2. chan' \in [Links -> Seq(MsgType)] /\ Head(chan[c]) \in MsgType /\ \A d \in Links : Passed(d)
  BY <1>1, TakeFacts
<1>3. Head(chan[c]).reply \in Answers
  BY <1>0, <1>1, <1>2, MessageFacts
<1>4. replies' \in [Requests -> SUBSET Answers]
  BY <1>0, <1>1, <1>3 DEF WithReply
<1>5. QueriesShape'
  BY <1>0, <1>1, <1>2, <1>4 DEF QueriesShape, QueriesConstants, readerVars, dropVars
<1> QED BY <1>1, <1>2, <1>5, QuietStep

\* TakeReply empties a channel.
LEMMA TakeReplyKeeps ==
    ASSUME QueriesInv, NEW r \in Requests, TakeReply(r)
    PROVE  QueriesInv'
<1>1. UNCHANGED <<issued, open, ended, replies, chan, readerVars, remaining, finals, dropVars, inQ,
                  qpc, cur, told, answers, sentOnClosed>>
  BY DEF TakeReply, ReadUnchanged, qblVars
<1>2. QueriesShape'
  BY <1>1 DEF QueriesInv, QueriesShape, QueriesConstants, readerVars, dropVars
<1>3. \A c \in Links : Passed(c)
  BY <1>1 DEF Passed
<1> QED BY <1>1, <1>2, <1>3, QuietStep

\* ReceiveFinal closes a Get.
LEMMA ReceiveFinalKeeps ==
    ASSUME QueriesInv, NEW c \in Links, ReceiveFinal(c)
    PROVE  QueriesInv'
<1>0. /\ QueriesShape /\ QueriesConstants /\ open \in SUBSET Requests /\ ended \in SUBSET Requests
  BY DEF QueriesInv, QueriesShape
<1>1. /\ chan[c] # <<>> /\ chan' = Pop(c) /\ open' = open \ {GetOf(c)}
      /\ ended' = IF GetOf(c) \in open THEN ended \cup {GetOf(c)} ELSE ended
      /\ UNCHANGED <<issued, replies, readerVars, remaining, finals, dropVars, inQ, qpc, cur,
                     told, answers, sentOnClosed>>
  BY DEF ReceiveFinal, HeadIs, ReadUnchanged, qblVars
<1>2. chan' \in [Links -> Seq(MsgType)] /\ \A d \in Links : Passed(d)
  BY <1>1, TakeFacts
<1>3. open' \in SUBSET Requests /\ ended' \in SUBSET Requests
  BY <1>0, <1>1
<1>4. QueriesShape'
  BY <1>0, <1>1, <1>2, <1>3 DEF QueriesShape, QueriesConstants, readerVars, dropVars
<1> QED BY <1>1, <1>2, <1>4, QuietStep

\* Messages other than requests sent on every link.
LEMMA SentFacts ==
    ASSUME QueriesInv, NEW n \in Nodes, NEW m \in MsgType, m.type # "request",
           chan' = Broadcast(n, chan, m)
    PROVE  /\ chan' \in [Links -> Seq(MsgType)]
           /\ \A c \in Links : c[1] = n => chan'[c] = Append(chan[c], m)
           /\ \A c \in Links : c[1] # n => chan'[c] = chan[c]
           /\ \A c \in Links : Passed(c)
<1> DEFINE M == MsgType
<1>1. chan \in [Links -> Seq(M)] /\ m \in M
  BY DEF QueriesInv, QueriesShape
<1> HIDE DEF M
<1>2. /\ chan' \in [Links -> Seq(M)]
      /\ \A c \in Links : c[1] = n => chan'[c] = Append(chan[c], m)
      /\ \A c \in Links : c[1] # n => chan'[c] = chan[c]
  BY <1>1, BroadcastFacts
<1>3. \A c \in Links : Passed(c)
  BY <1>2 DEF Passed
<1> QED BY <1>2, <1>3 DEF M

\* The reply a handler sends.
LEMMA ReplyFacts ==
    ASSUME QueriesInv, NEW q \in Qbls, Reply(q)
    PROVE  \E r \in Requests, a \in Answers, m \in MsgType :
              /\ r = cur[q] /\ HasCopy(q, r) /\ a.to = r /\ answers' = answers \cup {a}
              /\ m.type = "reply" /\ m.reply = a /\ RequestOf(m) = r
              /\ m.from = r.from /\ m.id = r.id
              /\ chan' = Broadcast(NodeOf[q], chan, m) /\ NodeOf[q] \in Nodes
<1>0. /\ QueriesConstants /\ cur \in [Qbls -> Requests \cup {NoRequest}] /\ told \in [Qbls -> Nat]
      /\ SingleCopies
  BY DEF QueriesInv, QueriesShape
<1>1. PICK r : r = cur[q]
  OBVIOUS
<1>2. PICK k : k = told[q] + 1
  OBVIOUS
<1>3. PICK a : a = [qbl |-> q, to |-> r, n |-> k]
  OBVIOUS
<1>4. PICK m : m = [type |-> "reply", from |-> r.from, id |-> r.id, reply |-> a]
  OBVIOUS
<1>5. /\ qpc[q] = "run" /\ answers' = answers \cup {a} /\ chan' = Broadcast(NodeOf[q], chan, m)
  BY <1>1, <1>2, <1>3, <1>4 DEF Reply
<1>6. r \in Requests /\ HasCopy(q, r)
  BY <1>0, <1>1, <1>5 DEF SingleCopies, HasCopy, Runs
<1>7. k \in Nat
  <2>1. told[q] \in Nat
    BY <1>0
  <2> QED BY <2>1, <1>2
<1>8. a \in Answers /\ a.to = r
  BY <1>3, <1>6, <1>7 DEF Answers
<1>9. m \in MsgType /\ m.type = "reply" /\ m.reply = a /\ m.from = r.from /\ m.id = r.id
  BY <1>0, <1>4, <1>6, <1>8, MessageFacts
<1>10. RequestOf(m) = r
  BY <1>9, <1>6, <1>0, RequestFacts DEF RequestOf
<1>11. NodeOf[q] \in Nodes
  BY <1>0 DEF QueriesConstants
<1> QED BY <1>1, <1>5, <1>6, <1>8, <1>9, <1>10, <1>11

\* Reply.
LEMMA ReplyKeeps ==
    ASSUME QueriesInv, NEW q \in Qbls, Reply(q)
    PROVE  QueriesInv'
<1>0. /\ QueriesShape /\ QueriesConstants /\ answers \in SUBSET Answers /\ told \in [Qbls -> Nat]
  BY DEF QueriesInv, QueriesShape
<1>1. PICK a \in Answers, m \in MsgType :
          /\ answers' = answers \cup {a} /\ m.type = "reply"
          /\ chan' = Broadcast(NodeOf[q], chan, m) /\ NodeOf[q] \in Nodes
  BY ReplyFacts
<1>2. /\ told' = [told EXCEPT ![q] = @ + 1]
      /\ UNCHANGED <<getVars, readerVars, remaining, dropVars, inQ, qpc, cur, finals, sentOnClosed>>
  BY DEF Reply
<1>3. chan' \in [Links -> Seq(MsgType)] /\ \A d \in Links : Passed(d)
  BY <1>1, SentFacts
<1>4. answers' \in SUBSET Answers /\ told' \in [Qbls -> Nat]
  BY <1>0, <1>1, <1>2
<1>5. QueriesShape'
  BY <1>0, <1>2, <1>3, <1>4 DEF QueriesShape, QueriesConstants, readerVars, dropVars, getVars
<1>6. issued' = issued
  BY <1>2 DEF getVars
<1> QED BY <1>2, <1>3, <1>5, <1>6, QuietStep

\* The queryable's own steps that move no query.
LEMMA DropKeeps ==
    ASSUME QueriesInv, NEW q \in Qbls,
           DeclareQueryable(q) \/ UnregisterQueryable(q) \/ CloseQueue(q) \/ DispatcherExit(q)
    PROVE  QueriesInv'
<1>0. /\ QueriesShape /\ QueriesConstants /\ RegistryInv /\ SingleCopies /\ CounterInv
      /\ qpc \in [Qbls -> {"off", "idle", "run", "exited"}]
      /\ declared \in SUBSET Qbls /\ closedQ \in SUBSET Qbls
      /\ todo \in [Links -> SUBSET Qbls] /\ NodeOf \in [Qbls -> Nodes]
  BY DEF QueriesInv, QueriesShape, QueriesConstants
<1>1. UNCHANGED <<issued, open, ended, replies, chan, serving, todo, remaining, inQ, cur, told,
                  answers, finals, sentOnClosed>>
  BY DEF DeclareQueryable, UnregisterQueryable, CloseQueue, DispatcherExit, getVars, readerVars, qblVars
<1>2. /\ \A p \in Qbls : qpc'[p] = "run" <=> qpc[p] = "run"
      /\ qpc' \in [Qbls -> {"off", "idle", "run", "exited"}]
      /\ declared' \in SUBSET Qbls /\ closedQ' \in SUBSET Qbls
  <2>1. CASE DeclareQueryable(q)
    BY <1>0, <2>1 DEF DeclareQueryable
  <2>2. CASE UnregisterQueryable(q)
    BY <1>0, <2>2 DEF UnregisterQueryable, qblVars
  <2>3. CASE CloseQueue(q)
    BY <1>0, <2>3 DEF CloseQueue, qblVars
  <2>4. CASE DispatcherExit(q)
    BY <1>0, <2>4 DEF DispatcherExit, dropVars
  <2> QED BY <2>1, <2>2, <2>3, <2>4
<1>3. QueriesShape'
  BY <1>0, <1>1, <1>2 DEF QueriesShape, QueriesConstants
<1>4. RegistryInv'
  <2>1. CASE DeclareQueryable(q)
    <3>1. /\ qpc[q] = "off" /\ qpc' = [qpc EXCEPT ![q] = "idle"]
          /\ declared' = declared \cup {q} /\ closedQ' = closedQ
      BY <2>1 DEF DeclareQueryable
    <3>2. IsFiniteSet(declared')
      BY <3>1, <1>0, FS_AddElement DEF RegistryInv
    <3>3. closedQ' \cap declared' = {}
      BY <3>1, <1>0 DEF RegistryInv
    <3>4. \A p \in Qbls : qpc'[p] = "off" => p \notin declared' \cup closedQ'
      BY <3>1, <1>0 DEF RegistryInv
    <3> QED BY <3>1, <3>2, <3>3, <3>4, <1>0, <1>1 DEF RegistryInv
  <2>2. CASE UnregisterQueryable(q)
    <3>1. /\ declared' = declared \ {q} /\ UNCHANGED <<closedQ, qpc>>
          /\ \A c \in Links : c[2] = NodeOf[q] => todo[c] = {}
      BY <2>2 DEF UnregisterQueryable, RegistryFree, qblVars
    <3>2. IsFiniteSet(declared')
      BY <3>1, <1>0, FS_Subset DEF RegistryInv
    <3>3. \A c \in Links : \A p \in todo[c] : p # q
      BY <3>1, <1>0 DEF RegistryInv
    <3> QED BY <3>1, <3>2, <3>3, <1>0, <1>1 DEF RegistryInv
  <2>3. CASE CloseQueue(q)
    <3>1. /\ qpc[q] # "off" /\ q \notin declared /\ closedQ' = closedQ \cup {q}
          /\ UNCHANGED <<declared, qpc>>
      BY <2>3 DEF CloseQueue, qblVars
    <3> QED BY <3>1, <1>0, <1>1 DEF RegistryInv
  <2>4. CASE DispatcherExit(q)
    <3>1. /\ qpc[q] # "off" /\ qpc' = [qpc EXCEPT ![q] = "exited"]
          /\ UNCHANGED <<declared, closedQ>>
      BY <2>4 DEF DispatcherExit, dropVars
    <3>2. \A p \in Qbls : qpc'[p] = "off" => qpc[p] = "off"
      BY <3>1, <1>0
    <3> QED BY <3>1, <3>2, <1>0, <1>1 DEF RegistryInv
  <2> QED BY <2>1, <2>2, <2>3, <2>4
<1>5. /\ \A p \in Qbls, r \in Requests : HasCopy(p, r)' <=> HasCopy(p, r)
      /\ SingleCopies'
  BY <1>0, <1>1, <1>2, SameCopies
<1>6. CounterInv' /\ \A n \in Nodes, r \in Requests : Untouched(n, r) => Untouched(n, r)'
  BY <1>0, <1>1, <1>5, SameCounter
<1>7. ArrivalInv'
  <2>1. \A c \in Links : Passed(c)
    BY <1>1 DEF Passed
  <2> QED BY <1>1, <1>6, <2>1, ArrivalKept
<1> QED BY <1>3, <1>4, <1>5, <1>6, <1>7 DEF QueriesInv

\* A copy finished, by the reader or by the handler: the counter and the links.
LEMMA FinishFacts ==
    ASSUME QueriesInv, NEW q0 \in Qbls, NEW r0 \in Requests, HasCopy(q0, r0),
           FinishQuery(NodeOf[q0], r0), issued' = issued,
           \A q \in Qbls, r \in Requests :
               HasCopy(q, r)' <=> HasCopy(q, r) /\ ~(q = q0 /\ r = r0)
    PROVE  /\ CounterInv' /\ ArrivalInv'
           /\ remaining' \in [Nodes -> [Requests -> Nat]]
           /\ finals' \in [Nodes -> [Requests -> Nat]] /\ chan' \in [Links -> Seq(MsgType)]
           /\ \A n \in Nodes, r \in Requests :
                  ~(n = NodeOf[q0] /\ r = r0) => finals'[n][r] = finals[n][r]
           /\ \/ UNCHANGED <<chan, finals>>
              \/ \E m \in MsgType :
                    /\ m.type = "final" /\ RequestOf(m) = r0 /\ m.from = r0.from /\ m.id = r0.id
                    /\ chan' = Broadcast(NodeOf[q0], chan, m)
                    /\ finals[NodeOf[q0]][r0] = 0 /\ finals'[NodeOf[q0]][r0] = 1
<1>0. QueriesConstants /\ chan \in [Links -> Seq(MsgType)] /\ finals \in [Nodes -> [Requests -> Nat]]
  BY DEF QueriesInv, QueriesShape
<1>1. q0 \in Copies(NodeOf[q0], r0) /\ NodeOf[q0] \in Nodes
  BY Touched
<1>2. PICK n0 \in Nodes : n0 = NodeOf[q0]
  BY <1>1
<1>3. PICK m : m = [type |-> "final", from |-> r0.from, id |-> r0.id]
  OBVIOUS
<1>4. m \in MsgType /\ m.type = "final" /\ RequestOf(m) = r0 /\ m.from = r0.from /\ m.id = r0.id
  <2>1. m \in MsgType /\ m.type = "final" /\ m.from = r0.from /\ m.id = r0.id
    BY <1>0, <1>3, MessageFacts
  <2> QED BY <2>1, <1>0, RequestFacts DEF RequestOf
<1>5. /\ CounterInv'
      /\ \A n \in Nodes, r \in Requests : Untouched(n, r) => Untouched(n, r)'
      /\ remaining' \in [Nodes -> [Requests -> Nat]]
      /\ finals' \in [Nodes -> [Requests -> Nat]]
      /\ \A n \in Nodes, r \in Requests : ~(n = n0 /\ r = r0) => finals'[n][r] = finals[n][r]
      /\ \/ UNCHANGED <<chan, finals>>
         \/ chan' = Broadcast(n0, chan, m) /\ finals[n0][r0] = 0 /\ finals'[n0][r0] = 1
  BY <1>1, <1>2, <1>3, FinishCounter
<1>6. chan' \in [Links -> Seq(MsgType)] /\ \A c \in Links : Passed(c)
  <2>1. CASE chan' = chan
    BY <2>1, <1>0 DEF Passed
  <2>2. CASE chan' = Broadcast(n0, chan, m)
    BY <2>2, <1>4, SentFacts
  <2> QED BY <2>1, <2>2, <1>5
<1>7. ArrivalInv'
  BY <1>5, <1>6, ArrivalKept
<1> QED BY <1>2, <1>4, <1>5, <1>6, <1>7

\* Deliver, into the queue or not.
LEMMA DeliverKeeps ==
    ASSUME QueriesInv, NEW c \in Links, NEW q0 \in Qbls, DeliverQuery(c, q0)
    PROVE  QueriesInv'
<1>0. /\ QueriesShape /\ QueriesConstants /\ RegistryInv /\ CounterInv
      /\ serving \in [Links -> Requests \cup {NoRequest}] /\ todo \in [Links -> SUBSET Qbls]
      /\ inQ \in [Qbls -> Seq(Requests)] /\ chan \in [Links -> Seq(MsgType)]
      /\ remaining \in [Nodes -> [Requests -> Nat]] /\ finals \in [Nodes -> [Requests -> Nat]]
  BY DEF QueriesInv, QueriesShape
<1>1. /\ q0 \in todo[c] /\ todo' = [todo EXCEPT ![c] = @ \ {q0}]
      /\ serving' = [serving EXCEPT ![c] = IF todo[c] = {q0} THEN NoRequest ELSE @]
      /\ sentOnClosed' = (sentOnClosed \/ q0 \in closedQ)
      /\ UNCHANGED <<issued, open, ended, replies, declared, closedQ, qpc, cur, told, answers>>
  BY DEF DeliverQuery, getVars, dropVars, qblVars
<1>2. /\ serving[c] \in Requests /\ serving[c].from = c[1] /\ NodeOf[q0] = c[2]
      /\ q0 \notin closedQ /\ ToCome(q0, serving[c])
  BY <1>1, DeliverFacts
<1>3. /\ todo' \in [Links -> SUBSET Qbls] /\ serving' \in [Links -> Requests \cup {NoRequest}]
      /\ todo'[c] = todo[c] \ {q0}
      /\ serving'[c] = IF todo[c] = {q0} THEN NoRequest ELSE serving[c]
      /\ \A d \in Links : d # c => todo'[d] = todo[d] /\ serving'[d] = serving[d]
  BY <1>0, <1>1
<1>4. RegistryInv'
  <2>1. serving[c] # NoRequest
    BY <1>0, <1>1 DEF RegistryInv
  <2>2. todo[c] = {q0} <=> todo[c] \ {q0} = {}
    BY <1>1
  <2>3. ASSUME NEW d \in Links
        PROVE  /\ serving'[d] = NoRequest <=> todo'[d] = {}
               /\ serving'[d] # NoRequest => serving'[d].from = d[1]
               /\ \A q \in todo'[d] : q \in declared' /\ NodeOf[q] = d[2]
    <3>1. CASE d = c
      BY <3>1, <2>1, <2>2, <1>0, <1>1, <1>2, <1>3 DEF RegistryInv
    <3>2. CASE d # c
      BY <3>2, <1>0, <1>1, <1>3 DEF RegistryInv
    <3> QED BY <3>1, <3>2
  <2>4. ~sentOnClosed'
    BY <1>0, <1>1, <1>2 DEF RegistryInv
  <2> QED BY <2>3, <2>4, <1>0, <1>1 DEF RegistryInv
<1>5. CASE Len(inQ[q0]) < QCap
  <2>1. /\ \A q \in Qbls, r \in Requests : HasCopy(q, r)' <=> HasCopy(q, r)
        /\ SingleCopies' /\ UNCHANGED <<remaining, chan, finals>>
    BY <1>5, QueuedCopies
  <2>2. inQ' \in [Qbls -> Seq(Requests)]
    <3>1. inQ' = [inQ EXCEPT ![q0] = Append(@, serving[c])]
      BY <1>5 DEF DeliverQuery
    <3>2. Append(inQ[q0], serving[c]) \in Seq(Requests)
      BY <1>0, <1>2, AppendProperties
    <3> QED BY <3>1, <3>2, <1>0
  <2>3. CounterInv' /\ \A n \in Nodes, r \in Requests : Untouched(n, r) => Untouched(n, r)'
    BY <2>1, <1>0, SameCounter
  <2>4. ArrivalInv'
    <3>1. \A d \in Links : Passed(d)
      BY <2>1 DEF Passed
    <3> QED BY <3>1, <2>3, <1>1, ArrivalKept
  <2>5. QueriesShape'
    BY <1>0, <1>1, <1>3, <2>1, <2>2 DEF QueriesShape, QueriesConstants
  <2> QED BY <1>4, <2>1, <2>3, <2>4, <2>5 DEF QueriesInv
<1>6. CASE ~(Len(inQ[q0]) < QCap)
  <2>1. /\ \A q \in Qbls, r \in Requests :
               HasCopy(q, r)' <=> HasCopy(q, r) /\ ~(q = q0 /\ r = serving[c])
        /\ SingleCopies' /\ FinishQuery(c[2], serving[c])
    BY <1>6, FullCopies
  <2>2. PICK r0 \in Requests : r0 = serving[c]
    BY <1>2
  <2>3. HasCopy(q0, r0) /\ FinishQuery(NodeOf[q0], r0)
    BY <2>1, <2>2, <1>2 DEF HasCopy
  <2>4. \A q \in Qbls, r \in Requests : HasCopy(q, r)' <=> HasCopy(q, r) /\ ~(q = q0 /\ r = r0)
    BY <2>1, <2>2
  <2>5. /\ CounterInv' /\ ArrivalInv' /\ remaining' \in [Nodes -> [Requests -> Nat]]
        /\ finals' \in [Nodes -> [Requests -> Nat]] /\ chan' \in [Links -> Seq(MsgType)]
    BY <2>3, <2>4, <1>1, FinishFacts
  <2>6. inQ' = inQ
    BY <1>6 DEF DeliverQuery
  <2>7. QueriesShape'
    BY <1>0, <1>1, <1>3, <2>5, <2>6 DEF QueriesShape, QueriesConstants
  <2> QED BY <1>4, <2>1, <2>5, <2>7 DEF QueriesInv
<1> QED BY <1>5, <1>6

\* StartHandler.
LEMMA StartHandlerKeeps ==
    ASSUME QueriesInv, NEW q0 \in Qbls, StartHandler(q0)
    PROVE  QueriesInv'
<1>0. /\ QueriesShape /\ QueriesConstants /\ RegistryInv /\ CounterInv
      /\ inQ \in [Qbls -> Seq(Requests)] /\ qpc \in [Qbls -> {"off", "idle", "run", "exited"}]
      /\ cur \in [Qbls -> Requests \cup {NoRequest}] /\ told \in [Qbls -> Nat]
  BY DEF QueriesInv, QueriesShape
<1>1. /\ qpc[q0] = "idle" /\ inQ[q0] # <<>> /\ qpc' = [qpc EXCEPT ![q0] = "run"]
      /\ cur' = [cur EXCEPT ![q0] = Head(inQ[q0])] /\ inQ' = [inQ EXCEPT ![q0] = Tail(@)]
      /\ told' = [told EXCEPT ![q0] = 0]
      /\ UNCHANGED <<issued, open, ended, replies, chan, serving, todo, remaining, declared,
                     closedQ, answers, finals, sentOnClosed>>
  BY DEF StartHandler, getVars, readerVars, dropVars
<1>2. Head(inQ[q0]) \in Requests /\ Tail(inQ[q0]) \in Seq(Requests)
  BY <1>0, <1>1, HeadTailProperties
<1>3. /\ inQ' \in [Qbls -> Seq(Requests)] /\ qpc' \in [Qbls -> {"off", "idle", "run", "exited"}]
      /\ cur' \in [Qbls -> Requests \cup {NoRequest}] /\ told' \in [Qbls -> Nat]
  BY <1>0, <1>1, <1>2
<1>4. QueriesShape'
  BY <1>0, <1>1, <1>3 DEF QueriesShape, QueriesConstants
<1>5. RegistryInv'
  <2>1. \A q \in Qbls : qpc'[q] = "off" => qpc[q] = "off"
    BY <1>0, <1>1
  <2> QED BY <2>1, <1>0, <1>1 DEF RegistryInv
<1>6. /\ \A q \in Qbls, r \in Requests : HasCopy(q, r)' <=> HasCopy(q, r)
      /\ SingleCopies'
  BY StartedCopies
<1>7. CounterInv' /\ \A n \in Nodes, r \in Requests : Untouched(n, r) => Untouched(n, r)'
  BY <1>0, <1>1, <1>6, SameCounter
<1>8. ArrivalInv'
  <2>1. \A d \in Links : Passed(d)
    BY <1>1 DEF Passed
  <2> QED BY <2>1, <1>7, <1>1, ArrivalKept
<1> QED BY <1>4, <1>5, <1>6, <1>7, <1>8 DEF QueriesInv

\* EndHandler.
LEMMA EndHandlerKeeps ==
    ASSUME QueriesInv, NEW q0 \in Qbls, EndHandler(q0)
    PROVE  QueriesInv'
<1>0. /\ QueriesShape /\ QueriesConstants /\ RegistryInv
      /\ qpc \in [Qbls -> {"off", "idle", "run", "exited"}]
  BY DEF QueriesInv, QueriesShape
<1>1. /\ qpc[q0] = "run" /\ qpc' = [qpc EXCEPT ![q0] = "idle"] /\ FinishQuery(NodeOf[q0], cur[q0])
      /\ UNCHANGED <<issued, open, ended, replies, serving, todo, declared, closedQ, inQ, cur,
                     told, answers, sentOnClosed>>
  BY DEF EndHandler, getVars, readerVars, dropVars
<1>2. /\ cur[q0] \in Requests /\ q0 \in Copies(NodeOf[q0], cur[q0])
      /\ \A q \in Qbls, r \in Requests :
             HasCopy(q, r)' <=> HasCopy(q, r) /\ ~(q = q0 /\ r = cur[q0])
      /\ SingleCopies'
  BY EndedCopies
<1>3. PICK r0 \in Requests : r0 = cur[q0]
  BY <1>2
<1>4. HasCopy(q0, r0) /\ FinishQuery(NodeOf[q0], r0)
  BY <1>1, <1>2, <1>3 DEF Copies
<1>5. \A q \in Qbls, r \in Requests : HasCopy(q, r)' <=> HasCopy(q, r) /\ ~(q = q0 /\ r = r0)
  BY <1>2, <1>3
<1>6. /\ CounterInv' /\ ArrivalInv' /\ remaining' \in [Nodes -> [Requests -> Nat]]
      /\ finals' \in [Nodes -> [Requests -> Nat]] /\ chan' \in [Links -> Seq(MsgType)]
  BY <1>4, <1>5, <1>1, FinishFacts
<1>7. qpc' \in [Qbls -> {"off", "idle", "run", "exited"}]
  BY <1>0, <1>1
<1>8. QueriesShape'
  BY <1>0, <1>1, <1>6, <1>7 DEF QueriesShape, QueriesConstants
<1>9. RegistryInv'
  <2>1. \A q \in Qbls : qpc'[q] = "off" => qpc[q] = "off"
    BY <1>0, <1>1
  <2> QED BY <2>1, <1>0, <1>1 DEF RegistryInv
<1> QED BY <1>2, <1>6, <1>8, <1>9 DEF QueriesInv

\* The request a reader takes is a new one to its session.
LEMMA RequestHead ==
    ASSUME QueriesInv, NEW c \in Links, ReceiveRequest(c)
    PROVE  \E r0 \in Requests :
              /\ chan[c] # <<>> /\ chan[c][1].type = "request" /\ r0 = RequestOf(chan[c][1])
              /\ r0.from = c[1] /\ serving[c] = NoRequest /\ todo[c] = {}
              /\ Untouched(c[2], r0)
              /\ r0 = [from |-> Head(chan[c]).from, id |-> Head(chan[c]).id]
<1>0. QueriesConstants /\ RegistryInv /\ ArrivalInv
  BY DEF QueriesInv, QueriesShape
<1>1. serving[c] = NoRequest /\ chan[c] # <<>> /\ Head(chan[c]).type = "request"
  BY DEF ReceiveRequest, HeadIs
<1>2. Head(chan[c]) = chan[c][1] /\ chan[c][1] \in MsgType /\ 1 \in 1..Len(chan[c])
  BY <1>1, TakeFacts
<1>3. PICK m : m = chan[c][1]
  OBVIOUS
<1>4. PICK r0 \in Requests : r0 = RequestOf(m)
  BY <1>0, <1>2, <1>3, MessageFacts
<1>5. r0.from = m.from /\ r0 = [from |-> m.from, id |-> m.id]
  BY <1>4 DEF RequestOf
<1>6. m.from = c[1] /\ Untouched(c[2], r0)
  BY <1>0, <1>1, <1>2, <1>3, <1>4 DEF ArrivalInv
<1>7. todo[c] = {}
  BY <1>0, <1>1 DEF RegistryInv
<1> QED BY <1>1, <1>2, <1>3, <1>4, <1>5, <1>6, <1>7

\* A session with no queryable sends the final itself.
LEMMA UnmatchedFacts ==
    ASSUME QueriesInv, NEW c \in Links, NEW r0 \in Requests, Untouched(c[2], r0),
           chan[c] # <<>>, chan[c][1].type = "request", r0 = RequestOf(chan[c][1]),
           SendFinal(c[2], Pop(c), r0),
           UNCHANGED <<getVars, readerVars, remaining, dropVars, inQ, qblVars, answers, sentOnClosed>>
    PROVE  /\ QueriesInv'
           /\ \A n \in Nodes, r \in Requests : ~(n = c[2] /\ r = r0) => finals'[n][r] = finals[n][r]
           /\ finals[c[2]][r0] = 0 /\ finals'[c[2]][r0] = 1
           /\ \E m \in MsgType :
                 /\ m.type = "final" /\ RequestOf(m) = r0 /\ m.from = r0.from /\ m.id = r0.id
                 /\ chan'[c] = Tail(chan[c])
                 /\ \A d \in Links : d # c /\ d[1] = c[2] => chan'[d] = Append(chan[d], m)
                 /\ \A d \in Links : d # c /\ d[1] # c[2] => chan'[d] = chan[d]
<1> DEFINE M == MsgType
<1>0. /\ QueriesConstants /\ QueriesShape /\ RegistryInv /\ SingleCopies /\ CounterInv
      /\ finals \in [Nodes -> [Requests -> Nat]] /\ chan \in [Links -> Seq(M)]
      /\ c[2] \in Nodes /\ c[1] # c[2]
  BY LinkFacts DEF QueriesInv, QueriesShape
<1>1. PICK m : m = [type |-> "final", from |-> r0.from, id |-> r0.id]
  OBVIOUS
<1>2. m \in M /\ m.type = "final" /\ RequestOf(m) = r0 /\ m.from = r0.from /\ m.id = r0.id
  <2>1. m \in M /\ m.type = "final" /\ m.from = r0.from /\ m.id = r0.id
    BY <1>0, <1>1, MessageFacts
  <2> QED BY <2>1, <1>0, RequestFacts DEF RequestOf
<1>3. /\ chan' = Broadcast(c[2], Pop(c), m) /\ finals' = [finals EXCEPT ![c[2]][r0] = @ + 1]
  BY <1>1 DEF SendFinal
<1>4. /\ Pop(c) \in [Links -> Seq(M)]
      /\ Pop(c)[c] = Tail(chan[c]) /\ \A d \in Links : d # c => Pop(c)[d] = chan[d]
  BY TakeFacts
<1> HIDE DEF M
<1>5. /\ chan' \in [Links -> Seq(M)]
      /\ \A d \in Links : d[1] = c[2] => chan'[d] = Append(Pop(c)[d], m)
      /\ \A d \in Links : d[1] # c[2] => chan'[d] = Pop(c)[d]
  <2>1. PICK ch \in [Links -> Seq(M)], n \in Nodes : ch = Pop(c) /\ n = c[2]
    BY <1>0, <1>4
  <2>2. chan' = Broadcast(n, ch, m)
    BY <2>1, <1>3
  <2>3. /\ chan' \in [Links -> Seq(M)]
        /\ \A d \in Links : d[1] = n => chan'[d] = Append(ch[d], m)
        /\ \A d \in Links : d[1] # n => chan'[d] = ch[d]
    <3>1. m \in M
      BY <1>2
    <3>2. PICK b : b = Broadcast(n, ch, m)
      OBVIOUS
    <3>3. /\ b \in [Links -> Seq(M)]
          /\ \A d \in Links : d[1] = n => b[d] = Append(ch[d], m)
          /\ \A d \in Links : d[1] # n => b[d] = ch[d]
      BY <3>1, <3>2, BroadcastFacts
    <3>4. chan' = b
      BY <2>2, <3>2
    <3> QED BY <3>3, <3>4
  <2> QED BY <2>1, <2>3
<1>6. /\ chan'[c] = Tail(chan[c])
      /\ \A d \in Links : d # c /\ d[1] = c[2] => chan'[d] = Append(chan[d], m)
      /\ \A d \in Links : d # c /\ d[1] # c[2] => chan'[d] = chan[d]
  BY <1>0, <1>4, <1>5
<1>7. \A d \in Links : Passed(d)
  BY <1>2, <1>6 DEF Passed, M
<1>8. finals[c[2]][r0] = 0 /\ Copies(c[2], r0) = {}
  BY DEF Untouched
<1>9. finals' = [finals EXCEPT ![c[2]][r0] = 1]
  BY <1>3, <1>8
<1>10. /\ finals' \in [Nodes -> [Requests -> Nat]] /\ finals'[c[2]][r0] = 1
       /\ \A n \in Nodes, r \in Requests : ~(n = c[2] /\ r = r0) => finals'[n][r] = finals[n][r]
  BY <1>9, <1>0
<1>11. UNCHANGED <<issued, open, ended, replies, serving, todo, remaining, declared, closedQ,
                   inQ, qpc, cur, told, answers, sentOnClosed>>
  BY DEF getVars, readerVars, dropVars, qblVars
<1>12. /\ \A q \in Qbls, r \in Requests : HasCopy(q, r)' <=> HasCopy(q, r)
       /\ SingleCopies'
  BY <1>0, <1>11, SameCopies
<1>13. ASSUME NEW n \in Nodes, NEW r \in Requests PROVE Copies(n, r)' = Copies(n, r)
  BY <1>12 DEF Copies
<1>14. CounterInv'
  <2>1. ASSUME NEW n \in Nodes, NEW r \in Requests
        PROVE  /\ IsFiniteSet(Copies(n, r)') /\ remaining'[n][r] = Cardinality(Copies(n, r)')
               /\ finals'[n][r] <= 1 /\ (finals'[n][r] = 1 => Copies(n, r)' = {})
    <3>1. CASE n = c[2] /\ r = r0
      BY <3>1, <1>0, <1>8, <1>10, <1>11, <1>13 DEF CounterInv
    <3>2. CASE ~(n = c[2] /\ r = r0)
      BY <3>2, <1>0, <1>10, <1>11, <1>13 DEF CounterInv
    <3> QED BY <3>1, <3>2
  <2> QED BY <2>1 DEF CounterInv
<1>15. ArrivalInv'
  <2>1. Taken(c[2], r0)
    BY <1>6 DEF Taken
  <2>2. ASSUME NEW n \in Nodes, NEW r \in Requests, Untouched(n, r)
        PROVE  Untouched(n, r)' \/ Taken(n, r)
    <3>1. CASE n = c[2] /\ r = r0
      BY <3>1, <2>1
    <3>2. CASE ~(n = c[2] /\ r = r0)
      BY <3>2, <2>2, <1>10, <1>13 DEF Untouched
    <3> QED BY <3>1, <3>2
  <2> QED BY <2>2, <1>7, <1>11, ArrivalKept
<1>16. RegistryInv'
  BY <1>0, <1>11 DEF RegistryInv
<1>17. QueriesShape'
  BY <1>0, <1>5, <1>10, <1>11 DEF QueriesShape, QueriesConstants, M
<1>18. QueriesInv'
  BY <1>12, <1>14, <1>15, <1>16, <1>17 DEF QueriesInv
<1> QED BY <1>2, <1>6, <1>8, <1>10, <1>18 DEF M

\* One with queryables arms the counter with their number.
LEMMA MatchedKeeps ==
    ASSUME QueriesInv, NEW c \in Links, NEW r0 \in Requests, Untouched(c[2], r0),
           chan[c] # <<>>, chan[c][1].type = "request", r0 = RequestOf(chan[c][1]),
           r0.from = c[1], serving[c] = NoRequest, NEW matched,
           matched \subseteq declared, \A q \in matched : NodeOf[q] = c[2], matched # {},
           serving' = [serving EXCEPT ![c] = r0], todo' = [todo EXCEPT ![c] = matched],
           remaining' = [remaining EXCEPT ![c[2]][r0] = Cardinality(matched)],
           chan' = Pop(c),
           UNCHANGED <<finals, getVars, dropVars, inQ, qblVars, answers, sentOnClosed>>
    PROVE  QueriesInv'
<1>0. /\ QueriesConstants /\ QueriesShape /\ RegistryInv /\ SingleCopies /\ CounterInv
      /\ remaining \in [Nodes -> [Requests -> Nat]] /\ c[2] \in Nodes
      /\ serving \in [Links -> Requests \cup {NoRequest}] /\ todo \in [Links -> SUBSET Qbls]
      /\ declared \in SUBSET Qbls
  BY LinkFacts DEF QueriesInv, QueriesShape
<1>1. UNCHANGED <<issued, open, ended, replies, finals, declared, closedQ,
                  inQ, qpc, cur, told, answers, sentOnClosed>>
  BY DEF getVars, dropVars, qblVars
<1>2. finals[c[2]][r0] = 0 /\ Copies(c[2], r0) = {}
  BY DEF Untouched
<1>3. matched \subseteq Qbls /\ \A q \in matched : NodeOf[q] = c[2] /\ q \in declared
  BY <1>0
<1>4. \A q \in matched : ~HasCopy(q, r0)
  BY <1>2, <1>3 DEF Copies
<1>5. /\ \A q \in Qbls, r \in Requests :
             HasCopy(q, r)' <=> HasCopy(q, r) \/ (q \in matched /\ r = r0)
      /\ SingleCopies'
  <2>1. inQ' = inQ /\ qpc' = qpc /\ cur' = cur /\ matched \subseteq Qbls
    BY <1>1, <1>3
  <2>2. Arms(c, r0, matched)
    BY <2>1, <1>4 DEF Arms
  <2> QED BY <2>2, RequestedCopies
<1>6. IsFiniteSet(matched) /\ Cardinality(matched) \in Nat
  <2>1. IsFiniteSet(declared) /\ matched \subseteq declared
    BY <1>0 DEF RegistryInv
  <2> QED BY <2>1, FS_Subset, FS_CardinalityType
<1>7. Copies(c[2], r0)' = matched
  <2>1. \A q \in Qbls : NodeOf[q] = c[2] => ~HasCopy(q, r0)
    BY <1>2 DEF Copies
  <2> QED BY <1>3, <1>5, <2>1 DEF Copies
<1>8. ASSUME NEW n \in Nodes, NEW r \in Requests, ~(n = c[2] /\ r = r0)
      PROVE  Copies(n, r)' = Copies(n, r)
  BY <1>3, <1>5, <1>8 DEF Copies
<1>9. /\ remaining' \in [Nodes -> [Requests -> Nat]]
      /\ remaining'[c[2]][r0] = Cardinality(matched)
      /\ \A n \in Nodes, r \in Requests : ~(n = c[2] /\ r = r0) => remaining'[n][r] = remaining[n][r]
  <2>1. PICK k \in Nat : k = Cardinality(matched)
    BY <1>6
  <2>2. remaining' = [remaining EXCEPT ![c[2]][r0] = k]
    BY <2>1
  <2> QED BY <2>1, <2>2, <1>0
<1>10. CounterInv'
  <2>1. ASSUME NEW n \in Nodes, NEW r \in Requests
        PROVE  /\ IsFiniteSet(Copies(n, r)') /\ remaining'[n][r] = Cardinality(Copies(n, r)')
               /\ finals'[n][r] <= 1 /\ (finals'[n][r] = 1 => Copies(n, r)' = {})
    <3>1. CASE n = c[2] /\ r = r0
      BY <3>1, <1>1, <1>2, <1>6, <1>7, <1>9
    <3>2. CASE ~(n = c[2] /\ r = r0)
      BY <3>2, <1>0, <1>1, <1>8, <1>9 DEF CounterInv
    <3> QED BY <3>1, <3>2
  <2> QED BY <2>1 DEF CounterInv
<1>11. /\ chan' \in [Links -> Seq(MsgType)] /\ \A d \in Links : Passed(d)
       /\ chan'[c] = Tail(chan[c])
  BY TakeFacts
<1>12. ArrivalInv'
  <2>1. Taken(c[2], r0)
    BY <1>11 DEF Taken
  <2>2. ASSUME NEW n \in Nodes, NEW r \in Requests, Untouched(n, r)
        PROVE  Untouched(n, r)' \/ Taken(n, r)
    <3>1. CASE n = c[2] /\ r = r0
      BY <3>1, <2>1
    <3>2. CASE ~(n = c[2] /\ r = r0)
      BY <3>2, <2>2, <1>1, <1>8 DEF Untouched
    <3> QED BY <3>1, <3>2
  <2> QED BY <2>2, <1>1, <1>11, ArrivalKept
<1>13. /\ todo' \in [Links -> SUBSET Qbls] /\ serving' \in [Links -> Requests \cup {NoRequest}]
       /\ todo'[c] = matched /\ serving'[c] = r0
       /\ \A d \in Links : d # c => todo'[d] = todo[d] /\ serving'[d] = serving[d]
  BY <1>0, <1>3
<1>14. RegistryInv'
  <2>1. ASSUME NEW d \in Links
        PROVE  /\ serving'[d] = NoRequest <=> todo'[d] = {}
               /\ serving'[d] # NoRequest => serving'[d].from = d[1]
               /\ \A q \in todo'[d] : q \in declared' /\ NodeOf[q] = d[2]
    <3>1. CASE d = c
      <4>1. r0 # NoRequest
        BY <1>0, RequestFacts
      <4> QED BY <3>1, <4>1, <1>1, <1>3, <1>13
    <3>2. CASE d # c
      BY <3>2, <1>0, <1>1, <1>13 DEF RegistryInv
    <3> QED BY <3>1, <3>2
  <2> QED BY <2>1, <1>0, <1>1 DEF RegistryInv
<1>15. QueriesShape'
  BY <1>0, <1>1, <1>9, <1>11, <1>13 DEF QueriesShape, QueriesConstants
<1> QED BY <1>5, <1>10, <1>12, <1>14, <1>15 DEF QueriesInv

\* The two cases of ReceiveRequest.
LEMMA RequestCases ==
    ASSUME QueriesInv, NEW c \in Links, ReceiveRequest(c), NEW r0 \in Requests,
           r0 = [from |-> Head(chan[c]).from, id |-> Head(chan[c]).id]
    PROVE  \E matched :
              /\ matched = {q \in declared : NodeOf[q] = c[2]}
              /\ UNCHANGED <<getVars, dropVars, inQ, qblVars, answers, sentOnClosed>>
              /\ \/ /\ SendFinal(c[2], Pop(c), r0) /\ UNCHANGED <<readerVars, remaining>>
                 \/ /\ matched # {}
                    /\ serving' = [serving EXCEPT ![c] = r0]
                    /\ todo' = [todo EXCEPT ![c] = matched]
                    /\ remaining' = [remaining EXCEPT ![c[2]][r0] = Cardinality(matched)]
                    /\ chan' = Pop(c) /\ UNCHANGED finals
<1>1. PICK matched : matched = {q \in declared : NodeOf[q] = c[2]}
  OBVIOUS
<1>2. CASE matched = {}
  BY <1>1, <1>2 DEF ReceiveRequest, ReadUnchanged
<1>3. CASE matched # {}
  BY <1>1, <1>3 DEF ReceiveRequest, ReadUnchanged
<1> QED BY <1>2, <1>3

\* ReceiveRequest.
LEMMA ReceiveRequestKeeps ==
    ASSUME QueriesInv, NEW c \in Links, ReceiveRequest(c)
    PROVE  QueriesInv'
<1>1. PICK r0 \in Requests :
              /\ chan[c] # <<>> /\ chan[c][1].type = "request" /\ r0 = RequestOf(chan[c][1])
              /\ r0.from = c[1] /\ serving[c] = NoRequest /\ Untouched(c[2], r0)
              /\ r0 = [from |-> Head(chan[c]).from, id |-> Head(chan[c]).id]
  BY RequestHead
<1>2. PICK matched :
              /\ matched = {q \in declared : NodeOf[q] = c[2]}
              /\ UNCHANGED <<getVars, dropVars, inQ, qblVars, answers, sentOnClosed>>
              /\ \/ /\ SendFinal(c[2], Pop(c), r0) /\ UNCHANGED <<readerVars, remaining>>
                 \/ /\ matched # {}
                    /\ serving' = [serving EXCEPT ![c] = r0]
                    /\ todo' = [todo EXCEPT ![c] = matched]
                    /\ remaining' = [remaining EXCEPT ![c[2]][r0] = Cardinality(matched)]
                    /\ chan' = Pop(c) /\ UNCHANGED finals
  BY <1>1, RequestCases
<1>3. CASE SendFinal(c[2], Pop(c), r0) /\ UNCHANGED <<readerVars, remaining>>
  BY <1>1, <1>2, <1>3, UnmatchedFacts
<1>4. CASE ~(SendFinal(c[2], Pop(c), r0) /\ UNCHANGED <<readerVars, remaining>>)
  <2>1. matched \subseteq declared /\ \A q \in matched : NodeOf[q] = c[2]
    BY <1>2
  <2> QED BY <1>1, <1>2, <1>4, <2>1, MatchedKeeps, ZenonT(40)
<1> QED BY <1>3, <1>4

-----------------------------------------------------------------------------
(* The invariant holds, and what it says of a request.                     *)

\* No request is anywhere at the start.
LEMMA QueriesStart ==
    ASSUME QueriesConstants, Init
    PROVE  QueriesInv
<1>1. \A q \in Qbls, r \in Requests : ~Runs(q, r) /\ ~InQueue(q, r) /\ ~ToCome(q, r)
  BY DEF Init, Runs, InQueue, ToCome
<1>2. \A n \in Nodes, r \in Requests : Copies(n, r) = {}
  BY <1>1 DEF Copies, HasCopy
<1>3. QueriesShape
  <2>1. \A S : <<>> \in Seq(S)
    BY EmptySeq
  <2> QED BY <2>1 DEF Init, QueriesShape
<1>4. RegistryInv
  BY FS_EmptySet DEF Init, RegistryInv
<1>5. SingleCopies
  <2>1. \A q \in Qbls : qpc[q] = "off" /\ inQ[q] = <<>>
    BY DEF Init
  <2>2. \A q \in Qbls : 1..Len(inQ[q]) = {}
    BY <2>1
  <2>3. \A q \in Qbls : qpc[q] # "run"
    BY <2>1
  <2>4. \A q \in Qbls : \A i, j \in 1..Len(inQ[q]) : i # j => inQ[q][i] # inQ[q][j]
    BY <2>2
  <2> QED BY <1>1, <2>3, <2>4 DEF SingleCopies
<1>6. CounterInv
  <2>1. IsFiniteSet({}) /\ Cardinality({}) = 0
    BY FS_EmptySet
  <2>2. \A n \in Nodes, r \in Requests : remaining[n][r] = 0 /\ finals[n][r] = 0
    BY DEF Init
  <2> QED BY <1>2, <2>1, <2>2 DEF CounterInv
<1>7. ArrivalInv
  BY <1>2 DEF Init, ArrivalInv, Untouched
<1> QED BY <1>3, <1>4, <1>5, <1>6, <1>7 DEF QueriesInv

\* Every step keeps the invariant.
LEMMA QueriesStep ==
    ASSUME QueriesInv, [Next]_vars
    PROVE  QueriesInv'
<1>1. CASE UNCHANGED vars
  <2>1. QueriesShape'
    BY <1>1 DEF QueriesInv, QueriesShape, QueriesConstants, vars, getVars, readerVars, dropVars,
                qblVars
  <2>2. \A c \in Links : Passed(c)
    BY <1>1 DEF vars, Passed
  <2>3. UNCHANGED <<issued, readerVars, remaining, dropVars, inQ, qpc, cur, finals, sentOnClosed>>
    BY <1>1 DEF vars, getVars, qblVars
  <2> QED BY <2>1, <2>2, <2>3, QuietStep
<1>2. ASSUME NEW n \in Nodes, Get(n) PROVE QueriesInv'
  BY <1>2, GetKeeps
<1>3. ASSUME NEW c \in Links, Reader(c) PROVE QueriesInv'
  BY <1>3, ReceiveRequestKeeps, DeliverKeeps, ReceiveReplyKeeps, ReceiveFinalKeeps DEF Reader
<1>4. ASSUME NEW q \in Qbls, Dispatcher(q) PROVE QueriesInv'
  BY <1>4, StartHandlerKeeps, EndHandlerKeeps, DropKeeps DEF Dispatcher
<1>5. ASSUME NEW q \in Qbls, DeclareQueryable(q) \/ Reply(q) \/ UnregisterQueryable(q) \/ CloseQueue(q)
      PROVE  QueriesInv'
  BY <1>5, ReplyKeeps, DropKeeps
<1>6. ASSUME NEW r \in Requests, TakeReply(r) PROVE QueriesInv'
  BY <1>6, TakeReplyKeeps
<1> QED BY <1>1, <1>2, <1>3, <1>4, <1>5, <1>6 DEF Next

\* With the counter right there is one final, and it comes last.
LEMMA CountedIsSound ==
    ASSUME QueriesInv
    PROVE  QueriesSound
<1>1. NoSendOnClosedQueue
  BY DEF QueriesInv, RegistryInv, NoSendOnClosedQueue
<1>2. ASSUME NEW n \in Nodes, NEW r \in Requests, Outstanding(n, r)
      PROVE  Copies(n, r) # {}
  <2>1. CASE \E c \in Links : c[2] = n /\ serving[c] = r /\ todo[c] # {}
    <3>1. PICK c \in Links : c[2] = n /\ serving[c] = r /\ todo[c] # {}
      BY <2>1
    <3>2. PICK q \in Qbls : q \in todo[c]
      BY <3>1 DEF QueriesInv, QueriesShape
    <3> QED BY <3>1, <3>2, DeliverFacts
  <2>2. CASE \E q \in Qbls : /\ NodeOf[q] = n
                             /\ \/ qpc[q] = "run" /\ cur[q] = r
                                \/ \E i \in 1 .. Len(inQ[q]) : inQ[q][i] = r
    BY <2>2 DEF Copies, HasCopy, Runs, InQueue
  <2> QED BY <1>2, <2>1, <2>2 DEF Outstanding
<1>3. OneFinalPerNode
  BY <1>2 DEF QueriesInv, CounterInv, OneFinalPerNode
<1> QED BY <1>1, <1>3 DEF QueriesSound

\* However many sessions, queryables and Gets there are: each session sends one
\* RESPONSE_FINAL at most for a request, whoever finishes last (a handler or
\* the reader that found a queue full), and none while a copy is left; and no
\* query is put on a closed queue (dispatchQuery, finishQuery, Queryable.Drop).
THEOREM FinalsAreLast == Spec => []QueriesSound
<1>1. Init => QueriesInv
  BY QueriesAssumption, QueriesStart
<1>2. QueriesInv /\ [Next]_vars => QueriesInv'
  BY QueriesStep
<1>3. QueriesInv => QueriesSound
  BY CountedIsSound
<1> QED BY <1>1, <1>2, <1>3, PTL DEF Spec

-----------------------------------------------------------------------------
(* Two sessions: what a Get that is closed has received.                   *)

\* A message that may follow what is on link c.
MayFollow(c, m) ==
    /\ m.type # "request" => m.from = c[2]
    /\ m.type = "reply" => m.reply.to = RequestOf(m) /\ finals[c[1]][RequestOf(m)] = 0
    /\ m.type = "final" => finals'[c[1]][RequestOf(m)] = 1

\* What a step does to a link.
LinkSame(c) == chan'[c] = chan[c]
LinkTail(c) == chan[c] # <<>> /\ chan'[c] = Tail(chan[c])
LinkSend(c) == \E m \in MsgType : MayFollow(c, m) /\ chan'[c] = Append(chan[c], m)

\* A final once sent stays sent.
FinalsStay == \A n \in Nodes, r \in Requests : finals[n][r] = 1 => finals'[n][r] = 1

\* The links of two sessions.
LEMMA TwoFacts ==
    ASSUME TwoSessions
    PROVE  /\ \A c, d \in Links : c[2] = d[2] => c = d
           /\ \A c \in Links, n \in Nodes : n # c[1] => n = c[2]
           /\ \A c \in Links, n \in Nodes : n # c[2] => n = c[1]
<1>1. \A c \in Links, n \in Nodes : n = c[1] \/ n = c[2]
  BY LinkFacts DEF TwoSessions
<1>2. \A c, d \in Links : c[2] = d[2] => c[1] = d[1]
  BY <1>1, LinkFacts
<1> QED BY <1>1, <1>2, LinkFacts

\* What holds of a link holds after the step.
LEMMA AnswersOnKept ==
    ASSUME QueriesInv, FinalsStay, NEW c \in Links, AnswersOn(c),
           LinkSame(c) \/ LinkTail(c) \/ LinkSend(c)
    PROVE  AnswersOn(c)'
<1> DEFINE s == chan[c]
           t == chan'[c]
           M == MsgType
<1>0. QueriesConstants /\ s \in Seq(M) /\ c[1] \in Nodes
  BY LinkFacts DEF QueriesInv, QueriesShape
<1>1. /\ Len(s) \in Nat /\ \A i \in 1..Len(s) : s[i] \in MsgType
  BY <1>0, LenProperties, ElementOfSeq
<1>2. /\ \A i \in 1..Len(s) : AnswerOk(c, s[i])
      /\ \A i, j \in 1..Len(s) :
             i < j /\ s[i].type = "final" /\ s[j].type = "reply" => s[j].id # s[i].id
  BY DEF AnswersOn
<1>3. ASSUME NEW x \in MsgType, AnswerOk(c, x) PROVE AnswerOk(c, x)'
  <2>1. RequestOf(x) \in Requests
    BY <1>0, MessageFacts
  <2> QED BY <1>3, <2>1, <1>0 DEF AnswerOk, FinalsStay
<1>4. SUFFICES ASSUME \A i \in 1..Len(t) : t[i] \in MsgType
               PROVE  /\ \A i \in 1..Len(t) : t[i] \in MsgType
                      /\ \A i \in 1..Len(t) : \A x : x = t[i] => AnswerOk(c, x)'
                      /\ \A i, j \in 1..Len(t) :
                            i < j /\ t[i].type = "final" /\ t[j].type = "reply" => t[j].id # t[i].id
  <2>1. \A i \in 1..Len(t) : t[i] \in MsgType
    <3>1. chan'[c] \in Seq(MsgType)
      <4>1. CASE LinkSame(c)
        BY <4>1, <1>0 DEF LinkSame
      <4>2. CASE LinkTail(c)
        BY <4>2, <1>0, HeadTailProperties DEF LinkTail
      <4>3. CASE LinkSend(c)
        BY <4>3, <1>0, AppendProperties DEF LinkSend
      <4> QED BY <4>1, <4>2, <4>3
    <3> QED BY <3>1, ElementOfSeq
  <2>2. ASSUME \A i \in 1..Len(t) : \A x : x = t[i] => AnswerOk(c, x)'
        PROVE  \A i \in 1..Len(chan[c])' : AnswerOk(c, chan[c][i])'
    <3>1. ASSUME NEW i \in 1..Len(chan'[c]) PROVE AnswerOk(c, chan[c][i])'
      <4>1. PICK x : x = chan'[c][i]
        OBVIOUS
      <4>2. AnswerOk(c, x)'
        BY <4>1, <2>2
      <4> QED BY <4>1, <4>2
    <3> QED BY <3>1
  <2> QED BY <2>1, <2>2 DEF AnswersOn
<1>5. LinkSame(c) => t = s
  BY DEF LinkSame
<1>6. LinkTail(c) => s # <<>> /\ t = Tail(s)
  BY DEF LinkTail
<1>7. LinkSend(c) => \E m \in M : MayFollow(c, m) /\ t = Append(s, m)
  BY DEF LinkSend
<1> HIDE DEF s, t, M
<1>8. CASE LinkSame(c)
  BY <1>8, <1>5, <1>1, <1>2, <1>3
<1>9. CASE LinkTail(c)
  <2>1. Len(t) = Len(s) - 1 /\ \A i \in 1..(Len(s) - 1) : t[i] = s[i + 1]
    BY <1>9, <1>6, <1>0, HeadTailProperties
  <2>2. ASSUME NEW i \in 1..Len(t) PROVE i + 1 \in 1..Len(s) /\ t[i] = s[i + 1]
    BY <2>1, <1>1
  <2>3. \A i \in 1..Len(t) : \A x : x = t[i] => AnswerOk(c, x)'
    BY <2>2, <1>1, <1>2, <1>3
  <2>4. ASSUME NEW i \in 1..Len(t), NEW j \in 1..Len(t), i < j, t[i].type = "final", t[j].type = "reply"
        PROVE  t[j].id # t[i].id
    <3>1. i + 1 < j + 1
      BY <2>4, <2>1, <1>1
    <3> QED BY <3>1, <2>4, <2>2, <1>2
  <2> QED BY <1>4, <2>3, <2>4
<1>10. CASE LinkSend(c)
  <2>1. PICK m \in M : MayFollow(c, m) /\ t = Append(s, m)
    BY <1>10, <1>7
  <2>2. Len(t) = Len(s) + 1 /\ t[Len(s) + 1] = m /\ \A i \in 1..Len(s) : t[i] = s[i]
    BY <2>1, <1>0, AppendProperties
  <2>3. m \in MsgType
    BY DEF M
  <2>4. AnswerOk(c, m)'
    BY <2>1 DEF MayFollow, AnswerOk
  <2>5. PICK n \in Nat : n = Len(s)
    BY <1>1
  <2>6. \A i \in 1..Len(t) : i \in 1..n \/ i = n + 1
    BY <2>2, <2>5
  <2>7. \A i \in 1..Len(t) : \A x : x = t[i] => AnswerOk(c, x)'
    <3> SUFFICES ASSUME NEW i \in 1..Len(t), NEW x, x = t[i] PROVE AnswerOk(c, x)'
      OBVIOUS
    <3>1. CASE i \in 1..n
      BY <3>1, <2>2, <2>5, <1>1, <1>2, <1>3
    <3>2. CASE i = n + 1
      <4>1. x = m
        BY <3>2, <2>2, <2>5
      <4> QED BY <4>1, <2>4
    <3> QED BY <3>1, <3>2, <2>6
  <2>8. ASSUME NEW i \in 1..Len(t), NEW j \in 1..Len(t), i < j, t[i].type = "final", t[j].type = "reply"
        PROVE  t[j].id # t[i].id
    <3>1. i \in 1..n /\ t[i] = s[i] /\ s[i] \in MsgType /\ AnswerOk(c, s[i])
      <4>1. i \in 1..n
        BY <2>8, <2>6, <2>2, <2>5
      <4> QED BY <4>1, <2>2, <2>5, <1>1, <1>2
    <3>2. CASE j \in 1..n
      BY <3>1, <3>2, <2>2, <2>5, <2>8, <1>2
    <3>3. CASE j = n + 1
      <4>1. t[j] = m /\ m.type = "reply"
        BY <3>3, <2>2, <2>5, <2>8
      <4>2. m.from = c[2] /\ finals[c[1]][RequestOf(m)] = 0
        BY <4>1, <2>1 DEF MayFollow
      <4>3. s[i].from = c[2] /\ finals[c[1]][RequestOf(s[i])] = 1
        BY <3>1, <2>8 DEF AnswerOk
      <4>4. m.id = s[i].id => RequestOf(m) = RequestOf(s[i])
        BY <4>2, <4>3 DEF RequestOf
      <4> QED BY <3>1, <4>1, <4>2, <4>3, <4>4
    <3> QED BY <3>2, <3>3, <2>6
  <2> QED BY <1>4, <2>7, <2>8
<1> QED BY <1>8, <1>9, <1>10

\* A reply on a link stays there unless it is the first message and taken.
LEMMA OnTheWayKept ==
    ASSUME QueriesInv, NEW c \in Links, NEW a, OnTheWay(c, a),
           LinkSame(c) \/ LinkTail(c) \/ LinkSend(c)
    PROVE  \/ OnTheWay(c, a)'
           \/ LinkTail(c) /\ chan[c][1].type = "reply" /\ chan[c][1].reply = a
<1>0. chan[c] \in Seq(MsgType)
  BY DEF QueriesInv, QueriesShape
<1>1. PICK i \in 1..Len(chan[c]) : chan[c][i].type = "reply" /\ chan[c][i].reply = a
  BY DEF OnTheWay
<1>2. CASE LinkSame(c)
  BY <1>1, <1>2 DEF LinkSame, OnTheWay
<1>3. CASE LinkTail(c) /\ i # 1
  <2>1. /\ Len(chan[c]) \in Nat /\ Len(chan'[c]) = Len(chan[c]) - 1
        /\ \A k \in 1..(Len(chan[c]) - 1) : chan'[c][k] = chan[c][k + 1]
    BY <1>0, <1>3, HeadTailProperties, LenProperties DEF LinkTail
  <2>2. i - 1 \in 1..Len(chan'[c]) /\ i - 1 \in 1..(Len(chan[c]) - 1) /\ (i - 1) + 1 = i
    BY <1>3, <2>1
  <2>3. chan'[c][i - 1] = chan[c][i]
    BY <2>1, <2>2
  <2> QED BY <2>2, <2>3, <1>1 DEF OnTheWay
<1>4. CASE LinkTail(c) /\ i = 1
  BY <1>1, <1>4
<1>5. CASE LinkSend(c)
  <2>1. PICK m \in MsgType : chan'[c] = Append(chan[c], m)
    BY <1>5 DEF LinkSend
  <2>2. /\ Len(chan[c]) \in Nat /\ Len(chan'[c]) = Len(chan[c]) + 1
        /\ \A k \in 1..Len(chan[c]) : chan'[c][k] = chan[c][k]
    BY <1>0, <2>1, AppendProperties, LenProperties
  <2>3. i \in 1..Len(chan'[c])
    BY <2>2
  <2> QED BY <2>2, <2>3, <1>1 DEF OnTheWay
<1> QED BY <1>2, <1>3, <1>4, <1>5

\* A step that asks, collects and answers nothing: it may take a REQUEST off a
\* link and send finals.
LEMMA AnswersKept ==
    ASSUME QueriesInv, AnswerInv, FinalsStay,
           issued' = issued, open' = open, ended' = ended, replies' = replies, dropped' = dropped,
           answers' = answers,
           \A q \in Qbls, r \in Requests : HasCopy(q, r)' => r.from # NodeOf[q],
           \A c \in Links : \/ LinkSame(c) \/ LinkSend(c)
                            \/ LinkTail(c) /\ chan[c][1].type # "reply"
    PROVE  AnswerInv'
<1>1. /\ \A r \in Requests : r.id <= issued'[r.from] <=> r \in open' \cup ended'
      /\ open' \cap ended' = {}
  BY DEF AnswerInv
<1>2. ASSUME NEW c \in Links PROVE AnswersOn(c)'
  BY AnswersOnKept DEF AnswerInv
<1>3. ASSUME NEW c \in Links, NEW r \in ended', r.from = c[2] PROVE finals'[c[1]][r] = 1
  <2>1. r \in Requests /\ c[1] \in Nodes /\ r \in ended
    BY <1>3, LinkFacts DEF QueriesInv, QueriesShape
  <2>2. finals[c[1]][r] = 1
    BY <2>1, <1>3 DEF AnswerInv
  <2> QED BY <2>1, <2>2 DEF FinalsStay
<1>4. ASSUME NEW a \in answers', NEW c \in Links, a.to.from = c[2], a \notin replies'[a.to] \cup dropped'[a.to]
      PROVE  a.to \in open' /\ OnTheWay(c, a)'
  <2>1. a.to \in open /\ OnTheWay(c, a)
    BY <1>4 DEF AnswerInv
  <2>2. OnTheWay(c, a)'
    <3>1. LinkSame(c) \/ LinkTail(c) \/ LinkSend(c)
      OBVIOUS
    <3>2. \/ OnTheWay(c, a)'
          \/ LinkTail(c) /\ chan[c][1].type = "reply"
      BY <2>1, <3>1, OnTheWayKept
    <3>3. CASE LinkTail(c) /\ chan[c][1].type # "reply"
      BY <3>2, <3>3
    <3>4. CASE LinkSame(c)
      BY <3>4, <2>1 DEF LinkSame, OnTheWay
    <3>5. CASE LinkSend(c)
      <4>2. PICK m \in MsgType : chan'[c] = Append(chan[c], m)
        BY <3>5 DEF LinkSend
      <4>3. chan[c] \in Seq(MsgType)
        BY DEF QueriesInv, QueriesShape
      <4>4. Len(chan[c]) \in Nat /\ Len(chan'[c]) = Len(chan[c]) + 1
        BY <4>2, <4>3, AppendProperties, LenProperties
      <4>5. LinkTail(c) => Len(chan'[c]) = Len(chan[c]) - 1
        BY <4>3, HeadTailProperties DEF LinkTail
      <4> QED BY <3>2, <4>4, <4>5
    <3> QED BY <3>3, <3>4, <3>5
  <2> QED BY <2>1, <2>2
<1>5. ASSUME NEW a \in answers', a \notin replies'[a.to] \cup dropped'[a.to] PROVE a.to \in open'
  BY <1>5 DEF AnswerInv
<1> QED BY <1>1, <1>2, <1>3, <1>4, <1>5 DEF AnswerInv

\* A final for a request of the other session may follow on the link to it.
LEMMA FinalMayFollow ==
    ASSUME QueriesInv, TwoSessions, NEW n \in Nodes, NEW m \in MsgType, m.type = "final",
           m.from # n, finals'[n][RequestOf(m)] = 1, NEW c \in Links, c[1] = n
    PROVE  MayFollow(c, m)
<1>1. m.from \in Nodes
  BY MessageFacts DEF QueriesInv, QueriesShape
<1>2. m.from = c[2]
  BY <1>1, TwoFacts
<1> QED BY <1>2 DEF MayFollow

\* A share finished, by the reader or by the handler.
LEMMA FinishAnswers ==
    ASSUME QueriesInv, AnswerInv, TwoSessions,
           NEW q0 \in Qbls, NEW r0 \in Requests, HasCopy(q0, r0),
           FinishQuery(NodeOf[q0], r0), issued' = issued,
           open' = open, ended' = ended, replies' = replies, dropped' = dropped,
           answers' = answers,
           \A q \in Qbls, r \in Requests :
               HasCopy(q, r)' <=> HasCopy(q, r) /\ ~(q = q0 /\ r = r0)
    PROVE  AnswerInv'
<1>1. NodeOf[q0] \in Nodes /\ r0.from # NodeOf[q0] /\ finals[NodeOf[q0]][r0] = 0
  BY Touched DEF AnswerInv
<1>2. /\ \A n \in Nodes, r \in Requests :
             ~(n = NodeOf[q0] /\ r = r0) => finals'[n][r] = finals[n][r]
      /\ \/ UNCHANGED <<chan, finals>>
         \/ \E m \in MsgType :
               /\ m.type = "final" /\ RequestOf(m) = r0 /\ m.from = r0.from
               /\ chan' = Broadcast(NodeOf[q0], chan, m)
               /\ finals'[NodeOf[q0]][r0] = 1
  BY FinishFacts
<1>3. FinalsStay
  <2> SUFFICES ASSUME NEW n \in Nodes, NEW r \in Requests, finals[n][r] = 1
               PROVE  finals'[n][r] = 1
    BY DEF FinalsStay
  <2>1. ~(n = NodeOf[q0] /\ r = r0)
    BY <1>1
  <2> QED BY <2>1, <1>2
<1>4. ASSUME NEW c \in Links PROVE LinkSame(c) \/ LinkSend(c)
  <2>1. CASE chan' = chan
    BY <2>1 DEF LinkSame
  <2>2. CASE chan' # chan
    <3>1. PICK m \in MsgType : /\ m.type = "final" /\ RequestOf(m) = r0 /\ m.from = r0.from
                               /\ chan' = Broadcast(NodeOf[q0], chan, m)
                               /\ finals'[NodeOf[q0]][r0] = 1
      BY <1>2, <2>2
    <3>2. PICK n \in Nodes : n = NodeOf[q0]
      BY <1>1
    <3>3. /\ c[1] = n => chan'[c] = Append(chan[c], m)
          /\ c[1] # n => chan'[c] = chan[c]
      <4>1. m.type # "request"
        BY <3>1
      <4> QED BY <3>1, <3>2, <4>1, SentFacts
    <3>4. CASE c[1] # n
      BY <3>3, <3>4 DEF LinkSame
    <3>5. CASE c[1] = n
      <4>1. MayFollow(c, m)
        BY <3>1, <3>2, <3>5, <1>1, FinalMayFollow
      <4> QED BY <3>3, <3>5, <4>1 DEF LinkSend
    <3> QED BY <3>4, <3>5
  <2> QED BY <2>1, <2>2
<1>5. \A q \in Qbls, r \in Requests : HasCopy(q, r)' => r.from # NodeOf[q]
  BY DEF AnswerInv
<1> QED BY <1>3, <1>4, <1>5, AnswersKept

\* Deliver and the steps of a queryable, other than Reply.
LEMMA QueryAnswers ==
    ASSUME QueriesInv, AnswerInv, TwoSessions, NEW q \in Qbls,
           \/ \E c \in Links : DeliverQuery(c, q)
           \/ DeclareQueryable(q) \/ Dispatcher(q) \/ UnregisterQueryable(q) \/ CloseQueue(q)
    PROVE  AnswerInv'
<1>0. \A p \in Qbls, r \in Requests : HasCopy(p, r) => r.from # NodeOf[p]
  BY DEF AnswerInv
<1>1. ASSUME UNCHANGED <<issued, open, ended, replies, dropped, answers, chan, finals>>,
             \A p \in Qbls, r \in Requests : HasCopy(p, r)' <=> HasCopy(p, r)
      PROVE  AnswerInv'
  <2>1. FinalsStay /\ \A c \in Links : LinkSame(c)
    BY <1>1 DEF FinalsStay, LinkSame
  <2> QED BY <1>0, <1>1, <2>1, AnswersKept
<1>2. ASSUME NEW c \in Links, DeliverQuery(c, q) PROVE AnswerInv'
  <2>0. UNCHANGED <<issued, open, ended, replies, dropped, answers>> /\ q \in todo[c]
    BY <1>2 DEF DeliverQuery, getVars
  <2>1. CASE Len(inQ[q]) < QCap
    <3>1. /\ \A p \in Qbls, r \in Requests : HasCopy(p, r)' <=> HasCopy(p, r)
          /\ UNCHANGED <<chan, finals>>
      BY <1>2, <2>1, QueuedCopies
    <3> QED BY <2>0, <3>1, <1>1
  <2>2. CASE ~(Len(inQ[q]) < QCap)
    <3>1. /\ serving[c] \in Requests /\ NodeOf[q] = c[2] /\ ToCome(q, serving[c])
      BY <2>0, DeliverFacts
    <3>2. PICK r0 \in Requests : r0 = serving[c]
      BY <3>1
    <3>3. /\ \A p \in Qbls, r \in Requests :
                 HasCopy(p, r)' <=> HasCopy(p, r) /\ ~(p = q /\ r = serving[c])
          /\ FinishQuery(c[2], serving[c])
      BY <1>2, <2>2, FullCopies
    <3>4. HasCopy(q, r0) /\ FinishQuery(NodeOf[q], r0)
      BY <3>1, <3>2, <3>3 DEF HasCopy
    <3>5. \A p \in Qbls, r \in Requests : HasCopy(p, r)' <=> HasCopy(p, r) /\ ~(p = q /\ r = r0)
      BY <3>2, <3>3
    <3> QED BY <2>0, <3>4, <3>5, FinishAnswers
  <2> QED BY <2>1, <2>2
<1>3. CASE StartHandler(q)
  <2>1. UNCHANGED <<issued, open, ended, replies, dropped, answers, chan, finals>>
    BY <1>3 DEF StartHandler, getVars
  <2> QED BY <2>1, <1>1, <1>3, StartedCopies
<1>4. CASE EndHandler(q)
  <2>0. UNCHANGED <<issued, open, ended, replies, dropped, answers>> /\ FinishQuery(NodeOf[q], cur[q])
    BY <1>4 DEF EndHandler, getVars
  <2>1. /\ cur[q] \in Requests /\ q \in Copies(NodeOf[q], cur[q])
        /\ \A p \in Qbls, r \in Requests :
               HasCopy(p, r)' <=> HasCopy(p, r) /\ ~(p = q /\ r = cur[q])
    BY <1>4, EndedCopies
  <2>2. PICK r0 \in Requests : r0 = cur[q]
    BY <2>1
  <2>3. HasCopy(q, r0) /\ FinishQuery(NodeOf[q], r0)
    BY <2>0, <2>1, <2>2 DEF Copies
  <2>4. \A p \in Qbls, r \in Requests : HasCopy(p, r)' <=> HasCopy(p, r) /\ ~(p = q /\ r = r0)
    BY <2>1, <2>2
  <2> QED BY <2>0, <2>3, <2>4, FinishAnswers
<1>5. CASE DeclareQueryable(q) \/ UnregisterQueryable(q) \/ CloseQueue(q) \/ DispatcherExit(q)
  <2>1. UNCHANGED <<issued, open, ended, replies, dropped, chan, serving, todo, inQ, cur, answers, finals>>
    BY <1>5 DEF DeclareQueryable, UnregisterQueryable, CloseQueue, DispatcherExit, getVars, readerVars, qblVars
  <2>2. \A p \in Qbls : qpc'[p] = "run" <=> qpc[p] = "run"
    <3>1. qpc \in [Qbls -> {"off", "idle", "run", "exited"}]
      BY DEF QueriesInv, QueriesShape
    <3>2. CASE DeclareQueryable(q)
      BY <3>1, <3>2 DEF DeclareQueryable
    <3>3. CASE UnregisterQueryable(q) \/ CloseQueue(q)
      BY <3>3 DEF UnregisterQueryable, CloseQueue, qblVars
    <3>4. CASE DispatcherExit(q)
      BY <3>1, <3>4 DEF DispatcherExit
    <3> QED BY <1>5, <3>2, <3>3, <3>4
  <2>3. \A p \in Qbls, r \in Requests : HasCopy(p, r)' <=> HasCopy(p, r)
    BY <2>1, <2>2, SameCopies
  <2> QED BY <2>1, <2>3, <1>1
<1> QED BY <1>2, <1>3, <1>4, <1>5 DEF Dispatcher

\* ReceiveRequest: the session is another than the one that asked.
LEMMA RequestAnswers ==
    ASSUME QueriesInv, AnswerInv, TwoSessions, NEW c \in Links, ReceiveRequest(c)
    PROVE  AnswerInv'
<1>0. /\ \A q \in Qbls, r \in Requests : HasCopy(q, r) => r.from # NodeOf[q]
      /\ c[1] \in Nodes /\ c[2] \in Nodes /\ c[1] # c[2]
  BY LinkFacts DEF AnswerInv
<1>1. PICK r0 \in Requests :
              /\ chan[c] # <<>> /\ chan[c][1].type = "request" /\ r0 = RequestOf(chan[c][1])
              /\ r0.from = c[1] /\ serving[c] = NoRequest /\ Untouched(c[2], r0)
              /\ r0 = [from |-> Head(chan[c]).from, id |-> Head(chan[c]).id]
  BY RequestHead
<1>2. PICK matched :
              /\ matched = {q \in declared : NodeOf[q] = c[2]}
              /\ UNCHANGED <<getVars, dropVars, inQ, qblVars, answers, sentOnClosed>>
              /\ \/ /\ SendFinal(c[2], Pop(c), r0) /\ UNCHANGED <<readerVars, remaining>>
                 \/ /\ matched # {}
                    /\ serving' = [serving EXCEPT ![c] = r0]
                    /\ todo' = [todo EXCEPT ![c] = matched]
                    /\ remaining' = [remaining EXCEPT ![c[2]][r0] = Cardinality(matched)]
                    /\ chan' = Pop(c) /\ UNCHANGED finals
  BY <1>1, RequestCases
<1>3. issued' = issued /\ open' = open /\ ended' = ended /\ replies' = replies /\ dropped' = dropped
      /\ answers' = answers
  BY <1>2 DEF getVars
<1>4. CASE SendFinal(c[2], Pop(c), r0) /\ UNCHANGED <<readerVars, remaining>>
  <2>1. /\ \A n \in Nodes, r \in Requests : ~(n = c[2] /\ r = r0) => finals'[n][r] = finals[n][r]
        /\ finals[c[2]][r0] = 0 /\ finals'[c[2]][r0] = 1
        /\ \E m \in MsgType :
              /\ m.type = "final" /\ RequestOf(m) = r0 /\ m.from = r0.from /\ m.id = r0.id
              /\ chan'[c] = Tail(chan[c])
              /\ \A d \in Links : d # c /\ d[1] = c[2] => chan'[d] = Append(chan[d], m)
              /\ \A d \in Links : d # c /\ d[1] # c[2] => chan'[d] = chan[d]
    BY <1>1, <1>2, <1>4, UnmatchedFacts, ZenonT(40)
  <2>2. PICK m \in MsgType :
              /\ m.type = "final" /\ RequestOf(m) = r0 /\ m.from = r0.from
              /\ chan'[c] = Tail(chan[c])
              /\ \A d \in Links : d # c /\ d[1] = c[2] => chan'[d] = Append(chan[d], m)
              /\ \A d \in Links : d # c /\ d[1] # c[2] => chan'[d] = chan[d]
    BY <2>1
  <2>3. FinalsStay
    <3> SUFFICES ASSUME NEW n \in Nodes, NEW r \in Requests, finals[n][r] = 1
                 PROVE  finals'[n][r] = 1
      BY DEF FinalsStay
    <3>1. ~(n = c[2] /\ r = r0)
      BY <2>1
    <3> QED BY <3>1, <2>1
  <2>4. ASSUME NEW d \in Links
        PROVE  LinkSame(d) \/ LinkSend(d) \/ (LinkTail(d) /\ chan[d][1].type # "reply")
    <3>1. CASE d = c
      BY <3>1, <1>1, <2>2 DEF LinkTail
    <3>2. CASE d # c /\ d[1] # c[2]
      BY <3>2, <2>2 DEF LinkSame
    <3>3. CASE d # c /\ d[1] = c[2]
      <4>1. PICK n \in Nodes : n = c[2]
        BY <1>0
      <4>2. m.from # n /\ finals'[n][RequestOf(m)] = 1 /\ d[1] = n
        BY <4>1, <3>3, <2>1, <2>2, <1>0, <1>1
      <4>3. MayFollow(d, m)
        BY <4>2, <2>2, FinalMayFollow
      <4> QED BY <4>3, <3>3, <2>2 DEF LinkSend
    <3> QED BY <3>1, <3>2, <3>3
  <2>5. \A q \in Qbls, r \in Requests : HasCopy(q, r)' => r.from # NodeOf[q]
    <3>1. UNCHANGED <<inQ, serving, todo, cur>> /\ qpc' = qpc
      BY <1>2, <1>4 DEF readerVars, qblVars
    <3>2. \A q \in Qbls, r \in Requests : HasCopy(q, r)' <=> HasCopy(q, r)
      BY <3>1, SameCopies
    <3> QED BY <3>2, <1>0
  <2> QED BY <1>3, <2>3, <2>4, <2>5, AnswersKept
<1>5. CASE ~(SendFinal(c[2], Pop(c), r0) /\ UNCHANGED <<readerVars, remaining>>)
  <2>1. matched \subseteq declared /\ \A q \in matched : NodeOf[q] = c[2]
    BY <1>2
  <2>2. \A q \in Qbls, r \in Requests :
            HasCopy(q, r)' <=> HasCopy(q, r) \/ (q \in matched /\ r = r0)
    <3>1. matched \subseteq Qbls
      BY <2>1 DEF QueriesInv, QueriesShape
    <3>2. \A q \in matched : ~HasCopy(q, r0)
      BY <1>1, <2>1, <3>1 DEF Untouched, Copies
    <3>3. inQ' = inQ /\ qpc' = qpc /\ cur' = cur
      BY <1>2 DEF qblVars
    <3>4. Arms(c, r0, matched)
      BY <1>1, <1>2, <1>5, <3>1, <3>2, <3>3 DEF Arms
    <3> QED BY <3>4, RequestedCopies
  <2>3. \A q \in Qbls, r \in Requests : HasCopy(q, r)' => r.from # NodeOf[q]
    BY <2>1, <2>2, <1>0, <1>1
  <2>4. chan' = Pop(c) /\ finals' = finals
    BY <1>2, <1>5
  <2>5. FinalsStay
    BY <2>4 DEF FinalsStay
  <2>6. /\ Pop(c)[c] = Tail(chan[c]) /\ \A d \in Links : d # c => Pop(c)[d] = chan[d]
    BY <1>1, TakeFacts
  <2>7. ASSUME NEW d \in Links
        PROVE  LinkSame(d) \/ (LinkTail(d) /\ chan[d][1].type # "reply")
    BY <2>4, <2>6, <1>1 DEF LinkSame, LinkTail
  <2> QED BY <1>3, <2>3, <2>5, <2>7, AnswersKept
<1> QED BY <1>4, <1>5

\* Get: the new request is open.
LEMMA GetAnswers ==
    ASSUME QueriesInv, AnswerInv, NEW n \in Nodes, Get(n)
    PROVE  AnswerInv'
<1>0. /\ QueriesConstants /\ issued \in [Nodes -> Nat] /\ ended \in SUBSET Requests
      /\ chan \in [Links -> Seq(MsgType)]
  BY DEF QueriesInv, QueriesShape
<1>1. PICK k : k = issued[n] + 1
  OBVIOUS
<1>2. PICK r0 : r0 = [from |-> n, id |-> k]
  OBVIOUS
<1>3. PICK m : m = [type |-> "request", from |-> n, id |-> k]
  OBVIOUS
<1>4. /\ issued[n] < MaxGets[n] /\ issued' = [issued EXCEPT ![n] = k] /\ open' = open \cup {r0}
      /\ chan' = Broadcast(n, chan, m)
      /\ UNCHANGED <<ended, replies, dropped, serving, todo, inQ, qpc, cur, answers, finals>>
  BY <1>1, <1>2, <1>3 DEF Get, readerVars, dropVars, qblVars
<1>5. k \in 1..MaxGets[n] /\ k \in Nat /\ issued[n] \in Nat
  BY <1>0, <1>1, <1>4 DEF QueriesConstants
<1>6. r0 \in Requests
  BY <1>0, <1>2, <1>5, RequestFacts
<1>7. m \in MsgType /\ m.type = "request"
  <2>1. r0.from = n /\ r0.id = k
    BY <1>2
  <2> QED BY <1>0, <1>3, <1>6, <2>1, MessageFacts
<1>8. /\ \A c \in Links : c[1] = n => chan'[c] = Append(chan[c], m)
      /\ \A c \in Links : c[1] # n => chan'[c] = chan[c]
  BY <1>0, <1>4, <1>7, BroadcastFacts
<1>9. FinalsStay
  BY <1>4 DEF FinalsStay
<1>10. ASSUME NEW c \in Links PROVE LinkSame(c) \/ LinkSend(c)
  <2>1. MayFollow(c, m)
    BY <1>7 DEF MayFollow
  <2> QED BY <2>1, <1>7, <1>8 DEF LinkSame, LinkSend
<1>11. \A q \in Qbls, r \in Requests : HasCopy(q, r)' => r.from # NodeOf[q]
  <2>1. UNCHANGED <<inQ, serving, todo, cur>> /\ qpc' = qpc
    BY <1>4
  <2>2. \A q \in Qbls, r \in Requests : HasCopy(q, r)' <=> HasCopy(q, r)
    BY <2>1, SameCopies
  <2> QED BY <2>2 DEF AnswerInv
<1>12. /\ \A r \in Requests : r.id <= issued'[r.from] <=> r \in open' \cup ended'
       /\ open' \cap ended' = {}
  <2>1. ASSUME NEW r \in Requests PROVE r.id <= issued'[r.from] <=> r.id <= issued[r.from] \/ r = r0
    <3>1. r.from \in Nodes /\ r.id \in Nat /\ (r = r0 <=> r.from = n /\ r.id = k)
      BY <1>0, <1>2, <1>6, RequestFacts
    <3>2. CASE r.from # n
      BY <3>1, <3>2, <1>0, <1>4
    <3>3. CASE r.from = n
      <4>1. issued'[n] = k
        BY <1>0, <1>4
      <4>2. r.id <= k <=> r.id <= issued[n] \/ r.id = k
        BY <3>1, <1>1, <1>5
      <4> QED BY <3>1, <3>3, <4>1, <4>2
    <3> QED BY <3>2, <3>3
  <2>2. r0 \notin open \cup ended
    <3>1. r0.from = n /\ r0.id = k /\ ~(k <= issued[n])
      BY <1>1, <1>2, <1>5
    <3> QED BY <3>1, <1>6 DEF AnswerInv
  <2>3. \A r \in Requests : r.id <= issued[r.from] <=> r \in open \cup ended
    BY DEF AnswerInv
  <2>4. open' \cap ended' = {}
    BY <2>2, <1>4 DEF AnswerInv
  <2> QED BY <2>1, <2>3, <2>4, <1>4
<1>13. ASSUME NEW c \in Links PROVE AnswersOn(c)'
  BY <1>9, <1>10, AnswersOnKept DEF AnswerInv
<1>14. ASSUME NEW c \in Links, NEW r \in ended', r.from = c[2] PROVE finals'[c[1]][r] = 1
  BY <1>14, <1>4 DEF AnswerInv
<1>15. ASSUME NEW a \in answers', NEW c \in Links, a.to.from = c[2], a \notin replies'[a.to] \cup dropped'[a.to]
       PROVE  a.to \in open' /\ OnTheWay(c, a)'
  <2>1. a.to \in open /\ OnTheWay(c, a)
    BY <1>4, <1>15 DEF AnswerInv
  <2>2. OnTheWay(c, a)'
    <3>1. CASE c[1] # n
      BY <3>1, <2>1, <1>8 DEF OnTheWay
    <3>2. CASE c[1] = n
      <4>1. chan[c] \in Seq(MsgType) /\ chan'[c] = Append(chan[c], m)
        BY <3>2, <1>0, <1>8
      <4>2. /\ Len(chan[c]) \in Nat /\ Len(chan'[c]) = Len(chan[c]) + 1
            /\ \A i \in 1..Len(chan[c]) : chan'[c][i] = chan[c][i]
        BY <4>1, <1>7, AppendProperties, LenProperties
      <4>3. PICK i \in 1..Len(chan[c]) : chan[c][i].type = "reply" /\ chan[c][i].reply = a
        BY <2>1 DEF OnTheWay
      <4>4. i \in 1..Len(chan'[c])
        BY <4>2
      <4> QED BY <4>2, <4>3, <4>4 DEF OnTheWay
    <3> QED BY <3>1, <3>2
  <2> QED BY <2>1, <2>2, <1>4
<1>16. ASSUME NEW a \in answers', a \notin replies'[a.to] \cup dropped'[a.to] PROVE a.to \in open'
  BY <1>4, <1>16 DEF AnswerInv
<1> QED BY <1>11, <1>12, <1>13, <1>14, <1>15, <1>16 DEF AnswerInv

\* Reply: the Get is open, since its final has not been sent.
LEMMA ReplyAnswers ==
    ASSUME QueriesInv, AnswerInv, TwoSessions, NEW q \in Qbls, Reply(q)
    PROVE  AnswerInv'
<1>0. /\ QueriesConstants /\ chan \in [Links -> Seq(MsgType)]
  BY DEF QueriesInv, QueriesShape
<1>1. PICK r0 \in Requests, a0 \in Answers, m \in MsgType :
          /\ r0 = cur[q] /\ HasCopy(q, r0) /\ a0.to = r0 /\ answers' = answers \cup {a0}
          /\ m.type = "reply" /\ m.reply = a0 /\ RequestOf(m) = r0
          /\ m.from = r0.from /\ m.id = r0.id
          /\ chan' = Broadcast(NodeOf[q], chan, m) /\ NodeOf[q] \in Nodes
  BY ReplyFacts
<1>2. UNCHANGED <<issued, open, ended, replies, dropped, serving, todo, inQ, qpc, cur, finals>>
  BY DEF Reply, getVars, readerVars
<1>3. /\ finals[NodeOf[q]][r0] = 0 /\ r0.id <= issued[r0.from] /\ r0.from # NodeOf[q]
  BY <1>1, Touched DEF AnswerInv
<1>4. PICK n \in Nodes : n = NodeOf[q]
  BY <1>1
<1>5. /\ \A c \in Links : c[1] = n => chan'[c] = Append(chan[c], m)
      /\ \A c \in Links : c[1] # n => chan'[c] = chan[c]
  BY <1>0, <1>1, <1>4, BroadcastFacts
<1>6. ASSUME NEW c \in Links, c[1] = n PROVE MayFollow(c, m) /\ c[2] = r0.from
  <2>1. r0.from \in Nodes /\ r0.from # c[1]
    BY <1>0, <1>3, <1>4, <1>6, RequestFacts
  <2>2. r0.from = c[2]
    BY <2>1, TwoFacts
  <2> QED BY <2>2, <1>1, <1>3, <1>4, <1>6 DEF MayFollow
<1>7. ASSUME NEW c \in Links PROVE LinkSame(c) \/ LinkSend(c)
  BY <1>5, <1>6 DEF LinkSame, LinkSend
<1>8. FinalsStay
  BY <1>2 DEF FinalsStay
<1>9. \A p \in Qbls, r \in Requests : HasCopy(p, r)' => r.from # NodeOf[p]
  <2>1. UNCHANGED <<inQ, serving, todo, cur>> /\ qpc' = qpc
    BY <1>2
  <2>2. \A p \in Qbls, r \in Requests : HasCopy(p, r)' <=> HasCopy(p, r)
    BY <2>1, SameCopies
  <2> QED BY <2>2 DEF AnswerInv
<1>10. /\ \A r \in Requests : r.id <= issued'[r.from] <=> r \in open' \cup ended'
      /\ open' \cap ended' = {}
  BY <1>2 DEF AnswerInv
<1>11. ASSUME NEW c \in Links PROVE AnswersOn(c)'
  BY <1>7, <1>8, AnswersOnKept DEF AnswerInv
<1>12. ASSUME NEW c \in Links, NEW r \in ended', r.from = c[2] PROVE finals'[c[1]][r] = 1
  BY <1>12, <1>2 DEF AnswerInv
<1>13. r0 \in open
  <2>1. r0.from \in Nodes
    BY <1>0, RequestFacts
  <2>2. PICK c \in Links : c[1] = n /\ c[2] = r0.from
    <3>1. <<n, r0.from>> \in Links
      BY <2>1, <1>3, <1>4 DEF Links
    <3> QED BY <3>1
  <2>3. r0 \in ended => finals[c[1]][r0] = 1
    BY <2>2 DEF AnswerInv
  <2>4. r0 \notin ended
    BY <2>2, <2>3, <1>3, <1>4
  <2> QED BY <2>4, <1>3 DEF AnswerInv
<1>14. ASSUME NEW a \in answers', NEW c \in Links, a.to.from = c[2], a \notin replies'[a.to] \cup dropped'[a.to]
       PROVE  a.to \in open' /\ OnTheWay(c, a)'
  <2>0. /\ chan[c] \in Seq(MsgType) /\ Len(chan[c]) \in Nat
        /\ c[1] = n => /\ Len(chan'[c]) = Len(chan[c]) + 1
                       /\ \A i \in 1..Len(chan[c]) : chan'[c][i] = chan[c][i]
                       /\ chan'[c][Len(chan[c]) + 1] = m
    <3>1. chan[c] \in Seq(MsgType)
      BY <1>0
    <3> QED BY <3>1, <1>5, AppendProperties, LenProperties
  <2>1. CASE a \in answers
    <3>1. a.to \in open /\ OnTheWay(c, a)
      BY <2>1, <1>2, <1>14 DEF AnswerInv
    <3>2. PICK i \in 1..Len(chan[c]) : chan[c][i].type = "reply" /\ chan[c][i].reply = a
      BY <3>1 DEF OnTheWay
    <3>3. i \in 1..Len(chan'[c]) /\ chan'[c][i] = chan[c][i]
      <4>1. CASE c[1] = n
        BY <4>1, <2>0
      <4>2. CASE c[1] # n
        BY <4>2, <1>5
      <4> QED BY <4>1, <4>2
    <3> QED BY <3>1, <3>2, <3>3, <1>2 DEF OnTheWay
  <2>2. CASE a = a0
    <3>1. r0.from = c[2] /\ n # c[2]
      BY <2>2, <1>1, <1>3, <1>4, <1>14
    <3>2. c[1] = n
      BY <3>1, TwoFacts
    <3>3. Len(chan[c]) + 1 \in 1..Len(chan'[c]) /\ chan'[c][Len(chan[c]) + 1] = m
      BY <3>2, <2>0
    <3>4. OnTheWay(c, a)'
      BY <3>3, <2>2, <1>1 DEF OnTheWay
    <3> QED BY <3>4, <2>2, <1>1, <1>2, <1>13
  <2> QED BY <2>1, <2>2, <1>1
<1>15. ASSUME NEW a \in answers', a \notin replies'[a.to] \cup dropped'[a.to] PROVE a.to \in open'
  BY <1>1, <1>2, <1>13, <1>15 DEF AnswerInv
<1> QED BY <1>9, <1>10, <1>11, <1>12, <1>14, <1>15 DEF AnswerInv

\* ReceiveReply: the reply on the way is the one collected.
LEMMA ReceiveReplyAnswers ==
    ASSUME QueriesInv, AnswerInv, ChannelInv, TwoSessions, NEW c \in Links, ReceiveReply(c)
    PROVE  AnswerInv'
<1>0. /\ QueriesConstants /\ replies \in [Requests -> SUBSET Answers] /\ open \in SUBSET Requests
      /\ answers \in SUBSET Answers /\ dropped \in [Requests -> SUBSET Answers]
  BY DEF QueriesInv, QueriesShape, ChannelInv
<1>1. /\ chan[c] # <<>> /\ Head(chan[c]).type = "reply" /\ chan' = Pop(c)
      /\ \/ GetOf(c) \notin open /\ UNCHANGED <<replies, dropped>>
         \/ replies' = WithReply(replies, c) /\ UNCHANGED dropped
         \/ dropped' = WithReply(dropped, c) /\ UNCHANGED replies
      /\ UNCHANGED <<issued, open, ended, finals, answers, serving, todo, inQ, qpc, cur>>
  BY DEF ReceiveReply, HeadIs, ReadUnchanged, qblVars, readerVars
<1>2. PICK m : m = chan[c][1]
  OBVIOUS
<1>3. /\ Head(chan[c]) = m /\ m \in MsgType /\ 1 \in 1..Len(chan[c]) /\ m.type = "reply"
      /\ chan'[c] = Tail(chan[c]) /\ \A d \in Links : d # c => chan'[d] = chan[d]
  BY <1>1, <1>2, TakeFacts
<1>4. AnswerOk(c, m)
  BY <1>2, <1>3 DEF AnswerInv, AnswersOn
<1>5. m.from = c[2] /\ m.reply.to = RequestOf(m) /\ GetOf(c) = RequestOf(m)
  BY <1>3, <1>4 DEF AnswerOk, GetOf, RequestOf
<1>6. ASSUME NEW r \in Requests
      PROVE  /\ replies[r] \cup dropped[r] \subseteq replies'[r] \cup dropped'[r]
             /\ r = RequestOf(m) /\ r \in open => m.reply \in replies'[r] \cup dropped'[r]
  BY <1>0, <1>1, <1>3, <1>5 DEF WithReply
<1>7. ASSUME NEW d \in Links PROVE LinkSame(d) \/ LinkTail(d)
  BY <1>1, <1>3 DEF LinkSame, LinkTail
<1>8. FinalsStay
  BY <1>1 DEF FinalsStay
<1>9. \A p \in Qbls, r \in Requests : HasCopy(p, r)' => r.from # NodeOf[p]
  <2>1. UNCHANGED <<inQ, serving, todo, cur>> /\ qpc' = qpc
    BY <1>1
  <2>2. \A p \in Qbls, r \in Requests : HasCopy(p, r)' <=> HasCopy(p, r)
    BY <2>1, SameCopies
  <2> QED BY <2>2 DEF AnswerInv
<1>10. /\ \A r \in Requests : r.id <= issued'[r.from] <=> r \in open' \cup ended'
      /\ open' \cap ended' = {}
  BY <1>1 DEF AnswerInv
<1>11. ASSUME NEW d \in Links PROVE AnswersOn(d)'
  BY <1>7, <1>8, AnswersOnKept DEF AnswerInv
<1>12. ASSUME NEW d \in Links, NEW r \in ended', r.from = d[2] PROVE finals'[d[1]][r] = 1
  BY <1>12, <1>1 DEF AnswerInv
<1>13. ASSUME NEW a \in answers', NEW d \in Links, a.to.from = d[2], a \notin replies'[a.to] \cup dropped'[a.to]
       PROVE  a.to \in open' /\ OnTheWay(d, a)'
  <2>1. a.to \in Requests /\ a \in answers
    BY <1>0, <1>1, <1>13 DEF Answers
  <2>2. a \notin replies[a.to] \cup dropped[a.to]
    BY <2>1, <1>6, <1>13
  <2>3. a.to \in open /\ OnTheWay(d, a)
    BY <2>1, <2>2, <1>13 DEF AnswerInv
  <2>4. CASE OnTheWay(d, a)'
    BY <2>3, <2>4, <1>1
  <2>5. CASE LinkTail(d) /\ chan[d][1].type = "reply" /\ chan[d][1].reply = a
    <3>1. CASE d = c
      <4>1. m.reply = a /\ a.to = RequestOf(m)
        BY <3>1, <2>5, <1>2, <1>5
      <4>2. a \in replies'[a.to] \cup dropped'[a.to]
        BY <4>1, <2>1, <2>3, <1>6
      <4> QED BY <4>2, <1>13
    <3>2. CASE d # c
      <4>1. OnTheWay(d, a)'
        BY <3>2, <2>3, <1>3 DEF OnTheWay
      <4> QED BY <4>1, <2>4
    <3> QED BY <3>1, <3>2
  <2> QED BY <2>3, <2>4, <2>5, <1>7, OnTheWayKept
<1>14. ASSUME NEW a \in answers', a \notin replies'[a.to] \cup dropped'[a.to] PROVE a.to \in open'
  <2>1. a.to \in Requests /\ a \in answers
    BY <1>0, <1>1, <1>14 DEF Answers
  <2>2. a \notin replies[a.to] \cup dropped[a.to]
    BY <2>1, <1>6, <1>14
  <2> QED BY <2>1, <2>2, <1>1 DEF AnswerInv
<1> QED BY <1>9, <1>10, <1>11, <1>12, <1>13, <1>14 DEF AnswerInv

\* ReceiveFinal: no reply to the Get it closes is still on its way.
LEMMA ReceiveFinalAnswers ==
    ASSUME QueriesInv, AnswerInv, TwoSessions, NEW c \in Links, ReceiveFinal(c)
    PROVE  AnswerInv'
<1>0. /\ QueriesConstants /\ open \in SUBSET Requests /\ answers \in SUBSET Answers
      /\ ended \in SUBSET Requests /\ chan \in [Links -> Seq(MsgType)]
  BY DEF QueriesInv, QueriesShape
<1>1. /\ chan[c] # <<>> /\ Head(chan[c]).type = "final" /\ chan' = Pop(c)
      /\ open' = open \ {GetOf(c)}
      /\ ended' = IF GetOf(c) \in open THEN ended \cup {GetOf(c)} ELSE ended
      /\ UNCHANGED <<issued, replies, dropped, finals, answers, serving, todo, inQ, qpc, cur>>
  BY DEF ReceiveFinal, HeadIs, ReadUnchanged, qblVars, readerVars
<1>2. PICK m : m = chan[c][1]
  OBVIOUS
<1>3. /\ Head(chan[c]) = m /\ m \in MsgType /\ 1 \in 1..Len(chan[c]) /\ m.type = "final"
      /\ chan'[c] = Tail(chan[c]) /\ \A d \in Links : d # c => chan'[d] = chan[d]
  BY <1>1, <1>2, TakeFacts
<1>4. AnswerOk(c, m)
  BY <1>2, <1>3 DEF AnswerInv, AnswersOn
<1>5. PICK r0 \in Requests : r0 = RequestOf(m)
  BY <1>0, <1>3, MessageFacts
<1>6. r0.from = c[2] /\ r0.id = m.id /\ GetOf(c) = r0 /\ finals[c[1]][r0] = 1
  BY <1>3, <1>4, <1>5 DEF AnswerOk, GetOf, RequestOf
<1>7. ASSUME NEW d \in Links PROVE LinkSame(d) \/ LinkTail(d)
  BY <1>1, <1>3 DEF LinkSame, LinkTail
<1>8. FinalsStay
  BY <1>1 DEF FinalsStay
<1>9. \A p \in Qbls, r \in Requests : HasCopy(p, r)' => r.from # NodeOf[p]
  <2>1. UNCHANGED <<inQ, serving, todo, cur>> /\ qpc' = qpc
    BY <1>1
  <2>2. \A p \in Qbls, r \in Requests : HasCopy(p, r)' <=> HasCopy(p, r)
    BY <2>1, SameCopies
  <2> QED BY <2>2 DEF AnswerInv
<1>10. /\ \A r \in Requests : r.id <= issued'[r.from] <=> r \in open' \cup ended'
      /\ open' \cap ended' = {}
  <2>1. open' \cup ended' = open \cup ended
    BY <1>1
  <2>2. open' \cap ended' = {}
    BY <1>1 DEF AnswerInv
  <2> QED BY <2>1, <2>2, <1>1 DEF AnswerInv
<1>11. ASSUME NEW d \in Links PROVE AnswersOn(d)'
  BY <1>7, <1>8, AnswersOnKept DEF AnswerInv
<1>12. ASSUME NEW d \in Links, NEW r \in ended', r.from = d[2] PROVE finals'[d[1]][r] = 1
  <2>1. CASE r \in ended
    BY <2>1, <1>12, <1>1 DEF AnswerInv
  <2>2. CASE r = r0
    <3>1. d = c
      BY <2>2, <1>6, <1>12, TwoFacts
    <3> QED BY <3>1, <2>2, <1>6, <1>1
  <2> QED BY <2>1, <2>2, <1>1, <1>6
<1>13. ASSUME NEW a \in answers', a \notin replies'[a.to] \cup dropped'[a.to]
       PROVE  a.to \in open' /\ a.to \in open /\ \A d \in Links : a.to.from = d[2] => OnTheWay(d, a)
  <2>1. a.to \in Requests /\ a \in answers
    BY <1>0, <1>1, <1>13 DEF Answers
  <2>2. a.to \in open /\ \A d \in Links : a.to.from = d[2] => OnTheWay(d, a)
    BY <2>1, <1>1, <1>13 DEF AnswerInv
  <2>3. a.to # r0
    <3> SUFFICES ASSUME a.to = r0 PROVE FALSE
      OBVIOUS
    <3>1. PICK i \in 1..Len(chan[c]) : chan[c][i].type = "reply" /\ chan[c][i].reply = a
      BY <2>2, <1>6 DEF OnTheWay
    <3>2. AnswerOk(c, chan[c][i]) /\ AnswersOn(c)
      BY <3>1 DEF AnswerInv, AnswersOn
    <3>3. RequestOf(chan[c][i]) = r0
      BY <3>1, <3>2 DEF AnswerOk
    <3>4. chan[c][i].id = m.id
      BY <3>3, <1>6 DEF RequestOf
    <3>5. i # 1
      BY <3>1, <1>2, <1>3
    <3>6. 1 < i
      <4>1. chan[c] \in Seq(MsgType)
        BY <1>0
      <4>2. Len(chan[c]) \in Nat
        BY <4>1, LenProperties
      <4> QED BY <3>1, <3>5, <4>2
    <3>7. chan[c][i].id # chan[c][1].id
      BY <3>1, <3>2, <3>6, <1>2, <1>3 DEF AnswersOn
    <3> QED BY <3>4, <3>7, <1>2
  <2> QED BY <2>2, <2>3, <1>1, <1>6
<1>14. ASSUME NEW a \in answers', NEW d \in Links, a.to.from = d[2], a \notin replies'[a.to] \cup dropped'[a.to]
       PROVE  OnTheWay(d, a)'
  <2>1. OnTheWay(d, a)
    BY <1>13, <1>14
  <2>2. CASE LinkTail(d) /\ chan[d][1].type = "reply" /\ chan[d][1].reply = a
    <3>1. d # c
      BY <2>2, <1>2, <1>3
    <3> QED BY <3>1, <2>1, <1>3 DEF OnTheWay
  <2> QED BY <2>1, <2>2, <1>7, OnTheWayKept
<1> QED BY <1>9, <1>10, <1>11, <1>12, <1>13, <1>14 DEF AnswerInv

\* Nothing is asked at the start.
LEMMA AnswersStart ==
    ASSUME QueriesConstants, Init
    PROVE  AnswerInv
<1>1. \A q \in Qbls, r \in Requests : ~HasCopy(q, r)
  BY DEF Init, HasCopy, Runs, InQueue, ToCome
<1>2. \A r \in Requests : ~(r.id <= issued[r.from])
  <2>1. \A r \in Requests : issued[r.from] = 0 /\ r.id \in Nat \ {0}
    BY RequestFacts DEF Init
  <2> QED BY <2>1
<1>3. \A c \in Links : AnswersOn(c)
  <2>1. \A c \in Links : 1..Len(chan[c]) = {}
    BY DEF Init
  <2> QED BY <2>1 DEF AnswersOn
<1>4. open = {} /\ ended = {} /\ answers = {}
  BY DEF Init
<1> QED BY <1>1, <1>2, <1>3, <1>4 DEF AnswerInv

\* Only ReceiveReply and TakeReply touch the channel of a Get.
LEMMA ChannelStep ==
    ASSUME QueriesInv, ChannelInv, [Next]_vars
    PROVE  ChannelInv'
<1>0. QueriesConstants /\ replies \in [Requests -> SUBSET Answers]
  BY DEF QueriesInv, QueriesShape
<1>1. CASE UNCHANGED <<replies, held, dropped>>
  BY <1>1 DEF ChannelInv
<1>2. ASSUME NEW r \in Requests, TakeReply(r) PROVE ChannelInv'
  <2>1. PICK a : held' = [held EXCEPT ![r] = held[r] \ {a}] /\ UNCHANGED <<replies, dropped>>
    BY <1>2 DEF TakeReply
  <2> QED BY <2>1 DEF ChannelInv
<1>3. ASSUME NEW c \in Links, ReceiveReply(c) PROVE ChannelInv'
  <2>1. chan[c] # <<>> /\ Head(chan[c]).type = "reply"
    BY <1>3 DEF ReceiveReply, HeadIs
  <2>2. Head(chan[c]) \in MsgType
    BY <2>1, TakeFacts
  <2>3. PICK a \in Answers : a = Head(chan[c]).reply
    BY <1>0, <2>1, <2>2, MessageFacts
  <2>4. PICK r : r = GetOf(c)
    OBVIOUS
  <2>5. \/ UNCHANGED <<replies, held, dropped>>
        \/ /\ r \in open /\ UNCHANGED dropped
           /\ replies' = [replies EXCEPT ![r] = replies[r] \cup {a}]
           /\ held' = [held EXCEPT ![r] = held[r] \cup {a}]
        \/ /\ r \in open /\ ~(Cardinality(held[r]) < Buffer)
           /\ dropped' = [dropped EXCEPT ![r] = dropped[r] \cup {a}] /\ UNCHANGED <<replies, held>>
    BY <1>3, <2>3, <2>4 DEF ReceiveReply, WithReply
  <2>6. CASE r \in open /\ UNCHANGED dropped
             /\ replies' = [replies EXCEPT ![r] = replies[r] \cup {a}]
             /\ held' = [held EXCEPT ![r] = held[r] \cup {a}]
    <3>1. r \in Requests /\ IsFiniteSet(replies[r])
      BY <2>6 DEF QueriesInv, QueriesShape, ChannelInv
    <3>2. /\ IsFiniteSet(replies[r] \cup {a}) /\ Cardinality(replies[r]) \in Nat
          /\ Cardinality(replies[r] \cup {a}) \in Nat
          /\ Cardinality(replies[r] \cup {a}) >= Cardinality(replies[r])
      <4>1. PICK X : X = replies[r]
        OBVIOUS
      <4>2. IsFiniteSet(X \cup {a})
        BY <3>1, <4>1, FS_AddElement
      <4>3. Cardinality(X) <= Cardinality(X \cup {a})
        BY <4>2, FS_Subset
      <4>4. Cardinality(X) \in Nat /\ Cardinality(X \cup {a}) \in Nat
        BY <3>1, <4>1, <4>2, FS_CardinalityType
      <4> QED BY <4>1, <4>2, <4>3, <4>4
    <3>3. replies'[r] = replies[r] \cup {a} /\ held'[r] = held[r] \cup {a}
      BY <2>6, <3>1, <1>0 DEF ChannelInv
    <3>4. \A p \in Requests : p # r => replies'[p] = replies[p] /\ held'[p] = held[p]
      BY <2>6, <1>0 DEF ChannelInv
    <3>5. held' \in [Requests -> SUBSET Answers] /\ dropped' \in [Requests -> SUBSET Answers]
      BY <2>6 DEF ChannelInv
    <3>6. ASSUME NEW p \in Requests
          PROVE  /\ held'[p] \subseteq replies'[p] /\ IsFiniteSet(replies'[p])
                 /\ dropped'[p] # {} => Cardinality(replies'[p]) >= Buffer
      <4>1. CASE p # r
        BY <4>1, <3>4, <2>6 DEF ChannelInv
      <4>2. CASE p = r
        <5>1. held'[r] \subseteq replies'[r] /\ IsFiniteSet(replies'[r])
          BY <3>1, <3>2, <3>3 DEF ChannelInv
        <5>2. dropped[r] # {} => Cardinality(replies[r]) >= Buffer
          BY <3>1 DEF ChannelInv
        <5>3. dropped'[r] # {} => Cardinality(replies'[r]) >= Buffer
          BY <5>2, <3>2, <3>3, <2>6, <1>0 DEF QueriesConstants
        <5> QED BY <4>2, <5>1, <5>3
      <4> QED BY <4>1, <4>2
    <3> QED BY <3>5, <3>6 DEF ChannelInv
  <2>7. CASE /\ r \in open /\ ~(Cardinality(held[r]) < Buffer)
             /\ dropped' = [dropped EXCEPT ![r] = dropped[r] \cup {a}] /\ UNCHANGED <<replies, held>>
    <3>1. r \in Requests /\ IsFiniteSet(replies[r]) /\ held[r] \subseteq replies[r]
      BY <2>7 DEF QueriesInv, QueriesShape, ChannelInv
    <3>2. /\ Cardinality(held[r]) \in Nat /\ Cardinality(replies[r]) \in Nat
          /\ Cardinality(held[r]) <= Cardinality(replies[r])
      BY <3>1, FS_Subset, FS_CardinalityType
    <3>3. Cardinality(replies[r]) >= Buffer
      BY <2>7, <3>2, <1>0 DEF QueriesConstants
    <3> QED BY <2>7, <3>1, <3>3 DEF ChannelInv
  <2> QED BY <1>1, <2>5, <2>6, <2>7
<1>4. ASSUME NEW n \in Nodes, Get(n) PROVE UNCHANGED <<replies, held, dropped>>
  BY <1>4 DEF Get
<1>5. ASSUME NEW c \in Links, ReceiveRequest(c) \/ (\E q \in Qbls : DeliverQuery(c, q)) \/ ReceiveFinal(c)
      PROVE  UNCHANGED <<replies, held, dropped>>
  BY <1>5 DEF ReceiveRequest, DeliverQuery, ReceiveFinal, getVars
<1>6. ASSUME NEW q \in Qbls,
             DeclareQueryable(q) \/ Dispatcher(q) \/ Reply(q) \/ UnregisterQueryable(q) \/ CloseQueue(q)
      PROVE  UNCHANGED <<replies, held, dropped>>
  BY <1>6 DEF DeclareQueryable, Dispatcher, StartHandler, EndHandler, DispatcherExit, Reply,
              UnregisterQueryable, CloseQueue, getVars
<1>7. CASE UNCHANGED vars
  BY <1>1, <1>7 DEF vars, getVars
<1> QED BY <1>1, <1>2, <1>3, <1>4, <1>5, <1>6, <1>7 DEF Next, Reader

\* Every step of two sessions keeps the answers where they belong.
LEMMA AnswersStep ==
    ASSUME QueriesInv, AnswerInv, ChannelInv, TwoSessions, [Next]_vars
    PROVE  AnswerInv'
<1>1. CASE UNCHANGED vars
  <2>1. UNCHANGED <<issued, open, ended, replies, dropped, answers, chan, finals, inQ, serving, todo, cur>>
        /\ qpc' = qpc
    BY <1>1 DEF vars, getVars, readerVars, qblVars
  <2>2. FinalsStay /\ \A c \in Links : LinkSame(c)
    BY <2>1 DEF FinalsStay, LinkSame
  <2>3. \A p \in Qbls, r \in Requests : HasCopy(p, r)' <=> HasCopy(p, r)
    BY <2>1, SameCopies
  <2>4. \A p \in Qbls, r \in Requests : HasCopy(p, r)' => r.from # NodeOf[p]
    BY <2>3 DEF AnswerInv
  <2> QED BY <2>1, <2>2, <2>4, AnswersKept
<1>2. ASSUME NEW n \in Nodes, Get(n) PROVE AnswerInv'
  BY <1>2, GetAnswers
<1>3. ASSUME NEW c \in Links, Reader(c) PROVE AnswerInv'
  BY <1>3, RequestAnswers, QueryAnswers, ReceiveReplyAnswers, ReceiveFinalAnswers DEF Reader
<1>4. ASSUME NEW q \in Qbls, DeclareQueryable(q) \/ Dispatcher(q) \/ UnregisterQueryable(q) \/ CloseQueue(q)
      PROVE  AnswerInv'
  BY <1>4, QueryAnswers
<1>5. ASSUME NEW q \in Qbls, Reply(q) PROVE AnswerInv'
  BY <1>5, ReplyAnswers
<1>6. ASSUME NEW r \in Requests, TakeReply(r) PROVE AnswerInv'
  <2>1. UNCHANGED <<issued, open, ended, replies, dropped, answers, chan, finals, inQ, serving, todo, cur>>
        /\ qpc' = qpc
    BY <1>6 DEF TakeReply, ReadUnchanged, readerVars, qblVars
  <2>2. FinalsStay /\ \A c \in Links : LinkSame(c)
    BY <2>1 DEF FinalsStay, LinkSame
  <2>3. \A p \in Qbls, r0 \in Requests : HasCopy(p, r0)' <=> HasCopy(p, r0)
    BY <2>1, SameCopies
  <2>4. \A p \in Qbls, r0 \in Requests : HasCopy(p, r0)' => r0.from # NodeOf[p]
    BY <2>3 DEF AnswerInv
  <2> QED BY <2>1, <2>2, <2>4, AnswersKept
<1> QED BY <1>1, <1>2, <1>3, <1>4, <1>5, <1>6 DEF Next

\* Between two sessions, however many queryables and Gets there are, a Get that a
\* RESPONSE_FINAL closed has received every reply sent to it, but for those that
\* its full channel cost it, and then at least as many as the channel holds: no
\* reply follows the final, which shares their lane and is sent after the last of
\* them (sendResponseFinal, finishQuery, deliverReply).
THEOREM ClosedGetsComplete == ASSUME TwoSessions PROVE Spec => []GetComplete
<1>1. Init => QueriesInv /\ AnswerInv /\ ChannelInv
  <2>1. Init => ChannelInv
    BY FS_EmptySet DEF Init, ChannelInv
  <2> QED BY <2>1, QueriesAssumption, QueriesStart, AnswersStart
<1>2. QueriesInv /\ AnswerInv /\ ChannelInv /\ [Next]_vars => (QueriesInv /\ AnswerInv /\ ChannelInv)'
  BY QueriesStep, AnswersStep, ChannelStep
<1>3. QueriesInv /\ AnswerInv /\ ChannelInv => GetComplete
  <2> SUFFICES ASSUME QueriesInv, AnswerInv, ChannelInv, NEW r \in ended
               PROVE  /\ \A a \in answers : a.to = r => a \in replies[r] \cup dropped[r]
                      /\ dropped[r] # {} => Cardinality(replies[r]) >= Buffer
    BY DEF GetComplete
  <2>1. r \notin open /\ r \in Requests
    BY DEF AnswerInv, QueriesInv, QueriesShape
  <2>2. \A a \in answers : a.to = r => a \in replies[r] \cup dropped[r]
    BY <2>1 DEF AnswerInv
  <2> QED BY <2>1, <2>2 DEF ChannelInv
<1> QED BY <1>1, <1>2, <1>3, PTL DEF Spec

=============================================================================

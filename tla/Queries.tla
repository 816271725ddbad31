------------------------------- MODULE Queries -------------------------------
(***************************************************************************)
(* Queries and their answers among fully connected sessions: the REQUEST   *)
(* of a Get, its dispatch to every matching queryable, the dispatcher      *)
(* goroutine of each queryable, the shared completion counter and the one  *)
(* RESPONSE_FINAL it stands for, and Queryable.Drop.                       *)
(*                                                                         *)
(* With two nodes this is a client and the router it talks to (or any pair *)
(* of peers); with more it is peer mode, where a session has one link per  *)
(* peer and enqueueNetwork sends every message on each of them. REQUEST,   *)
(* RESPONSE and RESPONSE_FINAL share one lane, so a link is one queue.     *)
(* Every queryable matches every query.                                    *)
(*                                                                         *)
(* Messages carry the request id alone; the node that asked ("from") is    *)
(* there for the properties and is never read by an action.                *)
(***************************************************************************)
EXTENDS Naturals, Sequences, FiniteSets

CONSTANTS
    Nodes,        \* sessions
    Qbls,         \* queryables
    NodeOf,       \* the session of each queryable
    QCap,         \* capacity of a queryable's inQ
    Buffer,       \* GetOptions.Buffer: capacity of a Get's reply channel
    MaxGets,      \* bound: Gets of each node
    MaxReplies    \* bound: replies of a handler to one query

\* A Get, by the session that asks and the id it allocates.
Requests == UNION {{[from |-> n, id |-> i] : i \in 1 .. MaxGets[n]} : n \in Nodes}
NoRequest == [from |-> "none", id |-> 0]

\* Every queryable is of one session.
QueriesConstants ==
    /\ NodeOf \in [Qbls -> Nodes] /\ MaxGets \in [Nodes -> Nat]
    /\ QCap \in Nat /\ Buffer \in Nat \ {0} /\ MaxReplies \in Nat

ASSUME QueriesAssumption == QueriesConstants

Links == {c \in Nodes \X Nodes : c[1] # c[2]}

VARIABLES
    issued,       \* request ids each session has allocated
    open,         \* Gets with a collector
    ended,        \* Gets that a RESPONSE_FINAL has closed
    replies, held, \* replies each Get has collected; those still in its channel
    dropped,      \* history: those that a full channel has cost it
    chan,         \* messages in flight on each link
    serving,      \* the request each link's reader is dispatching
    todo,         \* queryables it has still to deliver it to
    remaining,    \* QueryReceived.remaining of each request at each node
    declared,     \* queryables in the registry
    inQ,          \* queue of each queryable's dispatcher
    closedQ,      \* queues that are closed
    qpc, cur,     \* the dispatcher, and the request it handles
    told,         \* replies its handler has sent
    answers,      \* history: all replies sent
    finals,       \* history: RESPONSE_FINALs of each node for each request
    sentOnClosed  \* a query was sent on a closed queue

getVars    == <<issued, open, ended, replies, held, dropped>>
readerVars == <<serving, todo>>
qblVars    == <<qpc, cur, told>>
dropVars   == <<declared, closedQ>>
vars == <<getVars, chan, readerVars, remaining, dropVars, inQ, qblVars, answers,
          finals, sentOnClosed>>

Init ==
    /\ issued = [n \in Nodes |-> 0] /\ open = {} /\ ended = {}
    /\ replies = [r \in Requests |-> {}] /\ held = [r \in Requests |-> {}]
    /\ dropped = [r \in Requests |-> {}]
    /\ chan = [c \in Links |-> <<>>]
    /\ serving = [c \in Links |-> NoRequest] /\ todo = [c \in Links |-> {}]
    /\ remaining = [n \in Nodes |-> [r \in Requests |-> 0]]
    /\ declared = {} /\ closedQ = {}
    /\ inQ = [q \in Qbls |-> <<>>]
    /\ qpc = [q \in Qbls |-> "off"] /\ cur = [q \in Qbls |-> NoRequest]
    /\ told = [q \in Qbls |-> 0]
    /\ answers = {} /\ finals = [n \in Nodes |-> [r \in Requests |-> 0]]
    /\ sentOnClosed = FALSE

-----------------------------------------------------------------------------
(* Sending.                                                                *)

\* The links with m appended to every one that leaves n.
Broadcast(n, links, m) ==
    [c \in Links |-> IF c[1] = n THEN Append(links[c], m) ELSE links[c]]

Pop(c) == [chan EXCEPT ![c] = Tail(@)]

\* Mutant of SendFinal: on another priority lane, the final overtakes the replies.
SendFinalExpress(n, links, r) ==
    /\ chan' = [c \in Links |->
                  IF c[1] = n
                  THEN <<[type |-> "final", from |-> r.from, id |-> r.id]>> \o links[c]
                  ELSE links[c]]
    /\ finals' = [finals EXCEPT ![n][r] = @ + 1]

\* sendResponseFinal, on the lane of the replies.
SendFinal(n, links, r) ==
    /\ chan' = Broadcast(n, links, [type |-> "final", from |-> r.from, id |-> r.id])
    /\ finals' = [finals EXCEPT ![n][r] = @ + 1]

\* Mutant of FinishQuery: every share sends the final.
FinishQueryAlways(n, r) ==
    /\ remaining' = [remaining EXCEPT ![n][r] = @ - 1]
    /\ SendFinal(n, chan, r)

\* finishQuery: one share of the request is done, the last one sends the final.
FinishQuery(n, r) ==
    /\ remaining' = [remaining EXCEPT ![n][r] = @ - 1]
    /\ IF remaining[n][r] = 1 THEN SendFinal(n, chan, r)
                              ELSE UNCHANGED <<chan, finals>>

-----------------------------------------------------------------------------
(* Get, and the reader of a link.                                          *)

\* The collector is registered, then the REQUEST goes to every peer.
Get(n) ==
    /\ issued[n] < MaxGets[n]
    /\ issued' = [issued EXCEPT ![n] = @ + 1]
    /\ open' = open \cup {[from |-> n, id |-> issued[n] + 1]}
    /\ chan' = Broadcast(n, chan, [type |-> "request", from |-> n, id |-> issued[n] + 1])
    /\ UNCHANGED <<ended, replies, held, dropped, readerVars, remaining, dropVars, inQ, qblVars,
                   answers, finals, sentOnClosed>>

HeadIs(c, type) ==
    serving[c] = NoRequest /\ chan[c] # <<>> /\ Head(chan[c]).type = type
ReadUnchanged == UNCHANGED <<dropVars, inQ, qblVars, answers, sentOnClosed>>

\* onRequest: with no queryable the reader sends the final itself; otherwise
\* dispatchQuery arms the counter and delivers, holding the read lock.
ReceiveRequest(c) ==
    LET r == [from |-> Head(chan[c]).from, id |-> Head(chan[c]).id]
        matched == {q \in declared : NodeOf[q] = c[2]}
    IN  /\ HeadIs(c, "request")
        /\ IF matched = {}
           THEN /\ SendFinal(c[2], Pop(c), r)
                /\ UNCHANGED <<readerVars, remaining>>
           ELSE /\ serving' = [serving EXCEPT ![c] = r]
                /\ todo' = [todo EXCEPT ![c] = matched]
                /\ remaining' = [remaining EXCEPT ![c[2]][r] = Cardinality(matched)]
                /\ chan' = Pop(c) /\ UNCHANGED finals
        /\ UNCHANGED getVars /\ ReadUnchanged

\* Mutant of Deliver: a full queue drops the query and forgets its share.
DeliverForgets(c, q) ==
    /\ q \in todo[c]
    /\ todo' = [todo EXCEPT ![c] = @ \ {q}]
    /\ serving' = [serving EXCEPT ![c] = IF todo[c] = {q} THEN NoRequest ELSE @]
    /\ sentOnClosed' = (sentOnClosed \/ q \in closedQ)
    /\ inQ' = IF Len(inQ[q]) < QCap THEN [inQ EXCEPT ![q] = Append(@, serving[c])]
                                    ELSE inQ
    /\ UNCHANGED <<remaining, chan, finals, getVars, dropVars, qblVars, answers>>

\* deliverFn of one queryable: queued, or its share is finished at once.
DeliverQuery(c, q) ==
    /\ q \in todo[c]
    /\ todo' = [todo EXCEPT ![c] = @ \ {q}]
    /\ serving' = [serving EXCEPT ![c] = IF todo[c] = {q} THEN NoRequest ELSE @]
    /\ sentOnClosed' = (sentOnClosed \/ q \in closedQ)
    /\ IF Len(inQ[q]) < QCap
       THEN /\ inQ' = [inQ EXCEPT ![q] = Append(@, serving[c])]
            /\ UNCHANGED <<remaining, chan, finals>>
       ELSE FinishQuery(c[2], serving[c]) /\ UNCHANGED inQ
    /\ UNCHANGED <<getVars, dropVars, qblVars, answers>>

\* The Get a message is for, by its id alone.
GetOf(c) == [from |-> c[2], id |-> Head(chan[c]).id]

\* f with the reply at the head of link c added for its Get.
WithReply(f, c) == [f EXCEPT ![GetOf(c)] = @ \cup {Head(chan[c]).reply}]

\* onResponse, deliverReply: the reply goes to the collector of that id, if there
\* is one, and is dropped when its channel is full.
ReceiveReply(c) ==
    /\ HeadIs(c, "reply")
    /\ IF GetOf(c) \notin open THEN UNCHANGED <<replies, held, dropped>>
       ELSE IF Cardinality(held[GetOf(c)]) < Buffer
       THEN replies' = WithReply(replies, c) /\ held' = WithReply(held, c) /\ UNCHANGED dropped
       ELSE dropped' = WithReply(dropped, c) /\ UNCHANGED <<replies, held>>
    /\ chan' = Pop(c)
    /\ UNCHANGED <<issued, open, ended, readerVars, remaining, finals>>
    /\ ReadUnchanged

\* The Get's translator takes a reply out of the channel.
TakeReply(r) ==
    /\ r \in open
    /\ \E a \in held[r] : held' = [held EXCEPT ![r] = @ \ {a}]
    /\ UNCHANGED <<issued, open, ended, replies, dropped, chan, readerVars, remaining, finals>>
    /\ ReadUnchanged

\* RESPONSE_FINAL: finaliseGet of that id.
ReceiveFinal(c) ==
    /\ HeadIs(c, "final")
    /\ open' = open \ {GetOf(c)}
    /\ ended' = IF GetOf(c) \in open THEN ended \cup {GetOf(c)} ELSE ended
    /\ chan' = Pop(c)
    /\ UNCHANGED <<issued, replies, held, dropped, readerVars, remaining, finals>>
    /\ ReadUnchanged

-----------------------------------------------------------------------------
(* A queryable.                                                            *)

\* No reader of the node holds the registry's lock.
RegistryFree(n) == \A c \in Links : c[2] = n => todo[c] = {}

\* DeclareQueryable starts the dispatcher and registers; one that fails to send
\* its declaration goes on with Unregister and CloseQueue, as Drop does.
DeclareQueryable(q) ==
    /\ qpc[q] = "off" /\ RegistryFree(NodeOf[q])
    /\ qpc' = [qpc EXCEPT ![q] = "idle"]
    /\ declared' = declared \cup {q}
    /\ UNCHANGED <<getVars, chan, readerVars, remaining, closedQ, inQ, cur, told,
                   answers, finals, sentOnClosed>>

\* The dispatcher takes the next query and calls the handler.
StartHandler(q) ==
    /\ qpc[q] = "idle" /\ inQ[q] # <<>>
    /\ qpc' = [qpc EXCEPT ![q] = "run"]
    /\ cur' = [cur EXCEPT ![q] = Head(inQ[q])]
    /\ inQ' = [inQ EXCEPT ![q] = Tail(@)]
    /\ told' = [told EXCEPT ![q] = 0]
    /\ UNCHANGED <<getVars, chan, readerVars, remaining, dropVars, answers,
                   finals, sentOnClosed>>

\* Reply, ReplyDel or ReplyErr, also the ReplyErr of a handler that panicked.
Reply(q) ==
    LET a == [qbl |-> q, to |-> cur[q], n |-> told[q] + 1]
    IN  /\ qpc[q] = "run" /\ told[q] < MaxReplies
        /\ told' = [told EXCEPT ![q] = @ + 1]
        /\ answers' = answers \cup {a}
        /\ chan' = Broadcast(NodeOf[q], chan,
                       [type |-> "reply", from |-> cur[q].from, id |-> cur[q].id,
                        reply |-> a])
        /\ UNCHANGED <<getVars, readerVars, remaining, dropVars, inQ, qpc, cur,
                       finals, sentOnClosed>>

\* The handler returned: finishQuery.
EndHandler(q) ==
    /\ qpc[q] = "run" /\ qpc' = [qpc EXCEPT ![q] = "idle"]
    /\ FinishQuery(NodeOf[q], cur[q])
    /\ UNCHANGED <<getVars, readerVars, dropVars, inQ, cur, told, answers, sentOnClosed>>

\* Queryable.Drop: UnregisterQueryable waits for the readers that dispatch.
UnregisterQueryable(q) ==
    /\ q \in declared /\ declared' = declared \ {q}
    /\ RegistryFree(NodeOf[q])
    /\ UNCHANGED <<getVars, chan, readerVars, remaining, closedQ, inQ, qblVars,
                   answers, finals, sentOnClosed>>

\* close(inQ); the dispatcher handles what is queued and leaves.
CloseQueue(q) ==
    /\ qpc[q] # "off" /\ q \notin declared \cup closedQ
    /\ closedQ' = closedQ \cup {q}
    /\ UNCHANGED <<getVars, chan, readerVars, remaining, declared, inQ, qblVars,
                   answers, finals, sentOnClosed>>

DispatcherExit(q) ==
    /\ qpc[q] = "idle" /\ inQ[q] = <<>> /\ q \in closedQ
    /\ qpc' = [qpc EXCEPT ![q] = "exited"]
    /\ UNCHANGED <<getVars, chan, readerVars, remaining, dropVars, inQ, cur, told,
                   answers, finals, sentOnClosed>>

-----------------------------------------------------------------------------
Reader(c) == ReceiveRequest(c) \/ (\E q \in Qbls : DeliverQuery(c, q))
             \/ ReceiveReply(c) \/ ReceiveFinal(c)
Dispatcher(q) == StartHandler(q) \/ EndHandler(q) \/ DispatcherExit(q)

Next ==
    \/ \E n \in Nodes : Get(n)
    \/ \E r \in Requests : TakeReply(r)
    \/ \E c \in Links : Reader(c)
    \/ \E q \in Qbls : \/ DeclareQueryable(q) \/ Dispatcher(q) \/ Reply(q)
                      \/ UnregisterQueryable(q) \/ CloseQueue(q)

Spec == Init /\ [][Next]_vars

\* Readers and dispatchers run when they can and handlers return; nobody has to
\* ask, to reply or to drop a queryable.
Fairness == /\ \A c \in Links : WF_vars(Reader(c))
            /\ \A q \in Qbls : WF_vars(Dispatcher(q))

FairSpec == Spec /\ Fairness

-----------------------------------------------------------------------------
(* Properties.                                                             *)

\* The copies of r that node n still has to handle.
Outstanding(n, r) ==
    \/ \E c \in Links : c[2] = n /\ serving[c] = r /\ todo[c] # {}
    \/ \E q \in Qbls : /\ NodeOf[q] = n
                       /\ \/ qpc[q] = "run" /\ cur[q] = r
                          \/ \E i \in 1 .. Len(inQ[q]) : inQ[q][i] = r

\* "RESPONSE_FINAL must be sent exactly once per request - after the last
\* matching queryable finishes": at each node, whoever finishes last (a handler
\* or the reader that found a queue full), and never while a copy is left.
OneFinalPerNode ==
    \A n \in Nodes, r \in Requests :
        /\ finals[n][r] <= 1
        /\ finals[n][r] = 1 => ~Outstanding(n, r)

\* No query is put on the queue of a dropped queryable: close(inQ) follows
\* UnregisterQueryable, which excludes a dispatch under way.
NoSendOnClosedQueue == ~sentOnClosed

\* The two, at every queryable and every node.
QueriesSound == OneFinalPerNode /\ NoSendOnClosedQueue

\* A Get that a RESPONSE_FINAL closed has received every reply to it, but for those
\* that deliverReply dropped because the Get's channel was full ("Overflow drops
\* replies silently"), which costs nothing to a Get with fewer replies than its
\* Buffer: the final overtakes none of them.
GetComplete ==
    \A r \in ended :
        /\ {a \in answers : a.to = r} \subseteq replies[r] \cup dropped[r]
        /\ dropped[r] # {} => Cardinality(replies[r]) >= Buffer

\* Every Get is closed in the end: no share of a query is forgotten, whatever
\* queue is full and whatever queryable is dropped meanwhile.
GetEnds == \A r \in Requests : r \in open ~> r \notin open
=============================================================================

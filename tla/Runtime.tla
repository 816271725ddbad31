------------------------------ MODULE Runtime ------------------------------
(***************************************************************************)
(* One Runtime: an established link with its reader, writer, keepalive and *)
(* watchdog goroutines, the orchestrator that joins them, the bounded      *)
(* outbound queue OutQ, the goroutines that Put into it, and Session.Close *)
(* (farewell CLOSE, then GracefulShutdown).                                *)
(*                                                                         *)
(* Data: the n-th item OutQ accepts is [n |-> n, lane |-> ...]. Lanes are   *)
(* numbered in the order FlushAll walks them: by priority, then            *)
(* reliability. Raw items (KEEPALIVE, CLOSE) bypass the batcher. The       *)
(* Runtime is already registered, as it is from installRuntime until after *)
(* Done().                                                                 *)
(***************************************************************************)
EXTENDS Naturals, Sequences

CONSTANTS
    Senders,        \* goroutines calling Put
    QCap,           \* capacity of OutQ
    NLanes,         \* lanes of the Batcher, one for each QoS of Put
    ReplyLane,      \* the lane of RESPONSE_FINAL (Data, reliable)
    MaxPuts,        \* bound: Puts per sender
    MaxKeepalives,  \* bound: keepalive ticks
    MaxQueries      \* bound: inbound REQUESTs that match no queryable

ASSUME RuntimeAssumption ==
    /\ QCap \in Nat \ {0} /\ NLanes \in Nat \ {0} /\ ReplyLane \in 1 .. NLanes
    /\ MaxPuts \in Nat /\ MaxKeepalives \in Nat /\ MaxQueries \in Nat

VARIABLES
    outQ,           \* the channel OutQ
    accepted,       \* history: the lanes of the items OutQ has accepted
    batch,          \* each lane's FRAME under construction
    wire,           \* history: numbers of the items written to the link
    linkOpen,       \* the link is not closed on our side
    peer,           \* "ok", "stalled" (does not read) or "gone" (reset)
    once,           \* stopOnce: "free", "running" or "done"
    stop, drain, writerDone, linkClosed, done,   \* the channels, once closed
    rpc, queries,   \* reader, and inbound queries so far
    wpc, hand, writeDead,     \* writer, the item it handles, its latch
    kpc, ticks,     \* keepalive, and ticks so far
    dpc,            \* watchdog
    opc,            \* orchestrator
    spc, puts,      \* senders, and Puts so far
    cpc, mark       \* Session.Close, and accepted when it closed drain

queueVars  == <<outQ, accepted>>
linkVars   == <<batch, wire>>
stopVars   == <<linkOpen, once, stop>>
readerVars == <<rpc, queries, linkClosed>>
writerVars == <<wpc, hand, writeDead, writerDone>>
aliveVars  == <<kpc, ticks>>
orchVars   == <<opc, done>>
senderVars == <<spc, puts>>
closeVars  == <<cpc, mark, drain>>
vars == <<queueVars, linkVars, peer, stopVars, readerVars, writerVars,
          aliveVars, dpc, orchVars, senderVars, closeVars>>

Lanes   == 1 .. NLanes
Raw     == 0            \* OutboundItem.RawBatch
Refused == NLanes + 1   \* a priority that Enqueue refuses: Put does not check it
NoItem  == [n |-> 0, lane |-> Raw]

Init ==
    /\ outQ = <<>> /\ accepted = <<>> /\ wire = <<>>
    /\ batch = [l \in Lanes |-> <<>>]
    /\ linkOpen = TRUE /\ peer = "ok" /\ once = "free"
    /\ stop = FALSE /\ drain = FALSE /\ writerDone = FALSE
    /\ linkClosed = FALSE /\ done = FALSE
    /\ rpc = "poll" /\ queries = 0
    /\ wpc = "select" /\ hand = NoItem /\ writeDead = FALSE
    /\ kpc = "tick" /\ ticks = 0
    /\ dpc = "watch" /\ opc = "wait"
    /\ spc = [s \in Senders |-> "idle"] /\ puts = [s \in Senders |-> 0]
    /\ cpc = "idle" /\ mark = 0

-----------------------------------------------------------------------------
(* OutQ and stopOnce, as every goroutine uses them.                        *)

Full == Len(outQ) >= QCap

\* OutQ <- item: blocks while the queue is full.
Send(l) ==
    /\ ~Full
    /\ accepted' = Append(accepted, l)
    /\ outQ' = Append(outQ, [n |-> Len(accepted) + 1, lane |-> l])

\* Shutdown: the winner of stopOnce closes the link and then stop; a caller
\* that finds it running waits, a later one finds it done.
OnceBegin ==
    /\ once = "free"
    /\ once' = "running" /\ linkOpen' = FALSE
    /\ UNCHANGED stop

OnceEnd ==
    /\ stop' = TRUE /\ once' = "done"
    /\ UNCHANGED linkOpen

OncePassed == once = "done" /\ UNCHANGED stopVars

-----------------------------------------------------------------------------
(* readerLoop.                                                             *)

ReaderUnchanged == UNCHANGED <<linkVars, peer, writerVars, aliveVars, dpc,
                               orchVars, senderVars, closeVars>>

ReaderExit == rpc' = "exited" /\ linkClosed' = TRUE /\ UNCHANGED queries

\* The poll of closing at the top of the loop.
ReaderPoll ==
    /\ rpc = "poll"
    /\ \/ stop /\ ReaderExit
       \/ ~stop /\ rpc' = "read" /\ UNCHANGED <<queries, linkClosed>>
    /\ UNCHANGED <<queueVars, stopVars>> /\ ReaderUnchanged

\* ReadBatch fails (link closed, or reset by the peer), or the batch does not
\* decode: the reader ends.
ReadFails ==
    /\ rpc = "read"
    /\ ~linkOpen \/ peer = "gone"
    /\ ReaderExit
    /\ UNCHANGED <<queueVars, stopVars>> /\ ReaderUnchanged

ReadMalformed ==
    /\ rpc = "read"
    /\ linkOpen /\ peer # "gone"
    /\ ReaderExit
    /\ UNCHANGED <<queueVars, stopVars>> /\ ReaderUnchanged

\* A REQUEST that no queryable matches: its RESPONSE_FINAL is sent from the
\* reader goroutine.
ReadQuery ==
    /\ rpc = "read"
    /\ linkOpen /\ peer # "gone" /\ queries < MaxQueries
    /\ rpc' = "reply" /\ queries' = queries + 1
    /\ UNCHANGED <<linkClosed, queueVars, stopVars>> /\ ReaderUnchanged

\* sendResponseFinal -> deliverEncoded with a background context. The other
\* branch of that select waits for LinkClosed, which only this goroutine closes.
ReaderReply ==
    /\ rpc = "reply"
    /\ Send(ReplyLane)
    /\ rpc' = "poll"
    /\ UNCHANGED <<queries, linkClosed, stopVars>> /\ ReaderUnchanged

\* CLOSE from the peer: OnClose calls Shutdown.
ReadClose ==
    /\ rpc = "read"
    /\ linkOpen /\ peer # "gone"
    /\ rpc' = "shut"
    /\ UNCHANGED <<queries, linkClosed, queueVars, stopVars>> /\ ReaderUnchanged

ReaderShutdown ==
    /\ \/ rpc = "shut" /\ OnceBegin /\ rpc' = "shut2"
       \/ rpc = "shut" /\ OncePassed /\ rpc' = "poll"
       \/ rpc = "shut2" /\ OnceEnd /\ rpc' = "poll"
    /\ UNCHANGED <<queries, linkClosed, queueVars>> /\ ReaderUnchanged

-----------------------------------------------------------------------------
(* writerLoop, drainAvailable, drainOnExit, handleItem and the Batcher they *)
(* use. wpc names the loop the writer is in, or the FlushAll at its end; an *)
(* item being handled is in hand.                                          *)

WriterUnchanged == UNCHANGED <<peer, stopVars, readerVars, aliveVars, dpc,
                               orchVars, senderVars, closeVars>>

\* link.WriteBatch: blocks while the peer does not read, fails when the link
\* is closed or reset.
CanWrite == linkOpen /\ peer = "ok"
WriteFails == ~linkOpen \/ peer = "gone"

Numbers(items) == [i \in 1 .. Len(items) |-> items[i].n]

\* flushLocked of lane l, written or, on an error, emptied all the same.
Flush(l) == /\ wire' = wire \o Numbers(batch[l])
            /\ batch' = [batch EXCEPT ![l] = <<>>]
LoseLane(l) == batch' = [batch EXCEPT ![l] = <<>>] /\ UNCHANGED wire

\* The lane that FlushAll comes to next: lanes without a FRAME are passed over.
Pending == {l \in Lanes : batch[l] # <<>>}
FirstPending(l) == l \in Pending /\ \A k \in Pending : l <= k

\* Any of the three loops receives an item; it is dropped once writeDead.
WriterTake ==
    /\ wpc \in {"select", "available", "exit"} /\ hand = NoItem
    /\ outQ # <<>>
    /\ outQ' = Tail(outQ)
    /\ hand' = IF writeDead THEN NoItem ELSE Head(outQ)
    /\ UNCHANGED <<accepted, wpc, writeDead, writerDone, linkVars>>
    /\ WriterUnchanged

\* After an item: the main loop goes on to drainAvailable, the others loop.
AfterItem == IF wpc = "select" THEN "available" ELSE wpc

\* Enqueue of a message that fits its lane's batch.
HandleAppend ==
    /\ hand # NoItem /\ hand.lane \in Lanes
    /\ batch' = [batch EXCEPT ![hand.lane] = Append(@, hand)]
    /\ hand' = NoItem /\ wpc' = AfterItem
    /\ UNCHANGED <<queueVars, wire, writeDead, writerDone>> /\ WriterUnchanged

\* Mutant of FlushedFirst: a raw batch does not wait for the pending FRAMEs.
FlushedFirstOwnLane(l) == l = hand.lane /\ l \in Pending

\* What has to be flushed before the item in hand can be written: every lane
\* for a raw batch, its own lane for an express or oversized message or one
\* that does not fit.
FlushedFirst(l) == IF hand.lane = Raw THEN FirstPending(l) ELSE l = hand.lane /\ l \in Pending

HandleFlush ==
    /\ hand # NoItem /\ CanWrite
    /\ \E l \in Lanes : FlushedFirst(l) /\ Flush(l)
    /\ UNCHANGED <<queueVars, wpc, hand, writeDead, writerDone>>
    /\ WriterUnchanged

\* A raw batch, an express message or a message cut into FRAGMENTs is written
\* at once.
HandleWrite ==
    /\ hand # NoItem /\ hand.lane # Refused /\ CanWrite
    /\ \A l \in Lanes : ~FlushedFirst(l)
    /\ wire' = Append(wire, hand.n)
    /\ hand' = NoItem /\ wpc' = AfterItem
    /\ UNCHANGED <<queueVars, batch, writeDead, writerDone>> /\ WriterUnchanged

\* Mutant of HandleFails: a write is given up when the peer stalls, and that is
\* not latched.
HandleFailsUnlatched ==
    /\ hand # NoItem /\ hand.lane # Refused /\ ~CanWrite
    /\ \/ \E l \in Lanes : FlushedFirst(l) /\ LoseLane(l)
       \/ (\A l \in Lanes : ~FlushedFirst(l)) /\ UNCHANGED linkVars
    /\ hand' = NoItem
    /\ UNCHANGED <<queueVars, wpc, writeDead, writerDone>> /\ WriterUnchanged

\* A write of handleItem fails: the item and the FRAME being written are lost,
\* writeDead is latched and the loop goes on. The other lanes stay as they are.
HandleFails ==
    /\ hand # NoItem /\ hand.lane # Refused /\ WriteFails
    /\ \/ \E l \in Lanes : FlushedFirst(l) /\ LoseLane(l)
       \/ (\A l \in Lanes : ~FlushedFirst(l)) /\ UNCHANGED linkVars
    /\ hand' = NoItem /\ writeDead' = TRUE
    /\ UNCHANGED <<queueVars, wpc, writerDone>> /\ WriterUnchanged

\* Enqueue refuses the priority. handleItem's error is taken for a failed write.
HandleRefused ==
    /\ hand # NoItem /\ hand.lane = Refused
    /\ hand' = NoItem /\ writeDead' = TRUE
    /\ UNCHANGED <<queueVars, linkVars, wpc, writerDone>> /\ WriterUnchanged

\* drainAvailable and drainOnExit find OutQ empty.
Drained ==
    /\ wpc \in {"available", "exit"} /\ hand = NoItem /\ outQ = <<>>
    /\ wpc' = CASE wpc = "available" -> IF writeDead THEN "select" ELSE "flush"
                [] wpc = "exit"      -> IF writeDead THEN "final" ELSE "exitFlush"
    /\ UNCHANGED <<queueVars, linkVars, hand, writeDead, writerDone>>
    /\ WriterUnchanged

\* Mutant of SelectDrain: graceful stop leaves like the fast one.
SelectDrainNoFlush ==
    /\ wpc = "select" /\ hand = NoItem /\ drain
    /\ wpc' = "final"
    /\ UNCHANGED <<queueVars, linkVars, hand, writeDead, writerDone>>
    /\ WriterUnchanged

\* The main select sees drain: drainOnExit.
SelectDrain ==
    /\ wpc = "select" /\ hand = NoItem /\ drain
    /\ wpc' = "exit"
    /\ UNCHANGED <<queueVars, linkVars, hand, writeDead, writerDone>>
    /\ WriterUnchanged

\* Mutant of SelectClosing: only a graceful stop ends the writer.
SelectClosingDrainOnly ==
    /\ wpc = "select" /\ hand = NoItem /\ stop /\ drain
    /\ wpc' = "final"
    /\ UNCHANGED <<queueVars, linkVars, hand, writeDead, writerDone>>
    /\ WriterUnchanged

\* The main select sees closing.
SelectClosing ==
    /\ wpc = "select" /\ hand = NoItem /\ stop
    /\ wpc' = "final"
    /\ UNCHANGED <<queueVars, linkVars, hand, writeDead, writerDone>>
    /\ WriterUnchanged

\* FlushAll, one lane after the other: at the end of drainAvailable, of
\* drainOnExit, and deferred by writerLoop, where it also comes after a failed
\* write. An error ends it with the lanes that follow as they are.
Flushing == wpc \in {"flush", "exitFlush", "final"}
AfterFlush == CASE wpc = "flush" -> "select" [] wpc = "exitFlush" -> "final"
                [] wpc = "final" -> "exited"

FlushLane ==
    /\ Flushing /\ CanWrite
    /\ \E l \in Lanes : FirstPending(l) /\ Flush(l)
    /\ UNCHANGED <<queueVars, wpc, hand, writeDead, writerDone>> /\ WriterUnchanged

FlushFails ==
    /\ Flushing /\ WriteFails
    /\ \E l \in Lanes : FirstPending(l) /\ LoseLane(l)
    /\ writeDead' = TRUE /\ wpc' = AfterFlush
    /\ writerDone' = (wpc = "final")
    /\ UNCHANGED <<queueVars, hand>> /\ WriterUnchanged

\* Every lane is flushed; after the deferred one close(writerDone).
FlushEnds ==
    /\ Flushing /\ Pending = {}
    /\ wpc' = AfterFlush /\ writerDone' = (wpc = "final")
    /\ UNCHANGED <<queueVars, linkVars, hand, writeDead>> /\ WriterUnchanged

-----------------------------------------------------------------------------
(* keepaliveLoop and leaseWatchdog.                                        *)

KeepaliveTick ==
    /\ kpc = "tick" /\ ticks < MaxKeepalives
    /\ kpc' = "send" /\ ticks' = ticks + 1
    /\ UNCHANGED <<queueVars, linkVars, peer, stopVars, readerVars, writerVars,
                   dpc, orchVars, senderVars, closeVars>>

KeepaliveSend ==
    /\ kpc = "send"
    /\ Send(Raw)
    /\ kpc' = "tick"
    /\ UNCHANGED <<ticks, linkVars, peer, stopVars, readerVars, writerVars,
                   dpc, orchVars, senderVars, closeVars>>

KeepaliveStop ==
    /\ kpc \in {"tick", "send"} /\ stop
    /\ kpc' = "exited"
    /\ UNCHANGED <<ticks, queueVars, linkVars, peer, stopVars, readerVars,
                   writerVars, dpc, orchVars, senderVars, closeVars>>

WatchdogUnchanged ==
    UNCHANGED <<queueVars, linkVars, peer, readerVars, writerVars, aliveVars,
                orchVars, senderVars, closeVars>>

\* No inbound batch for longer than the peer's lease: a matter of timing, so
\* it may happen at any check.
WatchdogExpires ==
    /\ dpc = "watch" /\ dpc' = "shut"
    /\ UNCHANGED stopVars /\ WatchdogUnchanged

WatchdogStop ==
    /\ dpc = "watch" /\ stop
    /\ dpc' = "exited"
    /\ UNCHANGED stopVars /\ WatchdogUnchanged

WatchdogShutdown ==
    /\ \/ dpc = "shut" /\ OnceBegin /\ dpc' = "shut2"
       \/ dpc = "shut" /\ OncePassed /\ dpc' = "exited"
       \/ dpc = "shut2" /\ OnceEnd /\ dpc' = "exited"
    /\ WatchdogUnchanged

-----------------------------------------------------------------------------
(* The orchestrator goroutine of Run.                                      *)

OrchUnchanged ==
    UNCHANGED <<queueVars, linkVars, peer, readerVars, writerVars, aliveVars,
                dpc, senderVars, closeVars>>

OrchWait ==
    /\ opc = "wait" /\ linkClosed
    /\ opc' = "shut"
    /\ UNCHANGED <<done, stopVars>> /\ OrchUnchanged

OrchShutdown ==
    /\ \/ opc = "shut" /\ OnceBegin /\ opc' = "shut2"
       \/ opc = "shut" /\ OncePassed /\ opc' = "join"
       \/ opc = "shut2" /\ OnceEnd /\ opc' = "join"
    /\ UNCHANGED done /\ OrchUnchanged

\* wg.Wait, the cancellation of in-flight Gets and close(rt.done).
OrchJoin ==
    /\ opc = "join"
    /\ rpc = "exited" /\ wpc = "exited" /\ kpc = "exited" /\ dpc = "exited"
    /\ opc' = "done" /\ done' = TRUE
    /\ UNCHANGED stopVars /\ OrchUnchanged

-----------------------------------------------------------------------------
(* Put: deliverEncoded on this Runtime, with any priority and reliability. *)

SenderUnchanged ==
    UNCHANGED <<linkVars, peer, stopVars, readerVars, writerVars, aliveVars,
                dpc, orchVars, closeVars>>

Put(s) ==
    /\ spc[s] = "idle" /\ puts[s] < MaxPuts
    /\ spc' = [spc EXCEPT ![s] = "sending"]
    /\ puts' = [puts EXCEPT ![s] = @ + 1]
    /\ UNCHANGED queueVars /\ SenderUnchanged

\* The select: accepted, or ErrConnectionLost once LinkClosed.
PutAccepted(s) ==
    /\ spc[s] = "sending"
    /\ \E l \in Lanes \cup {Refused} : Send(l)
    /\ spc' = [spc EXCEPT ![s] = "idle"]
    /\ UNCHANGED puts /\ SenderUnchanged

\* Mutant of PutConnectionLost: LinkClosed is polled and OutQ then waited for.
PutConnectionLostPolled(s) ==
    /\ spc[s] = "sending" /\ linkClosed /\ ~Full
    /\ spc' = [spc EXCEPT ![s] = "idle"]
    /\ UNCHANGED <<puts, queueVars>> /\ SenderUnchanged

PutConnectionLost(s) ==
    /\ spc[s] = "sending" /\ linkClosed
    /\ spc' = [spc EXCEPT ![s] = "idle"]
    /\ UNCHANGED <<puts, queueVars>> /\ SenderUnchanged

-----------------------------------------------------------------------------
(* Session.Close on this Runtime: farewellTo, then GracefulShutdown.       *)

CloseUnchanged ==
    UNCHANGED <<linkVars, peer, readerVars, writerVars, aliveVars, dpc,
                orchVars, senderVars>>

\* Best effort: the CLOSE is queued, or dropped when OutQ is full or the link
\* is down.
Farewell ==
    /\ cpc = "idle" /\ cpc' = "graceful"
    /\ \/ Send(Raw)
       \/ (Full \/ linkClosed) /\ UNCHANGED queueVars
    /\ UNCHANGED <<mark, drain, stopVars>> /\ CloseUnchanged

\* GracefulShutdown enters stopOnce and closes drain, or finds it done.
GracefulBegin ==
    /\ cpc = "graceful"
    /\ \/ /\ once = "free"
          /\ once' = "running" /\ drain' = TRUE /\ mark' = Len(accepted)
          /\ cpc' = "draining"
          /\ UNCHANGED <<linkOpen, stop>>
       \/ /\ OncePassed
          /\ cpc' = "returned"
          /\ UNCHANGED <<mark, drain>>
    /\ UNCHANGED queueVars /\ CloseUnchanged

\* select on writerDone and the drain timer, then link.Close().
DrainFinished ==
    /\ cpc = "draining" /\ writerDone
    /\ cpc' = "flushed" /\ linkOpen' = FALSE
    /\ UNCHANGED <<mark, drain, once, stop, queueVars>> /\ CloseUnchanged

DrainTimeout ==
    /\ cpc = "draining"
    /\ cpc' = "timedOut" /\ linkOpen' = FALSE
    /\ UNCHANGED <<mark, drain, once, stop, queueVars>> /\ CloseUnchanged

GracefulEnd ==
    /\ cpc \in {"flushed", "timedOut"}
    /\ cpc' = "returned" /\ OnceEnd
    /\ UNCHANGED <<mark, drain, queueVars>> /\ CloseUnchanged

-----------------------------------------------------------------------------
(* The remote end.                                                         *)

PeerUnchanged ==
    UNCHANGED <<queueVars, linkVars, stopVars, readerVars, writerVars,
                aliveVars, dpc, orchVars, senderVars, closeVars>>

PeerStalls  == peer = "ok" /\ peer' = "stalled" /\ PeerUnchanged
PeerResumes == peer = "stalled" /\ peer' = "ok" /\ PeerUnchanged
PeerGone    == peer # "gone" /\ peer' = "gone" /\ PeerUnchanged

-----------------------------------------------------------------------------
Reader == ReaderPoll \/ ReadFails \/ ReadMalformed \/ ReadQuery \/ ReaderReply
          \/ ReadClose \/ ReaderShutdown
Writer == WriterTake \/ HandleAppend \/ HandleFlush \/ HandleWrite \/ HandleFails
          \/ HandleRefused \/ Drained \/ SelectDrain \/ SelectClosing
          \/ FlushLane \/ FlushFails \/ FlushEnds
Keepalive == KeepaliveTick \/ KeepaliveSend \/ KeepaliveStop
Watchdog == WatchdogExpires \/ WatchdogStop \/ WatchdogShutdown
Orchestrator == OrchWait \/ OrchShutdown \/ OrchJoin
Sender(s) == Put(s) \/ PutAccepted(s) \/ PutConnectionLost(s)
Close == Farewell \/ GracefulBegin \/ DrainFinished \/ DrainTimeout \/ GracefulEnd

Next ==
    \/ Reader \/ Writer \/ Keepalive \/ Watchdog \/ Orchestrator
    \/ \E s \in Senders : Sender(s)
    \/ Close
    \/ PeerStalls \/ PeerResumes \/ PeerGone

Spec == Init /\ [][Next]_vars

\* Every goroutine runs when it can. What the peer sends, the lease timer and
\* a call of Put or Close are not assumed to happen.
Fairness ==
    /\ WF_vars(ReaderPoll \/ ReadFails \/ ReaderReply \/ ReaderShutdown)
    /\ WF_vars(Writer)
    /\ WF_vars(KeepaliveSend \/ KeepaliveStop)
    /\ WF_vars(WatchdogStop \/ WatchdogShutdown)
    /\ WF_vars(Orchestrator)
    /\ \A s \in Senders : WF_vars(PutAccepted(s) \/ PutConnectionLost(s))
    /\ WF_vars(Close /\ cpc # "idle")

FairSpec == Spec /\ Fairness

-----------------------------------------------------------------------------
(* Properties.                                                             *)

AnyLane == Lanes \cup {Raw, Refused}
Items == [n : Nat, lane : AnyLane]

\* Every variable keeps its type, and OutQ its capacity.
TypeOK ==
    /\ outQ \in Seq(Items) /\ Len(outQ) <= QCap /\ accepted \in Seq(AnyLane)
    /\ batch \in [Lanes -> Seq(Items)] /\ wire \in Seq(Nat)
    /\ linkOpen \in BOOLEAN /\ peer \in {"ok", "stalled", "gone"}
    /\ once \in {"free", "running", "done"}
    /\ stop \in BOOLEAN /\ drain \in BOOLEAN /\ writerDone \in BOOLEAN
    /\ linkClosed \in BOOLEAN /\ done \in BOOLEAN
    /\ rpc \in {"poll", "read", "reply", "shut", "shut2", "exited"}
    /\ queries \in 0 .. MaxQueries
    /\ wpc \in {"select", "available", "flush", "exit", "exitFlush", "final", "exited"}
    /\ hand \in Items /\ writeDead \in BOOLEAN
    /\ kpc \in {"tick", "send", "exited"} /\ ticks \in 0 .. MaxKeepalives
    /\ dpc \in {"watch", "shut", "shut2", "exited"}
    /\ opc \in {"wait", "shut", "shut2", "join", "done"}
    /\ spc \in [Senders -> {"idle", "sending"}]
    /\ puts \in [Senders -> 0 .. MaxPuts]
    /\ cpc \in {"idle", "graceful", "draining", "flushed", "timedOut", "returned"}
    /\ mark \in Nat

\* Item m has to be on the wire before item n: they share a lane, or one of
\* them is a raw batch.
Precedes(m, n) == m < n /\ (accepted[m] = accepted[n] \/ accepted[m] = Raw \/ accepted[n] = Raw)

\* On each lane the wire carries the messages in the order OutQ accepted them,
\* none twice and none missing in between, although every lane has its own FRAME
\* under construction and a failed write loses one of them; and a KEEPALIVE or
\* CLOSE, which bypasses the batcher, is neither overtaken nor overtakes ("Writing
\* a RawBatch first flushes any pending FRAME batches to preserve ordering",
\* writer.go:30-31).
WireInOrder ==
    /\ \A i \in 1 .. Len(wire) : wire[i] \in 1 .. Len(accepted)
    /\ \A i, j \in 1 .. Len(wire) : wire[i] = wire[j] => i = j
    /\ \A i \in 1 .. Len(wire) : \A m \in 1 .. Len(accepted) :
          Precedes(m, wire[i]) => \E j \in 1 .. (i-1) : wire[j] = m

\* "a fire-and-forget Put / Delete immediately followed by Close still reaches
\* the peer": when the drain ended before its timer and no write failed, every
\* item accepted before GracefulShutdown is on the wire.
DrainFlushes ==
    cpc = "flushed" /\ ~writeDead =>
        \A n \in 1 .. mark : \E i \in 1 .. Len(wire) : wire[i] = n

\* Done() closes only when every goroutine of the Runtime has exited and the
\* link is closed.
DoneMeansExited ==
    done => /\ rpc = "exited" /\ wpc = "exited"
            /\ kpc = "exited" /\ dpc = "exited"
            /\ stop /\ ~linkOpen

\* The phase the layer above can observe.
Phase == IF done THEN "done" ELSE IF stop THEN "stopping" ELSE "up"

Contract == INSTANCE RuntimeContract
            WITH phase <- Phase, accepted <- accepted, delivered <- wire

\* The goroutines implement RuntimeContract.
ImplementsContract == Contract!ContractSpec

\* The reader waits for room in OutQ and no writer is left to make any: the
\* one way a Runtime that was told to stop can fail to.
ReaderStuck == rpc = "reply" /\ Full /\ wpc = "exited"

\* A Runtime that is stopped, or whose link is reset by the peer, reaches
\* Done(), unless the reader is stuck in its own OutQ send.
StopReachesDone == (stop \/ peer = "gone") ~> (done \/ ReaderStuck)

\* A Put blocked on a full OutQ returns once the Runtime stops, under the same
\* exception: LinkClosed releases it.
PutReturns ==
    \A s \in Senders : (spc[s] = "sending" /\ stop) ~>
                       (spc[s] = "idle" \/ ReaderStuck)

\* GracefulShutdown: "timeout bounds the drain [...] after which we fall back
\* to the fast-stop path": once it returned, Done() follows. It does not hold when
\* ReaderStuck does.
ShutdownCompletes == cpc = "returned" ~> done
=============================================================================

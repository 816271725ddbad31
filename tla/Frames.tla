------------------------------ MODULE Frames ------------------------------
(***************************************************************************)
(* One direction of a link: the writer's Batcher with its QoS lanes        *)
(* (internal/transport/batcher.go, fragmenter.go), the batches on the      *)
(* link, and the reader's processBatch with its Reassembler                *)
(* (internal/session/reader.go, internal/transport/reassembler.go).        *)
(*                                                                         *)
(* Message number m is the sequence <<m, 1>> .. <<m, size>> of cells, so a *)
(* piece of it shows where it comes from.  A stream link loses nothing; a  *)
(* datagram link loses and overtakes.                                      *)
(***************************************************************************)
EXTENDS Reassembly, FiniteSets

CONSTANTS Lanes,           \* the pairs <<priority, reliable>> in use
          DataPriority,    \* the priority of a batch without a QoS extension
          Overhead,        \* fragmentOverhead
          HeaderSize,      \* what a FRAME header takes, at most Overhead
          Sizes,           \* the sizes of messages
          MaxMessageSize,
          MaxMsgs, MaxFaults   \* bounds

ASSUME FramesAssumption ==
    /\ Lanes \subseteq Nat \X BOOLEAN /\ IsFiniteSet(Lanes)
    /\ Overhead \in Nat /\ HeaderSize \in 1..Overhead
    /\ Sizes \subseteq Nat \ {0}
    /\ MaxMessageSize \in Nat /\ MaxMsgs \in Nat /\ MaxFaults \in Nat

VARIABLES
    par,      \* [batch, mod, seed, qos, stream]: what the Batcher is made with
    sent,     \* the messages enqueued: [lane, size]
    lane,     \* lane[k]: [seqNum, batch]
    net,      \* the batches on the link
    dead,     \* writeDead
    reasm,    \* reasm[k]
    got,      \* the bodies handed to Dispatch, with the lane they came on
    faults,   \* batches lost or overtaken
    gone      \* history: batches that left the link

frameVars == <<par, sent, lane, net, dead, reasm, got, faults, gone>>

ReceiverLanes == Lanes \cup {<<DataPriority, k[2]>> : k \in Lanes}
Cells(m, size) == [j \in 1..size |-> <<m, j>>]

\* NewBatcher and NewReassembler
FramesStart(p) ==
    /\ par' = p
    /\ lane' = [k \in Lanes |-> [seqNum |-> p.seed, batch |-> <<>>]]
    /\ UNCHANGED <<sent, net, dead, reasm, got, faults, gone>>

FramesInit ==
    /\ par = [batch |-> 0, mod |-> 1, seed |-> 0, qos |-> FALSE, stream |-> TRUE]
    /\ sent = <<>> /\ net = <<>> /\ got = <<>>
    /\ lane = [k \in Lanes |-> [seqNum |-> 0, batch |-> <<>>]]
    /\ reasm = [k \in ReceiverLanes |-> Cleared]
    /\ dead = FALSE /\ faults = 0 /\ gone = 0

------------------------------------------------------------------------------
(* The Batcher, as functions on w = [lane, net].                           *)

\* The lane a reader can tell: LanePriorityFromExts and the reliable flag.
VisibleLane(k) == IF par.qos THEN k ELSE <<DataPriority, k[2]>>

Batched(batch) == LET size[n \in 0..Len(batch)] ==
                          IF n = 0 THEN 0 ELSE size[n-1] + Len(batch[n])
                  IN  size[Len(batch)]

\* maxFrameBodySize
MaxFrameBodySize == par.batch - Overhead

\* The FRAME open on lane k, as the link gets it.
FrameOf(k, st) == [kind |-> "frame", lane |-> k, sn |-> st.seqNum, more |-> FALSE, body |-> st.batch]

\* Mutant of Flushed: the lane keeps its SN.
FlushedKeepsSN(st) == [st EXCEPT !.batch = <<>>]
\* flushLocked: an open FRAME takes the lane's SN, the lane the next one.
Flushed(st) == IF st.batch = <<>> THEN st
               ELSE [seqNum |-> NextSN(st.seqNum, par.mod), batch |-> <<>>]
FlushLane(w, k) ==
    [lane |-> [w.lane EXCEPT ![k] = Flushed(@)],
     net |-> IF w.lane[k].batch = <<>> THEN w.net ELSE Append(w.net, FrameOf(k, w.lane[k]))]

\* appendToLane, openFrame
AppendToLane(w, k, msg) ==
    [lane |-> [w.lane EXCEPT ![k].batch = Append(@, msg)], net |-> w.net]

\* fragmentLocked, Fragmenter.Fragment: chunks of batch - Overhead cells, the
\* FRAGMENTs share the lane's SN space with its FRAMEs.
FragmentLane(w, k, msg) ==
    LET chunk == par.batch - Overhead
        count == (Len(msg) + chunk - 1) \div chunk
        frags == [j \in 1..count |->
                    [kind |-> "frag", lane |-> k, sn |-> (w.lane[k].seqNum + j - 1) % par.mod,
                     more |-> j < count,
                     body |-> SubSeq(msg, (j-1) * chunk + 1, IF j < count THEN j * chunk ELSE Len(msg))]]
    IN  [lane |-> [w.lane EXCEPT ![k].seqNum = (@ + count) % par.mod], net |-> w.net \o frags]

\* Batcher.Enqueue; a batch size that leaves no room for a fragment is an error.
EnqueueTo(w, k, msg, express) ==
    LET flushed == FlushLane(w, k)
        full == w.lane[k].batch # <<>>
                /\ HeaderSize + Batched(w.lane[k].batch) + Len(msg) > par.batch
    IN  CASE Len(msg) > MaxFrameBodySize -> FragmentLane(flushed, k, msg)
          [] Len(msg) <= MaxFrameBodySize /\ express ->
                FlushLane(AppendToLane(flushed, k, msg), k)
          [] Len(msg) <= MaxFrameBodySize /\ ~express /\ full -> AppendToLane(flushed, k, msg)
          [] OTHER -> AppendToLane(w, k, msg)
Refused(msg) == Len(msg) > MaxFrameBodySize /\ par.batch <= Overhead

\* handleItem of a NetworkMsg; after a failed write items are thrown away.
EnqueueMsg(k, size, express) ==
    LET msg == Cells(Len(sent) + 1, size)
        w == EnqueueTo([lane |-> lane, net |-> net], k, msg, express)
    IN  /\ par.batch > 0 /\ Len(sent) < MaxMsgs /\ ~dead
        /\ sent' = Append(sent, [lane |-> k, size |-> size])
        /\ IF Refused(msg)
           THEN /\ dead' = TRUE
                /\ LET f == FlushLane([lane |-> lane, net |-> net], k)
                   IN  lane' = f.lane /\ net' = f.net
           ELSE /\ lane' = w.lane /\ net' = w.net /\ UNCHANGED dead
        /\ UNCHANGED <<par, reasm, got, faults, gone>>

\* FlushAll, lanes in index order: drainAvailable found OutQ empty.
LaneBefore(a, b) == a[1] < b[1] \/ (a[1] = b[1] /\ ~a[2] /\ b[2])
InIndexOrder(S) ==
    {s \in [1..Cardinality(S) -> S] :
        /\ \A i, j \in DOMAIN s : i < j => LaneBefore(s[i], s[j])
        /\ \A k \in S : \E i \in DOMAIN s : s[i] = k}
FlushAll ==
    \E open \in InIndexOrder({k \in Lanes : lane[k].batch # <<>>}) :
        /\ open # <<>> /\ ~dead
        /\ net' = net \o [j \in DOMAIN open |-> FrameOf(open[j], lane[open[j]])]
        /\ lane' = [k \in Lanes |-> Flushed(lane[k])]
        /\ UNCHANGED <<par, sent, dead, reasm, got, faults, gone>>

------------------------------------------------------------------------------
(* The link and the reader.                                                *)

Without(s, i) == SubSeq(s, 1, i - 1) \o SubSeq(s, i + 1, Len(s))

\* processBatch: every message of a FRAME is dispatched; a FRAGMENT goes to the
\* reassembly of the lane its extension names, and what completes is dispatched.
Process(b) ==
    LET k == VisibleLane(b.lane)
        p == Push(reasm[k], b.sn, b.more, b.body, par.mod, MaxMessageSize)
    IN  IF b.kind = "frame"
        THEN got' = got \o [j \in DOMAIN b.body |-> [lane |-> k, body |-> b.body[j]]] /\ UNCHANGED reasm
        ELSE /\ reasm' = [reasm EXCEPT ![k] = p.st]
             /\ got' = IF p.out = <<>> THEN got ELSE Append(got, [lane |-> k, body |-> p.out])

\* ReadBatch; a datagram may overtake the one before it.
Receive(i) ==
    /\ i \in 1..Len(net) /\ i <= 2
    /\ i = 2 => ~par.stream /\ faults < MaxFaults
    /\ Process(net[i])
    /\ net' = Without(net, i) /\ gone' = gone + 1
    /\ faults' = IF i = 2 THEN faults + 1 ELSE faults
    /\ UNCHANGED <<par, sent, lane, dead>>

\* A datagram link loses a batch.
LoseBatch ==
    /\ net # <<>> /\ ~par.stream /\ faults < MaxFaults
    /\ net' = Tail(net) /\ faults' = faults + 1 /\ gone' = gone + 1
    /\ UNCHANGED <<par, sent, lane, dead, reasm, got>>

FramesNext ==
    \/ \E k \in Lanes, n \in Sizes, x \in BOOLEAN : EnqueueMsg(k, n, x)
    \/ FlushAll
    \/ \E i \in 1..2 : Receive(i)
    \/ LoseBatch

------------------------------------------------------------------------------
(* Properties.                                                             *)

BatchSize(b) == HeaderSize + (IF b.kind = "frame" THEN Batched(b.body) ELSE Len(b.body))

\* Batch j is the next after i of those that a receiver assigns to one lane.
NextOnLane(i, j) ==
    /\ VisibleLane(net[i].lane) = VisibleLane(net[j].lane)
    /\ \A l \in (i+1)..(j-1) : VisibleLane(net[l].lane) # VisibleLane(net[j].lane)

\* The FRAMEs and FRAGMENTs that a receiver assigns to one lane carry
\* consecutive sequence numbers within the negotiated resolution, across the
\* wrap; a receiver drops what does not follow on
\* (internal/transport/batcher.go:27-29, 33-37).
SNsConsecutive ==
    \A j \in DOMAIN net :
        /\ net[j].sn \in 0..(par.mod - 1)
        /\ faults = 0 => \A i \in 1..(j-1) :
              NextOnLane(i, j) => net[j].sn = (net[i].sn + 1) % par.mod

\* They do once QoS is negotiated; without it the lanes keep counting apart.
SNsConsecutiveWithQoS == par.qos => SNsConsecutive

\* So many batches were sent that a sequence number may be in use again.
CameRound == gone + Len(net) >= par.mod

\* A body that is a message or what is left of one after a gap.
TailOfOne(b) == LET m == b[1][1]
                IN  b = SubSeq(Cells(m, sent[m].size), b[1][2], sent[m].size)

\* While no batch is lost or overtaken Dispatch sees whole messages, with QoS on
\* each lane in the order they were enqueued and none twice, however often the
\* sequence numbers come round.  After a fault on a datagram link, until they
\* come round, it never sees parts of two messages; but it does see the tail of
\* one: "a gap clears the buffer and drops the message" only as far as the
\* fragment that shows the gap, the next one opens a reassembly anew.  Once they
\* have come round a reassembly left open takes the fragment of another message
\* for its own (internal/transport/reassembler.go:28-35, 82-105).
BodiesGenuine ==
    \A i \in DOMAIN got :
        LET b == got[i].body  m == b[1][1]
        IN  /\ faults = 0 \/ ~CameRound => TailOfOne(b)
            /\ faults = 0 =>
                  /\ b[1][2] = 1
                  /\ par.qos => /\ sent[m].lane = got[i].lane
                                /\ \A j \in 1..(i-1) : got[j].lane = got[i].lane =>
                                                          got[j].body[1][1] < m
=============================================================================

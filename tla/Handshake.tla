----------------------------- MODULE Handshake -----------------------------
(***************************************************************************)
(* The INIT/OPEN exchange over one link: DoHandshake at the initiator "i", *)
(* DoHandshakeResponder at the responder "r"                               *)
(* (internal/session/handshake.go, handshake_responder.go).  One side may  *)
(* be another implementation of the protocol, which sends what it likes.   *)
(*                                                                         *)
(* A resolution is the pair of width codes of its two fields; the code of  *)
(* FrameSN stands for FieldBits[code] bits (7, 14, 28, 63 in the code).    *)
(***************************************************************************)
EXTENDS Naturals, Sequences

CONSTANTS ZIDs, BatchSizes, Leases,
          Resolutions,   \* [fsn, rid]: pairs of width codes
          FieldBits,     \* bits per width code
          Digest         \* SHAKE128 of two ZenohIDs, as a number

Sides == {"i", "r"}
Other(s) == IF s = "i" THEN "r" ELSE "i"
Configs == [zid : ZIDs, batch : BatchSizes, res : Resolutions, qos : BOOLEAN, lease : Leases]

ASSUME HandshakeAssumption ==
    /\ Resolutions \subseteq [fsn : Nat, rid : Nat]
    /\ BatchSizes \subseteq Nat \ {0} /\ Leases \subseteq Nat \ {0}
    /\ \A a \in Resolutions : 2 ^ FieldBits[a.fsn] \in Nat \ {0}
    /\ \A a, b \in Resolutions :
          a.fsn <= b.fsn => 2 ^ FieldBits[a.fsn] <= 2 ^ FieldBits[b.fsn]
    /\ Digest \in [ZIDs \X ZIDs -> Nat]

VARIABLES
    cfg,       \* cfg[s]: HandshakeConfig / AcceptConfig
    foreign,   \* the sides that are another implementation
    hpc,       \* hpc[s]: place of the side
    hs,        \* hs[s]: what the side has negotiated so far, then its result
    chan       \* chan[s]: the messages on their way to s

hsVars == <<cfg, foreign, hpc, hs, chan>>

None == "none"
ProtoVersion == 9
Cookie == "cookie"

HsInit ==
    /\ cfg \in [Sides -> Configs]
    /\ foreign \in {{}, {"i"}, {"r"}}
    /\ hpc = [s \in Sides |-> IF s = "i" THEN "start" ELSE "init_syn"]
    /\ hs = [s \in Sides |-> None]
    /\ chan = [s \in Sides |-> <<>>]

------------------------------------------------------------------------------
(* Messages.                                                               *)

InitMsg(ack, zid, res, batch, cookie, qos) ==
    [type |-> "init", ack |-> ack, version |-> ProtoVersion, zid |-> zid, size |-> TRUE,
     res |-> res, batch |-> batch, cookie |-> cookie, qos |-> qos]
OpenMsg(ack, lease, sn, cookie, qos) ==
    [type |-> "open", ack |-> ack, seconds |-> FALSE, lease |-> lease, sn |-> sn,
     cookie |-> cookie, qos |-> qos]
CloseMsg(reason) == [type |-> "close", reason |-> reason]

\* What another implementation may send: any INIT or OPEN, or a CLOSE.
ForeignMessages(s) ==
    {[type |-> "init", ack |-> s = "r", version |-> v, zid |-> z, size |-> b,
      res |-> x, batch |-> n, cookie |-> Cookie, qos |-> TRUE] :
        v \in {ProtoVersion, ProtoVersion + 1}, z \in ZIDs, b \in BOOLEAN,
        x \in Resolutions, n \in BatchSizes}
    \cup {[type |-> "open", ack |-> s = "r", seconds |-> b, lease |-> l, sn |-> 0,
           cookie |-> c, qos |-> TRUE] :
              b \in BOOLEAN, l \in Leases, c \in {Cookie, None}}
    \cup {CloseMsg("generic")}

\* A lease comes in seconds or in milliseconds.
LeaseMillis(m) == IF m.seconds THEN 1000 * m.lease ELSE m.lease

\* readHandshakeAck and the Ack test of its callers.
Wanted(m, type, ack) == m.type = type /\ m.ack = ack

------------------------------------------------------------------------------
(* Negotiation.                                                            *)

LeastOf(a, b) == IF a < b THEN a ELSE b

\* batch_size: the smaller of what both sides offer.
NegotiatedBatch(mine, m) == IF m.size /\ m.batch < mine THEN m.batch ELSE mine

\* Mutant of MinResolution: the resolution bytes are compared as numbers.
MinResolutionByte(a, b) ==
    IF a.rid < b.rid \/ (a.rid = b.rid /\ a.fsn < b.fsn) THEN a ELSE b
\* MinResolution: each field on its own.
MinResolution(a, b) == [fsn |-> LeastOf(a.fsn, b.fsn), rid |-> LeastOf(a.rid, b.rid)]

\* The INIT ACK raises a field of what the initiator offered.
Raised(m, mine) == m.size /\ (m.res.fsn > mine.fsn \/ m.res.rid > mine.rid)

Modulus(res) == 2 ^ FieldBits[res.fsn]

\* ComputeInitialSN
ComputeInitialSN(me, peer, res) == Digest[<<me, peer>>] % Modulus(res)

------------------------------------------------------------------------------
(* The two sides.  A side that fails closes the link: what it has written  *)
(* can still be read, then the other side's read fails.                    *)

Send(s, m) == chan' = [chan EXCEPT ![Other(s)] = Append(@, m)]
Take(s) == chan' = [chan EXCEPT ![s] = Tail(@)]
Reply(s, m) == chan' = [chan EXCEPT ![s] = Tail(@), ![Other(s)] = Append(@, m)]
Go(s, place) == hpc' = [hpc EXCEPT ![s] = place]
Keep(s, v) == hs' = [hs EXCEPT ![s] = v]

\* writeTransport of INIT SYN
SendInitSyn ==
    /\ hpc["i"] = "start" /\ "i" \notin foreign
    /\ Send("i", InitMsg(FALSE, cfg["i"].zid, cfg["i"].res, cfg["i"].batch, None, cfg["i"].qos))
    /\ Go("i", "init_ack")
    /\ UNCHANGED <<cfg, foreign, hs>>

\* DoHandshake from the read of INIT ACK to the write of OPEN SYN
OnInitAck(m) ==
    LET c == cfg["i"]
        res == IF m.size THEN m.res ELSE c.res
        qos == c.qos /\ m.qos
        sn == ComputeInitialSN(c.zid, m.zid, res)
        known == Wanted(m, "init", TRUE) /\ m.version = ProtoVersion
    IN  CASE ~known ->
               Take("i") /\ Go("i", "failed") /\ UNCHANGED hs
          [] known /\ m.zid = c.zid ->
               Reply("i", CloseMsg("self")) /\ Go("i", "failed") /\ UNCHANGED hs
          [] known /\ m.zid # c.zid /\ Raised(m, c.res) ->
               Reply("i", CloseMsg("invalid")) /\ Go("i", "failed") /\ UNCHANGED hs
          [] OTHER ->
               /\ Reply("i", OpenMsg(FALSE, c.lease, sn, m.cookie, qos))
               /\ Keep("i", [peer |-> m.zid, batch |-> NegotiatedBatch(c.batch, m), res |-> res,
                             qos |-> qos, mySN |-> sn, peerSN |-> 0, peerLease |-> 0])
               /\ Go("i", "open_ack")
ReceiveInitAck ==
    /\ hpc["i"] = "init_ack" /\ chan["i"] # <<>>
    /\ OnInitAck(Head(chan["i"]))
    /\ UNCHANGED <<cfg, foreign>>

\* DoHandshake, the read of OPEN ACK
ReceiveOpenAck ==
    /\ hpc["i"] = "open_ack" /\ chan["i"] # <<>>
    /\ LET m == Head(chan["i"])
       IN  IF Wanted(m, "open", TRUE)
           THEN /\ Keep("i", [hs["i"] EXCEPT !.peerSN = m.sn, !.peerLease = LeaseMillis(m)])
                /\ Go("i", "done")
           ELSE Go("i", "failed") /\ UNCHANGED hs
    /\ Take("i")
    /\ UNCHANGED <<cfg, foreign>>

\* DoHandshakeResponder from the read of INIT SYN to the write of INIT ACK
OnInitSyn(m) ==
    LET c == cfg["r"]
        batch == NegotiatedBatch(c.batch, m)
        res == IF m.size THEN MinResolution(c.res, m.res) ELSE c.res
        qos == c.qos /\ m.qos
    IN  CASE ~Wanted(m, "init", FALSE) ->
               Take("r") /\ Go("r", "failed") /\ UNCHANGED hs
          [] Wanted(m, "init", FALSE) /\ m.version # ProtoVersion ->
               Reply("r", CloseMsg("invalid")) /\ Go("r", "failed") /\ UNCHANGED hs
          [] Wanted(m, "init", FALSE) /\ m.version = ProtoVersion /\ m.zid = c.zid ->
               Reply("r", CloseMsg("self")) /\ Go("r", "failed") /\ UNCHANGED hs
          [] OTHER ->
               /\ Reply("r", InitMsg(TRUE, c.zid, res, batch, Cookie, qos))
               /\ Keep("r", [peer |-> m.zid, batch |-> batch, res |-> res, qos |-> qos,
                             mySN |-> ComputeInitialSN(c.zid, m.zid, res),
                             peerSN |-> 0, peerLease |-> 0])
               /\ Go("r", "open_syn")
ReceiveInitSyn ==
    /\ hpc["r"] = "init_syn" /\ "r" \notin foreign /\ chan["r"] # <<>>
    /\ OnInitSyn(Head(chan["r"]))
    /\ UNCHANGED <<cfg, foreign>>

\* DoHandshakeResponder from the read of OPEN SYN to its return
ReceiveOpenSyn ==
    /\ hpc["r"] = "open_syn" /\ chan["r"] # <<>>
    /\ LET m == Head(chan["r"])
       IN  CASE ~Wanted(m, "open", FALSE) ->
                  Take("r") /\ Go("r", "failed") /\ UNCHANGED hs
             [] Wanted(m, "open", FALSE) /\ m.cookie # Cookie ->
                  Reply("r", CloseMsg("invalid")) /\ Go("r", "failed") /\ UNCHANGED hs
             [] OTHER ->
                  /\ Reply("r", OpenMsg(TRUE, cfg["r"].lease, hs["r"].mySN, None, hs["r"].qos))
                  /\ Keep("r", [hs["r"] EXCEPT !.peerSN = m.sn, !.peerLease = LeaseMillis(m)])
                  /\ Go("r", "done")
    /\ UNCHANGED <<cfg, foreign>>

\* ReadBatch fails: nothing left to read and the other side has closed.
ReadFails(s) ==
    /\ hpc[s] \in {"init_ack", "open_ack", "init_syn", "open_syn"} /\ s \notin foreign
    /\ chan[s] = <<>> /\ hpc[Other(s)] = "failed"
    /\ Go(s, "failed")
    /\ UNCHANGED <<cfg, foreign, hs, chan>>

\* Another implementation sends INIT and OPEN, or anything in their place.
ForeignSends(s, m) ==
    /\ s \in foreign /\ hpc[s] \in {"start", "init_syn", "second"}
    /\ hpc[Other(s)] # "failed"
    /\ hpc[s] # "start" => chan[s] # <<>>
    /\ IF hpc[s] = "start" THEN Send(s, m) ELSE Reply(s, m)
    /\ Go(s, IF hpc[s] = "second" \/ m.type = "close" THEN "failed" ELSE "second")
    /\ UNCHANGED <<cfg, foreign, hs>>

HsNext ==
    \/ SendInitSyn \/ ReceiveInitAck \/ ReceiveOpenAck
    \/ ReceiveInitSyn \/ ReceiveOpenSyn
    \/ \E s \in Sides : ReadFails(s) \/ \E m \in ForeignMessages(s) : ForeignSends(s, m)

------------------------------------------------------------------------------
(* Properties.                                                             *)

Finished(s) == hpc[s] = "done"

\* Whoever finishes accepted no more than it offered, whatever the other side
\* sent; and two sides that both finish agree on batch size, resolution and
\* QoS, and each holds the other's initial SN, lease and ZenohID
\* (internal/session/handshake.go:38-54, "state both peers agreed on").
HandshakeAgreement ==
    /\ \A s \in Sides : Finished(s) =>
          /\ hs[s].batch <= cfg[s].batch
          /\ hs[s].res.fsn <= cfg[s].res.fsn /\ hs[s].res.rid <= cfg[s].res.rid
          /\ hs[s].qos => cfg[s].qos
          /\ hs[s].peer # cfg[s].zid
    /\ Finished("i") /\ Finished("r") =>
          /\ hs["i"].batch = hs["r"].batch /\ hs["i"].res = hs["r"].res
          /\ hs["i"].qos = hs["r"].qos
          /\ \A s \in Sides : /\ hs[s].peerSN = hs[Other(s)].mySN
                              /\ hs[s].mySN < Modulus(hs[s].res)
                              /\ hs[s].peerLease = cfg[Other(s)].lease
                              /\ hs[s].peer = cfg[Other(s)].zid
=============================================================================

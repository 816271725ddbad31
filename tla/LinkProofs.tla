----------------------------- MODULE LinkProofs -----------------------------
(***************************************************************************)
(* Proofs about Link: the handshake ends in agreement for any              *)
(* configurations and against any other implementation, what the Batcher   *)
(* puts on the link fits what the handshake agreed, and what the reader    *)
(* dispatches are the messages that were enqueued.                         *)
(***************************************************************************)
EXTENDS Link, SequenceTheorems, FiniteSetTheorems, TLAPS

-----------------------------------------------------------------------------
(* The types of the handshake.                                             *)

Codes == {a.fsn : a \in Resolutions}
ResType == [fsn : Codes, rid : Nat]
InitType == [type : {"init"}, ack : BOOLEAN, version : Nat, zid : ZIDs, size : BOOLEAN,
             res : ResType, batch : Nat, cookie : {Cookie, None}, qos : BOOLEAN]
OpenType == [type : {"open"}, ack : BOOLEAN, seconds : BOOLEAN, lease : Nat, sn : Nat,
             cookie : {Cookie, None}, qos : BOOLEAN]
CloseType == [type : {"close"}, reason : {"generic", "self", "invalid"}]
MsgType == InitType \cup OpenType \cup CloseType
ResultType == [peer : ZIDs, batch : Nat, res : ResType, qos : BOOLEAN, mySN : Nat,
               peerSN : Nat, peerLease : Nat]
Places == {"start", "init_ack", "open_ack", "init_syn", "open_syn", "second", "done",
           "failed", "group"}

HsShape ==
    /\ cfg \in [Sides -> Configs]
    /\ foreign \in SUBSET Sides
    /\ hpc \in [Sides -> Places]
    /\ hs \in [Sides -> ResultType \cup {None}]
    /\ chan \in [Sides -> Seq(MsgType)]

\* Each side is only where its role takes it, another implementation nowhere
\* but in its own places, and a group has no handshake.
PlacesInv ==
    /\ hpc["i"] \in {"start", "init_ack", "open_ack", "second", "done", "failed", "group"}
    /\ hpc["r"] \in {"init_syn", "open_syn", "second", "done", "failed", "group"}
    /\ \A s \in foreign : hpc[s] \in {"start", "init_syn", "second", "failed"}
    /\ \A s \in Sides : hpc[s] = "group" => hpc[Other(s)] = "group"

\* What a side has once it has read the other's INIT, whoever sent it.
SideInv(s) ==
    hpc[s] \in {"open_ack", "open_syn", "done"} =>
        /\ hs[s] \in ResultType
        /\ hs[s].batch <= cfg[s].batch
        /\ hs[s].res.fsn <= cfg[s].res.fsn /\ hs[s].res.rid <= cfg[s].res.rid
        /\ hs[s].qos => cfg[s].qos
        /\ hs[s].peer # cfg[s].zid
        /\ hs[s].mySN < Modulus(hs[s].res)

Offer == InitMsg(FALSE, cfg["i"].zid, cfg["i"].res, cfg["i"].batch, None, cfg["i"].qos)
Answer == InitMsg(TRUE, cfg["r"].zid, hs["r"].res, hs["r"].batch, Cookie, hs["r"].qos)
OpenSyn == OpenMsg(FALSE, cfg["i"].lease, hs["i"].mySN, Cookie, hs["i"].qos)
OpenAck == OpenMsg(TRUE, cfg["r"].lease, hs["r"].mySN, None, hs["r"].qos)

\* The responder's answer stays within the offer.
Answered == /\ hs["r"].batch <= cfg["i"].batch
            /\ hs["r"].qos => cfg["i"].qos
            /\ hs["r"].peer = cfg["i"].zid

Agreed == /\ hs["i"].batch = hs["r"].batch
          /\ hs["i"].res = hs["r"].res
          /\ hs["i"].qos = hs["r"].qos
          /\ hs["i"].peer = cfg["r"].zid /\ hs["r"].peer = cfg["i"].zid

\* s has read the OPEN of the other side.
Holds(s) == hs[s].peerSN = hs[Other(s)].mySN /\ hs[s].peerLease = cfg[Other(s)].lease

\* Two sides of this implementation, in lockstep: what is on the link and what
\* the two have in common, by their places, while neither has failed.
At(p, q) == hpc["i"] = p /\ hpc["r"] = q
OnLink(toI, toR) == chan["i"] = toI /\ chan["r"] = toR

Lockstep ==
    \/ At("start", "init_syn") /\ OnLink(<<>>, <<>>)
    \/ At("init_ack", "init_syn") /\ OnLink(<<>>, <<Offer>>)
    \/ At("init_ack", "open_syn") /\ OnLink(<<Answer>>, <<>>) /\ Answered
    \/ At("open_ack", "open_syn") /\ OnLink(<<>>, <<OpenSyn>>) /\ Agreed
    \/ At("open_ack", "done") /\ OnLink(<<OpenAck>>, <<>>) /\ Agreed /\ Holds("r")
    \/ At("done", "done") /\ Agreed /\ Holds("r") /\ Holds("i")
    \/ At("group", "group")
    \/ hpc["i"] = "failed" \/ hpc["r"] = "failed"

HsInv ==
    /\ HsShape
    /\ PlacesInv
    /\ \A s \in Sides : SideInv(s)
    /\ foreign = {} => Lockstep

-----------------------------------------------------------------------------
(* The operators of the handshake.                                         *)

\* There are two sides.
LEMMA SidesFacts ==
    /\ "i" \in Sides /\ "r" \in Sides
    /\ Other("i") = "r" /\ Other("r") = "i"
    /\ \A s \in Sides : (s = "i" \/ s = "r") /\ Other(s) \in Sides /\ Other(s) # s
BY DEF Sides, Other

\* The modulus of a resolution is a positive number, and a narrower FrameSN
\* field has no larger one.
LEMMA Moduli ==
    /\ \A x \in ResType : Modulus(x) \in Nat \ {0}
    /\ \A x, y \in ResType : x.fsn <= y.fsn => Modulus(x) <= Modulus(y)
<1>1. \A c \in Codes : 2 ^ FieldBits[c] \in Nat \ {0}
  BY HandshakeAssumption DEF Codes
<1>2. \A c, d \in Codes : c <= d => 2 ^ FieldBits[c] <= 2 ^ FieldBits[d]
  BY HandshakeAssumption DEF Codes
<1>3. \A x \in ResType : x.fsn \in Codes
  BY DEF ResType
<1> QED
  BY <1>1, <1>2, <1>3 DEF Modulus

\* Width codes are numbers, and every offered resolution is one of them.
LEMMA ResolutionTypes ==
    /\ Codes \subseteq Nat
    /\ Resolutions \subseteq ResType
    /\ \A x \in ResType : x.fsn \in Codes /\ x.fsn \in Nat /\ x.rid \in Nat
<1>1. Codes \subseteq Nat
  BY HandshakeAssumption DEF Codes
<1>2. Resolutions \subseteq ResType
  BY HandshakeAssumption DEF Codes, ResType
<1> QED
  BY <1>1, <1>2 DEF ResType

\* ComputeInitialSN stays below the modulus.
LEMMA InitialSN ==
    ASSUME NEW a \in ZIDs, NEW b \in ZIDs, NEW x \in ResType
    PROVE  /\ ComputeInitialSN(a, b, x) \in Nat
           /\ ComputeInitialSN(a, b, x) < Modulus(x)
<1>1. Digest[<<a, b>>] \in Nat
  BY HandshakeAssumption
<1>2. Modulus(x) \in Nat \ {0}
  BY Moduli
<1> QED
  BY <1>1, <1>2 DEF ComputeInitialSN

\* MinResolution takes each field from one of the two.
LEMMA MinResolutionFacts ==
    ASSUME NEW a \in ResType, NEW b \in ResType
    PROVE  /\ MinResolution(a, b) \in ResType
           /\ MinResolution(a, b).fsn <= a.fsn /\ MinResolution(a, b).rid <= a.rid
<1>1. /\ a.fsn \in Codes /\ a.fsn \in Nat /\ a.rid \in Nat
      /\ b.fsn \in Codes /\ b.fsn \in Nat /\ b.rid \in Nat
  BY ResolutionTypes
<1>2. /\ LeastOf(a.fsn, b.fsn) \in Codes /\ LeastOf(a.rid, b.rid) \in Nat
      /\ LeastOf(a.fsn, b.fsn) <= a.fsn /\ LeastOf(a.rid, b.rid) <= a.rid
  BY <1>1 DEF LeastOf
<1> QED
  BY <1>2 DEF MinResolution, ResType

\* What another implementation sends is a message.
LEMMA ForeignTypes ==
    ASSUME NEW s \in Sides, NEW m \in ForeignMessages(s)
    PROVE  m \in MsgType
<1> DEFINE F == {[type |-> "init", ack |-> s = "r", version |-> v, zid |-> z, size |-> b,
                  res |-> x, batch |-> n, cookie |-> Cookie, qos |-> TRUE] :
                    v \in {ProtoVersion, ProtoVersion + 1}, z \in ZIDs, b \in BOOLEAN,
                    x \in Resolutions, n \in BatchSizes}
<1> DEFINE G == {[type |-> "open", ack |-> s = "r", seconds |-> b, lease |-> l, sn |-> 0,
                  cookie |-> c, qos |-> TRUE] :
                    b \in BOOLEAN, l \in Leases, c \in {Cookie, None}}
<1>1. m \in F \cup G \cup {CloseMsg("generic")}
  BY DEF ForeignMessages
<1>2. CASE m \in F
  <2>1. PICK v \in {ProtoVersion, ProtoVersion + 1}, z \in ZIDs, b \in BOOLEAN,
             x \in Resolutions, n \in BatchSizes :
           m = [type |-> "init", ack |-> s = "r", version |-> v, zid |-> z, size |-> b,
                res |-> x, batch |-> n, cookie |-> Cookie, qos |-> TRUE]
    BY <1>2
  <2>2. v \in Nat /\ x \in ResType /\ n \in Nat /\ (s = "r") \in BOOLEAN
    BY ResolutionTypes, HandshakeAssumption DEF ProtoVersion
  <2>3. m \in InitType
    BY <2>1, <2>2 DEF InitType
  <2> QED
    BY <2>3 DEF MsgType
<1>3. CASE m \in G
  <2>1. PICK b \in BOOLEAN, l \in Leases, c \in {Cookie, None} :
           m = [type |-> "open", ack |-> s = "r", seconds |-> b, lease |-> l, sn |-> 0,
                cookie |-> c, qos |-> TRUE]
    BY <1>3
  <2>2. l \in Nat /\ (s = "r") \in BOOLEAN
    BY HandshakeAssumption
  <2>3. m \in OpenType
    BY <2>1, <2>2 DEF OpenType
  <2> QED
    BY <2>3 DEF MsgType
<1>4. CASE m = CloseMsg("generic")
  BY <1>4 DEF CloseMsg, MsgType, CloseType
<1> QED
  BY <1>1, <1>2, <1>3, <1>4

\* The two messages of a side, and CLOSE, are messages.
LEMMA OwnTypes ==
    /\ \A ack \in BOOLEAN, z \in ZIDs, x \in ResType, n \in Nat, k \in {Cookie, None},
          q \in BOOLEAN : InitMsg(ack, z, x, n, k, q) \in InitType
    /\ \A ack \in BOOLEAN, l \in Nat, n \in Nat, k \in {Cookie, None}, q \in BOOLEAN :
          OpenMsg(ack, l, n, k, q) \in OpenType
    /\ \A w \in {"generic", "self", "invalid"} : CloseMsg(w) \in MsgType
<1>1. \A ack \in BOOLEAN, z \in ZIDs, x \in ResType, n \in Nat, k \in {Cookie, None},
         q \in BOOLEAN : InitMsg(ack, z, x, n, k, q) \in InitType
  BY DEF InitMsg, InitType, ProtoVersion
<1>2. \A ack \in BOOLEAN, l \in Nat, n \in Nat, k \in {Cookie, None}, q \in BOOLEAN :
         OpenMsg(ack, l, n, k, q) \in OpenType
  BY DEF OpenMsg, OpenType
<1>3. \A w \in {"generic", "self", "invalid"} : CloseMsg(w) \in MsgType
  BY DEF CloseMsg, CloseType, MsgType
<1> QED
  BY <1>1, <1>2, <1>3

\* A message that Wanted accepts as an INIT or an OPEN is one, with its fields.
LEMMA WantedTypes ==
    ASSUME NEW m \in MsgType, NEW ack \in BOOLEAN
    PROVE  /\ Wanted(m, "init", ack) => m \in InitType
           /\ Wanted(m, "open", ack) => m \in OpenType
BY DEF MsgType, InitType, OpenType, CloseType, Wanted

\* The negotiated batch size is at most what either side offers.
LEMMA BatchFacts ==
    ASSUME NEW n \in Nat, NEW m \in InitType
    PROVE  /\ NegotiatedBatch(n, m) \in Nat
           /\ NegotiatedBatch(n, m) <= n
           /\ m.size => NegotiatedBatch(n, m) <= m.batch
           /\ m.size /\ m.batch <= n => NegotiatedBatch(n, m) = m.batch
<1>1. m.batch \in Nat
  BY DEF InitType
<1> QED
  BY <1>1 DEF NegotiatedBatch

\* What the channel operations do.
LEMMA Channels ==
    ASSUME HsShape, NEW s \in Sides, NEW m \in MsgType
    PROVE  /\ Send(s, m) =>
                 /\ chan' \in [Sides -> Seq(MsgType)]
                 /\ chan'[s] = chan[s] /\ chan'[Other(s)] = Append(chan[Other(s)], m)
           /\ chan[s] # <<>> /\ Reply(s, m) =>
                 /\ chan' \in [Sides -> Seq(MsgType)]
                 /\ chan'[s] = Tail(chan[s]) /\ chan'[Other(s)] = Append(chan[Other(s)], m)
<1> DEFINE M == MsgType
<1>1. chan \in [Sides -> Seq(M)] /\ m \in M
  BY DEF HsShape
<1> HIDE DEF M
<1>2. ASSUME Send(s, m)
      PROVE  /\ chan' \in [Sides -> Seq(M)]
             /\ chan'[s] = chan[s] /\ chan'[Other(s)] = Append(chan[Other(s)], m)
  BY <1>1, <1>2, SidesFacts DEF Send
<1>3. ASSUME chan[s] # <<>>, Reply(s, m)
      PROVE  /\ chan' \in [Sides -> Seq(M)]
             /\ chan'[s] = Tail(chan[s]) /\ chan'[Other(s)] = Append(chan[Other(s)], m)
  <2>1. PICK t \in Sides : t = Other(s) /\ t # s
    BY SidesFacts
  <2>2. chan' = [chan EXCEPT ![s] = Tail(@), ![t] = Append(@, m)]
    BY <1>3, <2>1 DEF Reply
  <2>3. Tail(chan[s]) \in Seq(M) /\ Append(chan[t], m) \in Seq(M)
    BY <1>1, <1>3
  <2>4. chan' \in [Sides -> Seq(M)] /\ chan'[s] = Tail(chan[s]) /\ chan'[t] = Append(chan[t], m)
    BY <1>1, <2>1, <2>2, <2>3
  <2> QED
    BY <2>1, <2>4
<1> QED
  BY <1>2, <1>3 DEF M

\* Reading a message leaves the rest.
LEMMA Taking ==
    ASSUME HsShape, NEW s \in Sides, chan[s] # <<>>
    PROVE  /\ Head(chan[s]) \in MsgType
           /\ Take(s) => /\ chan' \in [Sides -> Seq(MsgType)]
                         /\ chan'[s] = Tail(chan[s]) /\ chan'[Other(s)] = chan[Other(s)]
<1> DEFINE M == MsgType
<1>1. chan \in [Sides -> Seq(M)]
  BY DEF HsShape
<1> HIDE DEF M
<1>2. Head(chan[s]) \in M
  BY <1>1
<1>3. ASSUME Take(s)
      PROVE  /\ chan' \in [Sides -> Seq(M)]
             /\ chan'[s] = Tail(chan[s]) /\ chan'[Other(s)] = chan[Other(s)]
  BY <1>1, <1>3, SidesFacts DEF Take
<1> QED
  BY <1>2, <1>3 DEF M

-----------------------------------------------------------------------------
(* The steps of the handshake.                                             *)

\* A configuration's fields.
LEMMA ConfigTypes ==
    ASSUME HsShape, NEW s \in Sides
    PROVE  /\ cfg[s].zid \in ZIDs /\ cfg[s].batch \in Nat /\ cfg[s].res \in ResType
           /\ cfg[s].qos \in BOOLEAN /\ cfg[s].lease \in Nat
<1>1. cfg[s] \in Configs
  BY DEF HsShape
<1>2. /\ cfg[s].zid \in ZIDs /\ cfg[s].batch \in BatchSizes /\ cfg[s].res \in Resolutions
      /\ cfg[s].qos \in BOOLEAN /\ cfg[s].lease \in Leases
  BY <1>1 DEF Configs
<1> QED
  BY <1>2, ResolutionTypes, HandshakeAssumption

\* Nothing but the place of a side and the link changes: the side facts of a
\* side follow its place.
LEMMA SameSide ==
    ASSUME NEW s \in Sides, SideInv(s), UNCHANGED <<cfg, hs>>,
           hpc'[s] \in {"open_ack", "open_syn", "done"} =>
               hpc[s] \in {"open_ack", "open_syn", "done"}
    PROVE  SideInv(s)'
BY DEF SideInv, Modulus

\* A side fails: nothing is promised about it any more.
LEMMA FailStep ==
    ASSUME HsInv, NEW s \in Sides, hpc[s] \notin {"done", "group"}, Go(s, "failed"),
           UNCHANGED <<cfg, foreign, hs>>, chan' \in [Sides -> Seq(MsgType)]
    PROVE  HsInv'
<1>1. /\ hpc' \in [Sides -> Places] /\ hpc'[s] = "failed"
      /\ \A t \in Sides : t # s => hpc'[t] = hpc[t]
  BY DEF HsInv, HsShape, Go, Places
<1>2. HsShape'
  BY <1>1 DEF HsInv, HsShape
<1>3. PlacesInv'
  BY <1>1, SidesFacts DEF HsInv, HsShape, PlacesInv
<1>4. \A t \in Sides : SideInv(t)'
  BY <1>1, SameSide DEF HsInv
<1>5. Lockstep'
  BY <1>1, SidesFacts DEF Lockstep
<1> QED
  BY <1>2, <1>3, <1>4, <1>5 DEF HsInv

\* The initiator's INIT SYN.
LEMMA SendInitSynStep ==
    ASSUME HsInv, SendInitSyn
    PROVE  HsInv'
<1> USE SidesFacts
<1>1. /\ hpc["i"] = "start" /\ "i" \notin foreign /\ Send("i", Offer)
      /\ UNCHANGED <<cfg, foreign, hs>> /\ Go("i", "init_ack")
  BY DEF SendInitSyn, Offer
<1>2. Offer \in MsgType
  BY ConfigTypes, OwnTypes DEF Offer, HsInv, MsgType
<1>3. /\ chan' \in [Sides -> Seq(MsgType)]
      /\ chan'["i"] = chan["i"] /\ chan'["r"] = Append(chan["r"], Offer)
  BY <1>1, <1>2, Channels DEF HsInv
<1>4. /\ hpc' \in [Sides -> Places] /\ hpc'["i"] = "init_ack" /\ hpc'["r"] = hpc["r"]
  BY <1>1 DEF HsInv, HsShape, Go, Places
<1>5. HsShape'
  BY <1>1, <1>3, <1>4 DEF HsInv, HsShape
<1>6. PlacesInv'
  BY <1>1, <1>4 DEF HsInv, HsShape, PlacesInv
<1>7. \A t \in Sides : SideInv(t)'
  BY <1>1, <1>4, SameSide DEF HsInv
<1>8. ASSUME foreign' = {} PROVE Lockstep'
  <2>1. Lockstep
    BY <1>1, <1>8 DEF HsInv
  <2>2. \/ hpc["r"] = "failed"
        \/ At("start", "init_syn") /\ OnLink(<<>>, <<>>)
    BY <2>1, <1>1 DEF Lockstep, At
  <2>3. CASE hpc["r"] = "failed"
    BY <2>3, <1>4 DEF Lockstep
  <2>4. CASE At("start", "init_syn") /\ OnLink(<<>>, <<>>)
    <3>1. Offer' = Offer
      BY <1>1 DEF Offer
    <3>2. At("init_ack", "init_syn")' /\ OnLink(<<>>, <<Offer>>)'
      BY <2>4, <3>1, <1>3, <1>4 DEF At, OnLink
    <3> QED
      BY <3>2 DEF Lockstep
  <2> QED
    BY <2>2, <2>3, <2>4
<1> QED
  BY <1>5, <1>6, <1>7, <1>8 DEF HsInv

\* The responder reads INIT SYN.
LEMMA ReceiveInitSynStep ==
    ASSUME HsInv, ReceiveInitSyn
    PROVE  HsInv'
<1> USE SidesFacts
<1> DEFINE m == Head(chan["r"])
           c == cfg["r"]
           batch == NegotiatedBatch(c.batch, m)
           res == IF m.size THEN MinResolution(c.res, m.res) ELSE c.res
           qos == c.qos /\ m.qos
           sn == ComputeInitialSN(c.zid, m.zid, res)
           ack == InitMsg(TRUE, c.zid, res, batch, Cookie, qos)
           new == [peer |-> m.zid, batch |-> batch, res |-> res, qos |-> qos,
                   mySN |-> sn, peerSN |-> 0, peerLease |-> 0]
           accepted == /\ Wanted(m, "init", FALSE) /\ m.version = ProtoVersion
                       /\ m.zid # c.zid
<1>1. /\ hpc["r"] = "init_syn" /\ "r" \notin foreign /\ chan["r"] # <<>>
      /\ UNCHANGED <<cfg, foreign>>
  BY DEF ReceiveInitSyn
<1>2. \/ ~accepted /\ Go("r", "failed") /\ UNCHANGED hs
            /\ (Take("r") \/ \E w \in {"generic", "self", "invalid"} : Reply("r", CloseMsg(w)))
      \/ accepted /\ Reply("r", ack) /\ Keep("r", new) /\ Go("r", "open_syn")
  BY DEF ReceiveInitSyn, OnInitSyn
<1> HIDE DEF accepted
<1>3. CASE ~accepted /\ Go("r", "failed") /\ UNCHANGED hs
            /\ (Take("r") \/ \E w \in {"generic", "self", "invalid"} : Reply("r", CloseMsg(w)))
  <2>1. chan' \in [Sides -> Seq(MsgType)]
    BY <1>1, <1>3, Taking, Channels, OwnTypes DEF HsInv
  <2> QED
    BY <1>1, <1>3, <2>1, FailStep
<1>4. CASE accepted /\ Reply("r", ack) /\ Keep("r", new) /\ Go("r", "open_syn")
  <2>1. m \in InitType /\ m.zid # c.zid
    BY <1>1, <1>4, Taking, WantedTypes DEF HsInv, accepted
  <2>2. /\ m.zid \in ZIDs /\ m.size \in BOOLEAN /\ m.res \in ResType /\ m.batch \in Nat
        /\ m.qos \in BOOLEAN
    BY <2>1 DEF InitType
  <2>3. /\ c.zid \in ZIDs /\ c.batch \in Nat /\ c.res \in ResType /\ c.qos \in BOOLEAN
    BY ConfigTypes DEF HsInv
  <2>4. batch \in Nat /\ batch <= c.batch /\ (m.size => batch <= m.batch)
    BY <2>1, <2>3, BatchFacts
  <2>5. res \in ResType /\ res.fsn <= c.res.fsn /\ res.rid <= c.res.rid
    BY <2>2, <2>3, MinResolutionFacts, ResolutionTypes
  <2>6. qos \in BOOLEAN /\ (qos => c.qos) /\ (qos => m.qos)
    BY <2>2, <2>3
  <2> HIDE DEF batch, res, qos
  <2>7. sn \in Nat /\ sn < Modulus(res)
    BY <2>2, <2>3, <2>5, InitialSN
  <2> HIDE DEF sn, c, m
  <2>8. ack \in MsgType
    BY <2>3, <2>4, <2>5, <2>6, OwnTypes DEF MsgType
  <2>9. new \in ResultType
    BY <2>2, <2>4, <2>5, <2>6, <2>7 DEF ResultType
  <2> HIDE DEF ack
  <2>10. /\ chan' \in [Sides -> Seq(MsgType)]
         /\ chan'["r"] = Tail(chan["r"]) /\ chan'["i"] = Append(chan["i"], ack)
    BY <1>1, <1>4, <2>8, Channels DEF HsInv
  <2>11. /\ hpc' \in [Sides -> Places] /\ hpc'["r"] = "open_syn" /\ hpc'["i"] = hpc["i"]
    BY <1>4 DEF HsInv, HsShape, Go, Places
  <2>12. /\ hs' \in [Sides -> ResultType \cup {None}] /\ hs'["r"] = new /\ hs'["i"] = hs["i"]
    BY <1>4, <2>9 DEF HsInv, HsShape, Keep
  <2>13. HsShape'
    BY <1>1, <2>10, <2>11, <2>12 DEF HsInv, HsShape
  <2>14. PlacesInv'
    BY <1>1, <2>11 DEF HsInv, HsShape, PlacesInv
  <2>15. SideInv("i")'
    BY <1>1, <2>11, <2>12 DEF HsInv, SideInv, Modulus
  <2>16. SideInv("r")'
    <3>1. /\ hs'["r"].batch = batch /\ hs'["r"].res = res /\ hs'["r"].qos = qos
          /\ hs'["r"].peer = m.zid /\ hs'["r"].mySN = sn
      BY <2>12
    <3>2. cfg'["r"] = c
      BY <1>1 DEF c
    <3>3. hs'["r"] \in ResultType
      BY <2>9, <2>12
    <3>4. hs'["r"].qos => cfg'["r"].qos
      BY <2>6, <3>1, <3>2
    <3> QED
      BY <2>1, <2>4, <2>5, <2>7, <3>1, <3>2, <3>3, <3>4 DEF SideInv, Modulus
  <2>17. ASSUME foreign' = {} PROVE Lockstep'
    <3>1. Lockstep
      BY <1>1, <2>17 DEF HsInv
    <3>2. \/ hpc["i"] = "failed"
          \/ At("init_ack", "init_syn") /\ OnLink(<<>>, <<Offer>>)
          \/ At("start", "init_syn") /\ OnLink(<<>>, <<>>)
      BY <3>1, <1>1 DEF Lockstep, At
    <3>3. CASE hpc["i"] = "failed"
      BY <3>3, <2>11 DEF Lockstep
    <3>4. CASE At("init_ack", "init_syn") /\ OnLink(<<>>, <<Offer>>)
      <4>1. m = Offer
        BY <3>4 DEF OnLink, m
      <4>2. /\ m.zid = cfg["i"].zid /\ m.batch = cfg["i"].batch /\ m.size
            /\ m.qos = cfg["i"].qos
        BY <4>1 DEF Offer, InitMsg
      <4>3. ack = Answer'
        BY <1>1, <2>12 DEF Answer, ack, c
      <4>4. OnLink(<<Answer>>, <<>>)'
        BY <3>4, <2>10, <4>3 DEF OnLink
      <4>5. Answered'
        <5>1. hs'["r"].batch = batch /\ hs'["r"].peer = m.zid /\ hs'["r"].qos = qos
          BY <2>12
        <5> QED
          BY <1>1, <5>1, <4>2, <2>4, <2>6 DEF Answered
      <4> QED
        BY <4>4, <4>5, <3>4, <2>11 DEF Lockstep, At
    <3> QED
      BY <1>1, <3>2, <3>3, <3>4 DEF OnLink
  <2> QED
    BY <2>13, <2>14, <2>15, <2>16, <2>17 DEF HsInv
<1> QED
  BY <1>2, <1>3, <1>4

\* The initiator reads INIT ACK.
LEMMA ReceiveInitAckStep ==
    ASSUME HsInv, ReceiveInitAck
    PROVE  HsInv'
<1> USE SidesFacts
<1> DEFINE m == Head(chan["i"])
           c == cfg["i"]
           batch == NegotiatedBatch(c.batch, m)
           res == IF m.size THEN m.res ELSE c.res
           qos == c.qos /\ m.qos
           sn == ComputeInitialSN(c.zid, m.zid, res)
           syn == OpenMsg(FALSE, c.lease, sn, m.cookie, qos)
           new == [peer |-> m.zid, batch |-> batch, res |-> res, qos |-> qos,
                   mySN |-> sn, peerSN |-> 0, peerLease |-> 0]
           accepted == /\ Wanted(m, "init", TRUE) /\ m.version = ProtoVersion
                       /\ m.zid # c.zid /\ ~Raised(m, c.res)
           refused == /\ Go("i", "failed") /\ UNCHANGED hs
                      /\ Take("i") \/ \E w \in {"generic", "self", "invalid"} :
                                          Reply("i", CloseMsg(w))
<1>1. /\ hpc["i"] = "init_ack" /\ chan["i"] # <<>>
      /\ UNCHANGED <<cfg, foreign>>
  BY DEF ReceiveInitAck
<1>2. \/ refused
      \/ accepted /\ Reply("i", syn) /\ Keep("i", new) /\ Go("i", "open_ack")
  BY DEF ReceiveInitAck, OnInitAck
<1> HIDE DEF accepted
<1>3. CASE refused
  <2>1. chan' \in [Sides -> Seq(MsgType)]
    BY <1>1, <1>3, Taking, Channels, OwnTypes DEF HsInv
  <2> QED
    BY <1>1, <1>3, <2>1, FailStep
<1>4. CASE accepted /\ Reply("i", syn) /\ Keep("i", new) /\ Go("i", "open_ack")
  <2>1. m \in InitType /\ m.zid # c.zid /\ ~Raised(m, c.res)
    BY <1>1, <1>4, Taking, WantedTypes DEF HsInv, accepted
  <2>2. /\ m.zid \in ZIDs /\ m.size \in BOOLEAN /\ m.res \in ResType /\ m.batch \in Nat
        /\ m.qos \in BOOLEAN /\ m.cookie \in {Cookie, None}
    BY <2>1 DEF InitType
  <2>3. /\ c.zid \in ZIDs /\ c.batch \in Nat /\ c.res \in ResType /\ c.qos \in BOOLEAN
        /\ c.lease \in Nat
    BY ConfigTypes DEF HsInv
  <2>4. /\ batch \in Nat /\ batch <= c.batch
        /\ m.size /\ m.batch <= c.batch => batch = m.batch
    BY <2>1, <2>3, BatchFacts
  <2>5. /\ res \in ResType /\ res.fsn <= c.res.fsn /\ res.rid <= c.res.rid
        /\ m.size => res = m.res
    BY <2>1, <2>2, <2>3, ResolutionTypes DEF Raised
  <2>6. qos \in BOOLEAN /\ (qos => c.qos) /\ ((m.qos => c.qos) => qos = m.qos)
    BY <2>2, <2>3
  <2> HIDE DEF batch, res, qos
  <2>7. sn \in Nat /\ sn < Modulus(res)
    BY <2>2, <2>3, <2>5, InitialSN
  <2> HIDE DEF sn, c, m
  <2>8. syn \in MsgType
    BY <2>2, <2>3, <2>6, <2>7, OwnTypes DEF MsgType
  <2>9. new \in ResultType
    BY <2>2, <2>4, <2>5, <2>6, <2>7 DEF ResultType
  <2> HIDE DEF syn
  <2>10. /\ chan' \in [Sides -> Seq(MsgType)]
         /\ chan'["i"] = Tail(chan["i"]) /\ chan'["r"] = Append(chan["r"], syn)
    BY <1>1, <1>4, <2>8, Channels DEF HsInv
  <2>11. /\ hpc' \in [Sides -> Places] /\ hpc'["i"] = "open_ack" /\ hpc'["r"] = hpc["r"]
    BY <1>4 DEF HsInv, HsShape, Go, Places
  <2>12. /\ hs' \in [Sides -> ResultType \cup {None}] /\ hs'["i"] = new /\ hs'["r"] = hs["r"]
    BY <1>4, <2>9 DEF HsInv, HsShape, Keep
  <2>13. HsShape'
    BY <1>1, <2>10, <2>11, <2>12 DEF HsInv, HsShape
  <2>14. PlacesInv'
    BY <1>1, <2>11 DEF HsInv, HsShape, PlacesInv
  <2>15. SideInv("r")'
    BY <1>1, <2>11, <2>12 DEF HsInv, SideInv, Modulus
  <2>16. /\ hs'["i"].batch = batch /\ hs'["i"].res = res /\ hs'["i"].qos = qos
         /\ hs'["i"].peer = m.zid /\ hs'["i"].mySN = sn
    BY <2>12
  <2>17. SideInv("i")'
    <3>1. cfg'["i"] = c
      BY <1>1 DEF c
    <3>2. hs'["i"] \in ResultType
      BY <2>9, <2>12
    <3>3. hs'["i"].qos => cfg'["i"].qos
      BY <2>6, <2>16, <3>1
    <3> QED
      BY <2>1, <2>4, <2>5, <2>7, <2>16, <3>1, <3>2, <3>3 DEF SideInv, Modulus
  <2>18. ASSUME foreign' = {} PROVE Lockstep'
    <3>1. Lockstep
      BY <1>1, <2>18 DEF HsInv
    <3>2. \/ hpc["r"] = "failed"
          \/ At("init_ack", "init_syn") /\ OnLink(<<>>, <<Offer>>)
          \/ At("init_ack", "open_syn") /\ OnLink(<<Answer>>, <<>>) /\ Answered
      BY <3>1, <1>1 DEF Lockstep, At
    <3>3. CASE hpc["r"] = "failed"
      BY <3>3, <2>11 DEF Lockstep
    <3>4. CASE At("init_ack", "open_syn") /\ OnLink(<<Answer>>, <<>>) /\ Answered
      <4>1. m = Answer
        BY <3>4 DEF OnLink, m
      <4>2. /\ m.zid = cfg["r"].zid /\ m.batch = hs["r"].batch /\ m.size
            /\ m.qos = hs["r"].qos /\ m.res = hs["r"].res /\ m.cookie = Cookie
        BY <4>1 DEF Answer, InitMsg
      <4>3. /\ hs'["i"].batch = hs'["r"].batch /\ hs'["i"].res = hs'["r"].res
            /\ hs'["i"].peer = cfg'["r"].zid /\ hs'["r"].peer = cfg'["i"].zid
        BY <1>1, <2>4, <2>5, <2>12, <2>16, <3>4, <4>2 DEF Answered, c
      <4>4. hs'["i"].qos = hs'["r"].qos
        <5>1. m.qos => c.qos
          BY <3>4, <4>2 DEF Answered, c
        <5> QED
          BY <5>1, <2>6, <2>12, <2>16, <4>2
      <4>5. syn = OpenSyn'
        BY <1>1, <2>16, <4>2 DEF OpenSyn, syn, c
      <4>6. OnLink(<<>>, <<OpenSyn>>)'
        BY <3>4, <2>10, <4>5 DEF OnLink
      <4> QED
        BY <4>3, <4>4, <4>6, <3>4, <2>11 DEF Lockstep, At, Agreed
    <3> QED
      BY <1>1, <3>2, <3>3, <3>4 DEF OnLink
  <2> QED
    BY <2>13, <2>14, <2>15, <2>17, <2>18 DEF HsInv
<1> QED
  BY <1>2, <1>3, <1>4

\* The responder reads OPEN SYN.
LEMMA ReceiveOpenSynStep ==
    ASSUME HsInv, ReceiveOpenSyn
    PROVE  HsInv'
<1> USE SidesFacts
<1> DEFINE m == Head(chan["r"])
           ack == OpenMsg(TRUE, cfg["r"].lease, hs["r"].mySN, None, hs["r"].qos)
           new == [hs["r"] EXCEPT !.peerSN = m.sn, !.peerLease = LeaseMillis(m)]
           refused == /\ Go("r", "failed") /\ UNCHANGED hs
                      /\ Take("r") \/ \E w \in {"generic", "self", "invalid"} :
                                          Reply("r", CloseMsg(w))
<1>1. /\ hpc["r"] = "open_syn" /\ chan["r"] # <<>>
      /\ UNCHANGED <<cfg, foreign>>
  BY DEF ReceiveOpenSyn
<1>2. \/ refused
      \/ /\ Wanted(m, "open", FALSE) /\ Reply("r", ack) /\ Keep("r", new) /\ Go("r", "done")
  BY DEF ReceiveOpenSyn
<1>3. CASE refused
  <2>1. chan' \in [Sides -> Seq(MsgType)]
    BY <1>1, <1>3, Taking, Channels, OwnTypes DEF HsInv
  <2> QED
    BY <1>1, <1>3, <2>1, FailStep
<1>4. CASE Wanted(m, "open", FALSE) /\ Reply("r", ack) /\ Keep("r", new) /\ Go("r", "done")
  <2>1. m \in OpenType
    BY <1>1, <1>4, Taking, WantedTypes DEF HsInv
  <2>2. m.sn \in Nat /\ m.lease \in Nat /\ m.seconds \in BOOLEAN /\ LeaseMillis(m) \in Nat
    BY <2>1 DEF OpenType, LeaseMillis
  <2>3. /\ hs["r"] \in ResultType /\ SideInv("r")
    BY <1>1 DEF HsInv, SideInv
  <2>4. /\ new \in ResultType
        /\ new.batch = hs["r"].batch /\ new.res = hs["r"].res /\ new.qos = hs["r"].qos
        /\ new.peer = hs["r"].peer /\ new.mySN = hs["r"].mySN
        /\ new.peerSN = m.sn /\ new.peerLease = LeaseMillis(m)
    BY <2>2, <2>3 DEF ResultType
  <2> HIDE DEF new, m
  <2>5. hs["r"].mySN \in Nat /\ hs["r"].qos \in BOOLEAN
    BY <2>3 DEF ResultType
  <2>6. ack \in MsgType
    BY <2>5, ConfigTypes, OwnTypes DEF HsInv, MsgType
  <2> HIDE DEF ack
  <2>7. /\ chan' \in [Sides -> Seq(MsgType)]
        /\ chan'["r"] = Tail(chan["r"]) /\ chan'["i"] = Append(chan["i"], ack)
    BY <1>1, <1>4, <2>6, Channels DEF HsInv
  <2>8. /\ hpc' \in [Sides -> Places] /\ hpc'["r"] = "done" /\ hpc'["i"] = hpc["i"]
    BY <1>4 DEF HsInv, HsShape, Go, Places
  <2>9. /\ hs' \in [Sides -> ResultType \cup {None}] /\ hs'["r"] = new /\ hs'["i"] = hs["i"]
    BY <1>4, <2>4 DEF HsInv, HsShape, Keep
  <2>10. HsShape'
    BY <1>1, <2>7, <2>8, <2>9 DEF HsInv, HsShape
  <2>11. PlacesInv'
    BY <1>1, <2>8 DEF HsInv, HsShape, PlacesInv
  <2>12. SideInv("i")'
    BY <1>1, <2>8, <2>9 DEF HsInv, SideInv, Modulus
  <2>13. SideInv("r")'
    BY <1>1, <2>3, <2>4, <2>9 DEF SideInv, Modulus
  <2>14. ASSUME foreign' = {} PROVE Lockstep'
    <3>1. Lockstep
      BY <1>1, <2>14 DEF HsInv
    <3>2. \/ hpc["i"] = "failed"
          \/ At("init_ack", "open_syn") /\ OnLink(<<Answer>>, <<>>) /\ Answered
          \/ At("open_ack", "open_syn") /\ OnLink(<<>>, <<OpenSyn>>) /\ Agreed
      BY <3>1, <1>1 DEF Lockstep, At
    <3>3. CASE hpc["i"] = "failed"
      BY <3>3, <2>8 DEF Lockstep
    <3>4. CASE At("open_ack", "open_syn") /\ OnLink(<<>>, <<OpenSyn>>) /\ Agreed
      <4>1. m = OpenSyn
        BY <3>4 DEF OnLink, m
      <4>2. m.sn = hs["i"].mySN /\ LeaseMillis(m) = cfg["i"].lease
        BY <4>1 DEF OpenSyn, OpenMsg, LeaseMillis
      <4>3. Agreed'
        BY <1>1, <2>4, <2>9, <3>4 DEF Agreed
      <4>4. Holds("r")'
        BY <1>1, <2>4, <2>9, <4>2 DEF Holds
      <4>5. ack = OpenAck'
        BY <1>1, <2>4, <2>9 DEF OpenAck, ack
      <4>6. OnLink(<<OpenAck>>, <<>>)'
        BY <3>4, <2>7, <4>5 DEF OnLink
      <4> QED
        BY <4>3, <4>4, <4>6, <3>4, <2>8 DEF Lockstep, At
    <3> QED
      BY <1>1, <3>2, <3>3, <3>4 DEF OnLink
  <2> QED
    BY <2>10, <2>11, <2>12, <2>13, <2>14 DEF HsInv
<1> QED
  BY <1>2, <1>3, <1>4

\* The initiator reads OPEN ACK.
LEMMA ReceiveOpenAckStep ==
    ASSUME HsInv, ReceiveOpenAck
    PROVE  HsInv'
<1> USE SidesFacts
<1> DEFINE m == Head(chan["i"])
           new == [hs["i"] EXCEPT !.peerSN = m.sn, !.peerLease = LeaseMillis(m)]
<1>1. /\ hpc["i"] = "open_ack" /\ chan["i"] # <<>> /\ Take("i")
      /\ UNCHANGED <<cfg, foreign>>
  BY DEF ReceiveOpenAck
<1>2. \/ Go("i", "failed") /\ UNCHANGED hs
      \/ Wanted(m, "open", TRUE) /\ Keep("i", new) /\ Go("i", "done")
  BY DEF ReceiveOpenAck
<1>3. /\ chan' \in [Sides -> Seq(MsgType)]
      /\ chan'["i"] = Tail(chan["i"]) /\ chan'["r"] = chan["r"]
  BY <1>1, Taking DEF HsInv
<1>4. CASE Go("i", "failed") /\ UNCHANGED hs
  BY <1>1, <1>3, <1>4, FailStep
<1>5. CASE Wanted(m, "open", TRUE) /\ Keep("i", new) /\ Go("i", "done")
  <2>1. m \in OpenType
    BY <1>1, <1>5, Taking, WantedTypes DEF HsInv
  <2>2. m.sn \in Nat /\ m.lease \in Nat /\ m.seconds \in BOOLEAN /\ LeaseMillis(m) \in Nat
    BY <2>1 DEF OpenType, LeaseMillis
  <2>3. /\ hs["i"] \in ResultType /\ SideInv("i")
    BY <1>1 DEF HsInv, SideInv
  <2>4. /\ new \in ResultType
        /\ new.batch = hs["i"].batch /\ new.res = hs["i"].res /\ new.qos = hs["i"].qos
        /\ new.peer = hs["i"].peer /\ new.mySN = hs["i"].mySN
        /\ new.peerSN = m.sn /\ new.peerLease = LeaseMillis(m)
    BY <2>2, <2>3 DEF ResultType
  <2> HIDE DEF new, m
  <2>5. /\ hpc' \in [Sides -> Places] /\ hpc'["i"] = "done" /\ hpc'["r"] = hpc["r"]
    BY <1>5 DEF HsInv, HsShape, Go, Places
  <2>6. /\ hs' \in [Sides -> ResultType \cup {None}] /\ hs'["i"] = new /\ hs'["r"] = hs["r"]
    BY <1>5, <2>4 DEF HsInv, HsShape, Keep
  <2>7. HsShape'
    BY <1>1, <1>3, <2>5, <2>6 DEF HsInv, HsShape
  <2>8. PlacesInv'
    BY <1>1, <2>5 DEF HsInv, HsShape, PlacesInv
  <2>9. SideInv("r")'
    BY <1>1, <2>5, <2>6 DEF HsInv, SideInv, Modulus
  <2>10. SideInv("i")'
    BY <1>1, <2>3, <2>4, <2>6 DEF SideInv, Modulus
  <2>11. ASSUME foreign' = {} PROVE Lockstep'
    <3>1. Lockstep
      BY <1>1, <2>11 DEF HsInv
    <3>2. \/ hpc["r"] = "failed"
          \/ At("open_ack", "open_syn") /\ OnLink(<<>>, <<OpenSyn>>) /\ Agreed
          \/ At("open_ack", "done") /\ OnLink(<<OpenAck>>, <<>>) /\ Agreed /\ Holds("r")
      BY <3>1, <1>1 DEF Lockstep, At
    <3>3. CASE hpc["r"] = "failed"
      BY <3>3, <2>5 DEF Lockstep
    <3>4. CASE At("open_ack", "done") /\ OnLink(<<OpenAck>>, <<>>) /\ Agreed /\ Holds("r")
      <4>1. m = OpenAck
        BY <3>4 DEF OnLink, m
      <4>2. m.sn = hs["r"].mySN /\ LeaseMillis(m) = cfg["r"].lease
        BY <4>1 DEF OpenAck, OpenMsg, LeaseMillis
      <4>3. Agreed'
        BY <1>1, <2>4, <2>6, <3>4 DEF Agreed
      <4>4. Holds("r")' /\ Holds("i")'
        BY <1>1, <2>4, <2>6, <3>4, <4>2 DEF Holds
      <4> QED
        BY <4>3, <4>4, <3>4, <2>5 DEF Lockstep, At
    <3> QED
      BY <1>1, <3>2, <3>3, <3>4 DEF OnLink
  <2> QED
    BY <2>7, <2>8, <2>9, <2>10, <2>11 DEF HsInv
<1> QED
  BY <1>2, <1>4, <1>5

\* Another implementation sends something.
LEMMA ForeignSendsStep ==
    ASSUME HsInv, NEW s \in Sides, NEW m \in ForeignMessages(s), ForeignSends(s, m)
    PROVE  HsInv'
<1> USE SidesFacts
<1> DEFINE next == IF hpc[s] = "second" \/ m.type = "close" THEN "failed" ELSE "second"
<1>1. /\ s \in foreign /\ hpc[s] \in {"start", "init_syn", "second"} /\ Go(s, next)
      /\ \/ Send(s, m)
         \/ chan[s] # <<>> /\ Reply(s, m)
      /\ UNCHANGED <<cfg, foreign, hs>>
  BY DEF ForeignSends
<1>2. chan' \in [Sides -> Seq(MsgType)]
  BY <1>1, ForeignTypes, Channels DEF HsInv
<1>3. next \in {"failed", "second"}
  OBVIOUS
<1> HIDE DEF next
<1>4. /\ hpc' \in [Sides -> Places] /\ hpc'[s] = next
      /\ \A t \in Sides : t # s => hpc'[t] = hpc[t]
  BY <1>1, <1>3 DEF HsInv, HsShape, Go, Places
<1>5. HsShape'
  BY <1>1, <1>2, <1>4 DEF HsInv, HsShape
<1>6. PlacesInv'
  BY <1>1, <1>3, <1>4 DEF HsInv, HsShape, PlacesInv
<1>7. \A t \in Sides : SideInv(t)'
  BY <1>1, <1>3, <1>4, SameSide DEF HsInv
<1> QED
  BY <1>1, <1>5, <1>6, <1>7 DEF HsInv

\* A multicast group starts in place of a handshake.
LEMMA StartGroupStep ==
    ASSUME HsInv, StartGroup
    PROVE  HsInv'
<1> USE SidesFacts
<1>1. /\ hpc' = [s \in Sides |-> "group"] /\ foreign = {}
      /\ UNCHANGED <<cfg, foreign, hs, chan>>
  BY DEF StartGroup
<1>2. HsShape'
  BY <1>1 DEF HsInv, HsShape, Places
<1>3. PlacesInv'
  BY <1>1 DEF PlacesInv
<1>4. \A t \in Sides : SideInv(t)'
  BY <1>1, SameSide DEF HsInv
<1>5. Lockstep'
  BY <1>1 DEF Lockstep, At
<1> QED
  BY <1>2, <1>3, <1>4, <1>5 DEF HsInv

\* A step that leaves the handshake alone.
LEMMA HsKept ==
    ASSUME HsInv, UNCHANGED hsVars
    PROVE  HsInv'
<1> USE DEF hsVars
<1>1. HsShape'
  BY DEF HsInv, HsShape
<1>2. PlacesInv'
  BY DEF HsInv, PlacesInv
<1>3. \A t \in Sides : SideInv(t)'
  BY SameSide DEF HsInv
<1>4. foreign' = {} => Lockstep'
  BY DEF HsInv, Lockstep, At, OnLink, Answered, Agreed, Holds, Offer, Answer, OpenSyn, OpenAck
<1> QED
  BY <1>1, <1>2, <1>3, <1>4 DEF HsInv

\* The handshake's invariant, for any configurations.
LEMMA HandshakeInvariant == Spec => []HsInv
<1>1. Init => HsInv
  <2> SUFFICES ASSUME Init PROVE HsInv
    OBVIOUS
  <2> USE SidesFacts DEF Init, HsInit
  <2>1. HsShape
    BY DEF HsShape, Places, Sides
  <2>2. PlacesInv
    BY DEF PlacesInv
  <2>3. \A s \in Sides : SideInv(s)
    BY DEF SideInv
  <2>4. Lockstep
    BY DEF Lockstep, At, OnLink
  <2> QED
    BY <2>1, <2>2, <2>3, <2>4 DEF HsInv
<1>2. HsInv /\ [Next]_vars => HsInv'
  <2> SUFFICES ASSUME HsInv, [Next]_vars PROVE HsInv'
    OBVIOUS
  <2>1. CASE UNCHANGED vars
    BY <2>1, HsKept DEF vars, hsVars
  <2>2. CASE SendInitSyn
    BY <2>2, SendInitSynStep
  <2>3. CASE ReceiveInitAck
    BY <2>3, ReceiveInitAckStep
  <2>4. CASE ReceiveOpenAck
    BY <2>4, ReceiveOpenAckStep
  <2>5. CASE ReceiveInitSyn
    BY <2>5, ReceiveInitSynStep
  <2>6. CASE ReceiveOpenSyn
    BY <2>6, ReceiveOpenSynStep
  <2>7. ASSUME NEW s \in Sides, ReadFails(s) PROVE HsInv'
    <3>1. /\ hpc[s] \notin {"done", "group"} /\ Go(s, "failed")
          /\ UNCHANGED <<cfg, foreign, hs, chan>>
      BY <2>7 DEF ReadFails
    <3>2. chan' \in [Sides -> Seq(MsgType)]
      BY <3>1 DEF HsInv, HsShape
    <3> QED
      BY <3>1, <3>2, FailStep
  <2>8. ASSUME NEW s \in Sides, NEW m \in ForeignMessages(s), ForeignSends(s, m) PROVE HsInv'
    BY <2>8, ForeignSendsStep
  <2>9. CASE StartGroup
    BY <2>9, StartGroupStep
  <2>10. CASE UNCHANGED hsVars
    BY <2>10, HsKept
  <2>11. CASE StartRuntimes
    BY <2>11, HsKept DEF StartRuntimes
  <2> QED
    BY <2>1, <2>2, <2>3, <2>4, <2>5, <2>6, <2>7, <2>8, <2>9, <2>10, <2>11 DEF Next, HsNext
<1> QED
  BY <1>1, <1>2, PTL DEF Spec

\* The invariant implies the agreement.
LEMMA AgreementFromInv ==
    ASSUME HsInv
    PROVE  HandshakeAgreement
<1> USE SidesFacts
<1>1. ASSUME NEW s \in Sides, Finished(s)
      PROVE  /\ hs[s].batch <= cfg[s].batch
             /\ hs[s].res.fsn <= cfg[s].res.fsn /\ hs[s].res.rid <= cfg[s].res.rid
             /\ hs[s].qos => cfg[s].qos
             /\ hs[s].peer # cfg[s].zid
             /\ hs[s].mySN < Modulus(hs[s].res)
  BY <1>1 DEF HsInv, SideInv, Finished
<1>2. ASSUME Finished("i"), Finished("r")
      PROVE  Agreed /\ Holds("i") /\ Holds("r")
  <2>1. foreign = {}
    BY <1>2 DEF HsInv, HsShape, PlacesInv, Finished
  <2> QED
    BY <1>2, <2>1 DEF HsInv, Lockstep, At, Finished
<1>3. ASSUME Finished("i"), Finished("r"), NEW s \in Sides
      PROVE  /\ hs[s].peerSN = hs[Other(s)].mySN
             /\ hs[s].mySN < Modulus(hs[s].res)
             /\ hs[s].peerLease = cfg[Other(s)].lease
             /\ hs[s].peer = cfg[Other(s)].zid
  <2>1. Finished(s)
    BY <1>3
  <2> QED
    BY <1>1, <1>2, <1>3, <2>1 DEF Agreed, Holds
<1> QED
  BY <1>1, <1>2, <1>3 DEF HandshakeAgreement, Agreed

\* For any ZenohIDs, batch sizes, resolutions, QoS settings and leases on the two
\* sides, and whatever another implementation answers: whoever finishes has
\* accepted no more than it offered, and two sides that finish agree
\* (DoHandshake, DoHandshakeResponder).
THEOREM HandshakeAgrees == Spec => []HandshakeAgreement
BY HandshakeInvariant, AgreementFromInv, PTL

-----------------------------------------------------------------------------
(* Arithmetic: least elements, which stand for induction, and remainders.  *)

\* A nonempty set of numbers has a least one.
LEMMA LeastNumber ==
    ASSUME NEW T \in SUBSET Nat, T # {}
    PROVE  \E n \in T : \A m \in T : n <= m
<1> DEFINE R == OpToRel(<, Nat)
<1>1. IsWellFoundedOn(R, Nat)
  BY NatLessThanWellFounded
<1>2. PICK x \in T : \A y \in T : ~(<<y, x>> \in R)
  <2> HIDE DEF R
  <2> QED
    BY <1>1, WFMin
<1>3. \A y \in T : ~(y < x)
  BY <1>2 DEF R, OpToRel
<1> QED
  BY <1>3

\* Quotient and remainder.
LEMMA DivMod ==
    ASSUME NEW x \in Nat, NEW m \in Nat \ {0}
    PROVE  x \div m \in Nat /\ x % m \in 0..(m-1) /\ x = m * (x \div m) + (x % m)
OBVIOUS

\* Multiples of m are at least m apart.
LEMMA MultiplesApart ==
    ASSUME NEW a \in Nat, NEW b \in Nat, NEW m \in Nat, a < b
    PROVE  m * a + m <= m * b
<1>1. PICK c \in Nat : b = a + 1 + c
  <2> WITNESS b - a - 1 \in Nat
  <2> QED
    OBVIOUS
<1>2. m * b = m * a + m + m * c
  BY <1>1
<1>3. m * c \in Nat /\ m * a \in Nat
  OBVIOUS
<1> QED
  BY <1>2, <1>3

\* The remainder is the only one in its range.
LEMMA ModUnique ==
    ASSUME NEW q \in Nat, NEW m \in Nat \ {0}, NEW r \in 0..(m-1)
    PROVE  (m * q + r) % m = r
<1>1. m * q + r \in Nat
  OBVIOUS
<1>2. PICK d \in Nat, t \in 0..(m-1) : m * q + r = m * d + t /\ (m * q + r) % m = t
  BY <1>1, DivMod
<1>3. m * d \in Nat /\ m * q \in Nat
  OBVIOUS
<1>4. ASSUME d < q PROVE FALSE
  <2>1. m * d + m <= m * q
    BY <1>4, MultiplesApart
  <2> QED
    BY <1>2, <1>3, <2>1
<1>5. ASSUME q < d PROVE FALSE
  <2>1. m * q + m <= m * d
    BY <1>5, MultiplesApart
  <2> QED
    BY <1>2, <1>3, <2>1
<1>6. q = d
  BY <1>4, <1>5
<1> QED
  BY <1>2, <1>3, <1>6

\* NextSN of a reduced number is the next number, reduced.
LEMMA NextOfMod ==
    ASSUME NEW x \in Nat, NEW m \in Nat \ {0}
    PROVE  NextSN(x % m, m) = (x + 1) % m
<1>1. PICK d \in Nat, t \in 0..(m-1) : x = m * d + t /\ x % m = t
  BY DivMod
<1>2. CASE t + 1 < m
  <2>1. (m * d + (t + 1)) % m = t + 1
    BY <1>2, ModUnique
  <2>2. (m * 0 + (t + 1)) % m = t + 1
    BY <1>2, ModUnique
  <2>3. x + 1 = m * d + (t + 1) /\ t + 1 = m * 0 + (t + 1)
    BY <1>1
  <2> QED
    BY <1>1, <2>1, <2>2, <2>3 DEF NextSN
<1>3. CASE t + 1 = m
  <2>1. (m * (d + 1) + 0) % m = 0 /\ (m * 1 + 0) % m = 0
    BY <1>3, ModUnique
  <2>2. x + 1 = m * (d + 1) + 0 /\ t + 1 = m * 1 + 0
    BY <1>1, <1>3
  <2> QED
    BY <1>1, <2>1, <2>2 DEF NextSN
<1> QED
  BY <1>2, <1>3

\* A number below the modulus is its own remainder.
LEMMA ModSmall ==
    ASSUME NEW m \in Nat \ {0}, NEW r \in 0..(m-1)
    PROVE  r % m = r
<1>1. (m * 0 + r) % m = r
  BY ModUnique
<1> QED
  BY <1>1

-----------------------------------------------------------------------------
(* Batched, the sum of the sizes in an open FRAME.                         *)

Running(b, f) == f = [n \in 0..Len(b) |-> IF n = 0 THEN 0 ELSE f[n-1] + Len(b[n])]

\* The running sum exists.
LEMMA RunningExists ==
    ASSUME NEW S, NEW b \in Seq(Seq(S))
    PROVE  \E f \in [0..Len(b) -> Nat] : Running(b, f)
<1> DEFINE L == Len(b)
           P(n) == \E f \in [0..n -> Nat] :
                     f[0] = 0 /\ \A i \in 1..n : f[i] = f[i-1] + Len(b[i])
<1>0. L \in Nat /\ \A i \in 1..L : Len(b[i]) \in Nat
  OBVIOUS
<1> HIDE DEF L
<1>1. P(0)
  <2>1. [i \in 0..0 |-> 0] \in [0..0 -> Nat]
    OBVIOUS
  <2>2. [i \in 0..0 |-> 0][0] = 0 /\ 1..0 = {}
    OBVIOUS
  <2> QED
    BY <2>1, <2>2
<1>2. ASSUME NEW n \in 0..L, n # L, P(n) PROVE P(n + 1)
  <2>1. PICK f \in [0..n -> Nat] : f[0] = 0 /\ \A i \in 1..n : f[i] = f[i-1] + Len(b[i])
    BY <1>2
  <2> DEFINE g == [i \in 0..(n+1) |-> IF i <= n THEN f[i] ELSE f[n] + Len(b[n+1])]
  <2>2. g \in [0..(n+1) -> Nat]
    BY <1>0, <2>1, <1>2
  <2>3. g[0] = 0
    BY <2>1
  <2>4. \A i \in 1..(n+1) : g[i] = g[i-1] + Len(b[i])
    BY <2>1, <1>0
  <2> QED
    BY <2>2, <2>3, <2>4
<1>3. P(L)
  <2> HIDE DEF P
  <2> DEFINE T == {n \in 0..L : ~P(n)}
  <2>1. SUFFICES ASSUME T # {} PROVE FALSE
    <3>1. L \in 0..L
      BY <1>0
    <3> QED
      BY <3>1, <2>1
  <2>2. T \in SUBSET Nat
    BY <1>0
  <2>3. PICK n \in T : \A k \in T : n <= k
    <3> HIDE DEF T
    <3> QED
      BY <2>1, <2>2, LeastNumber
  <2>4. n # 0
    BY <1>1, <2>3
  <2>5. n - 1 \in 0..L /\ n - 1 # L /\ n - 1 \notin T
    BY <2>3, <2>4, <1>0
  <2>6. P(n - 1)
    BY <2>5
  <2>7. P(n - 1 + 1)
    BY <2>5, <2>6, <1>2
  <2>8. n - 1 + 1 = n
    BY <2>3, <1>0
  <2> QED
    BY <2>3, <2>7, <2>8
<1>4. PICK f \in [0..L -> Nat] : f[0] = 0 /\ \A i \in 1..L : f[i] = f[i-1] + Len(b[i])
  BY <1>3
<1>5. f = [n \in 0..L |-> IF n = 0 THEN 0 ELSE f[n-1] + Len(b[n])]
  BY <1>4, <1>0
<1> QED
  BY <1>4, <1>5 DEF Running, L

\* Batched is the last of a running sum.
LEMMA BatchedIs ==
    ASSUME NEW S, NEW b \in Seq(Seq(S))
    PROVE  \E f : Running(b, f) /\ Batched(b) = f[Len(b)]
<1> DEFINE size == CHOOSE f : Running(b, f)
<1>1. Running(b, size)
  <2>1. \E f : Running(b, f)
    BY RunningExists
  <2> HIDE DEF Running
  <2> QED
    BY <2>1
<1>2. Batched(b) = size[Len(b)]
  BY DEF Batched, Running
<1> QED
  BY <1>1, <1>2

\* Two running sums agree on what their sequences have in common.
LEMMA RunningAgrees ==
    ASSUME NEW S, NEW b \in Seq(Seq(S)), NEW c \in Seq(Seq(S)), NEW f, NEW g,
           Running(b, f), Running(c, g), Len(b) <= Len(c),
           \A i \in 1..Len(b) : b[i] = c[i]
    PROVE  \A n \in 0..Len(b) : f[n] = g[n]
<1> DEFINE L == Len(b)
           K == Len(c)
<1>0. L \in Nat /\ K \in Nat /\ L <= K /\ \A i \in 1..L : b[i] = c[i]
  OBVIOUS
<1>1. \A n \in 0..L : f[n] = IF n = 0 THEN 0 ELSE f[n-1] + Len(b[n])
  BY DEF Running
<1>2. \A n \in 0..K : g[n] = IF n = 0 THEN 0 ELSE g[n-1] + Len(c[n])
  BY DEF Running
<1> HIDE DEF L, K
<1> DEFINE T == {n \in 0..L : f[n] # g[n]}
<1>3. SUFFICES ASSUME T # {} PROVE FALSE
  BY DEF L
<1>4. T \in SUBSET Nat
  BY <1>0
<1>5. PICK n \in T : \A k \in T : n <= k
  <2> HIDE DEF T
  <2> QED
    BY <1>3, <1>4, LeastNumber
<1>6. n \in 0..L /\ n \in 0..K /\ f[n] # g[n]
  BY <1>5, <1>0
<1>7. n # 0
  BY <1>6, <1>1, <1>2
<1>8. n - 1 \in 0..L /\ n - 1 \notin T
  BY <1>5, <1>6, <1>7, <1>0
<1>9. f[n-1] = g[n-1]
  BY <1>8
<1>10. b[n] = c[n]
  BY <1>6, <1>7, <1>0
<1> QED
  BY <1>1, <1>2, <1>6, <1>7, <1>9, <1>10

\* An empty FRAME holds nothing, and a message appended adds its size.
LEMMA BatchedFacts ==
    ASSUME NEW S
    PROVE  /\ Batched(<<>>) = 0
           /\ \A b \in Seq(Seq(S)) : Batched(b) \in Nat
           /\ \A b \in Seq(Seq(S)), m \in Seq(S) :
                 Batched(Append(b, m)) = Batched(b) + Len(m)
<1>1. Batched(<<>>) = 0
  <2>1. <<>> \in Seq(Seq(S)) /\ Len(<<>>) = 0
    OBVIOUS
  <2>2. PICK f : Running(<<>>, f) /\ Batched(<<>>) = f[Len(<<>>)]
    BY <2>1, BatchedIs
  <2>3. f[0] = 0
    BY <2>1, <2>2 DEF Running
  <2> QED
    BY <2>1, <2>2, <2>3
<1>2. ASSUME NEW b \in Seq(Seq(S)) PROVE Batched(b) \in Nat
  <2>1. PICK f : Running(b, f) /\ Batched(b) = f[Len(b)]
    BY BatchedIs
  <2>2. PICK g \in [0..Len(b) -> Nat] : Running(b, g)
    BY RunningExists
  <2>3. Len(b) \in Nat
    OBVIOUS
  <2>4. \A n \in 0..Len(b) : f[n] = g[n]
    BY <2>1, <2>2, <2>3, RunningAgrees
  <2> QED
    BY <2>1, <2>2, <2>3, <2>4
<1>3. ASSUME NEW b \in Seq(Seq(S)), NEW m \in Seq(S)
      PROVE  Batched(Append(b, m)) = Batched(b) + Len(m)
  <2> DEFINE c == Append(b, m)
  <2>1. /\ c \in Seq(Seq(S)) /\ Len(b) \in Nat /\ Len(c) = Len(b) + 1
        /\ c[Len(c)] = m /\ \A i \in 1..Len(b) : b[i] = c[i]
    OBVIOUS
  <2> HIDE DEF c
  <2>2. PICK f : Running(b, f) /\ Batched(b) = f[Len(b)]
    BY BatchedIs
  <2>3. PICK g : Running(c, g) /\ Batched(c) = g[Len(c)]
    BY <2>1, BatchedIs
  <2>4. \A n \in 0..Len(b) : f[n] = g[n]
    <3>1. Len(b) <= Len(c)
      BY <2>1
    <3> QED
      BY <2>1, <2>2, <2>3, <3>1, RunningAgrees
  <2>5. g[Len(c)] = g[Len(c) - 1] + Len(c[Len(c)])
    BY <2>1, <2>3 DEF Running
  <2>6. g[Len(c)] = f[Len(b)] + Len(m)
    BY <2>1, <2>4, <2>5
  <2> QED
    BY <2>2, <2>3, <2>6 DEF c
<1> QED
  BY <1>1, <1>2, <1>3

-----------------------------------------------------------------------------
(* What the Batcher keeps.                                                 *)

Body == Seq(Nat \X Nat)
ParType == [batch : Nat, mod : Nat \ {0}, seed : Nat, qos : BOOLEAN, stream : BOOLEAN]
BatchType == [kind : {"frame"}, lane : Lanes, sn : Nat, more : BOOLEAN, body : Seq(Body)]
             \cup [kind : {"frag"}, lane : Lanes, sn : Nat, more : BOOLEAN, body : Body]
LaneType == [seqNum : Nat, batch : Seq(Body)]

\* A batch within the negotiated size and resolution, and a lane whose open
\* FRAME will be one.
GoodBatches == {b \in BatchType : BatchSize(b) <= par.batch /\ b.sn < par.mod}
GoodLanes == {st \in LaneType :
                /\ st.seqNum < par.mod
                /\ st.batch # <<>> => HeaderSize + Batched(st.batch) <= par.batch}

Fits(lanes, batches) == lanes \in [Lanes -> GoodLanes] /\ batches \in Seq(GoodBatches)

\* On each lane SNs count up from batch to batch, and the lane continues.
Follows(s, i, j) == /\ s[i].lane = s[j].lane
                    /\ \A l \in (i+1)..(j-1) : s[l].lane # s[j].lane
LastOn(s, i) == \A l \in (i+1)..Len(s) : s[l].lane # s[i].lane
FirstOn(s, j) == \A l \in 1..(j-1) : s[l].lane # s[j].lane
Chained(s) == \A j \in 1..Len(s) : \A i \in 1..(j-1) :
                 Follows(s, i, j) => s[j].sn = NextSN(s[i].sn, par.mod)
Met(lanes, s) == \A i \in 1..Len(s) :
                    LastOn(s, i) => lanes[s[i].lane].seqNum = NextSN(s[i].sn, par.mod)
InStep(lanes, s) == Chained(s) /\ Met(lanes, s)

\* The fields of lanes and batches.
LEMMA GoodFields ==
    /\ \A st \in GoodLanes : st.seqNum \in Nat /\ st.batch \in Seq(Body) /\ st.seqNum < par.mod
    /\ \A b \in GoodBatches : b.lane \in Lanes /\ b.sn \in Nat /\ b.sn < par.mod
BY DEF GoodLanes, GoodBatches, LaneType, BatchType

\* Batches put on the link one after another: each lane's begin with the SN the
\* lane had, count up, and leave the lane at the next one.
LEMMA Emitting ==
    ASSUME NEW X, NEW s \in Seq(X), NEW t \in Seq(X), NEW old, NEW new, InStep(old, s),
           Chained(t), Met(new, t),
           \A j \in 1..Len(t) : FirstOn(t, j) => t[j].sn = old[t[j].lane].seqNum,
           \A i \in 1..Len(s) : (\A j \in 1..Len(t) : t[j].lane # s[i].lane) =>
                                   new[s[i].lane].seqNum = old[s[i].lane].seqNum
    PROVE  InStep(new, s \o t)
<1> DEFINE n == Len(s)
           u == s \o t
<1>1. /\ n \in Nat /\ Len(t) \in Nat /\ Len(u) = n + Len(t)
      /\ \A i \in 1..n : u[i] = s[i]
      /\ \A j \in 1..Len(t) : u[n + j] = t[j]
  OBVIOUS
<1>2. \A j \in (n+1)..Len(u) : j - n \in 1..Len(t) /\ u[j] = t[j - n]
  BY <1>1
<1> HIDE DEF n, u
<1>3. Chained(s) /\ Met(old, s)
  BY DEF InStep
<1>4. Chained(u)
  <2> SUFFICES ASSUME NEW j \in 1..Len(u), NEW i \in 1..(j-1), Follows(u, i, j)
               PROVE  u[j].sn = NextSN(u[i].sn, par.mod)
    BY DEF Chained
  <2>1. CASE j <= n
    <3>1. /\ j \in 1..Len(s) /\ i \in 1..(j-1) /\ u[j] = s[j] /\ u[i] = s[i]
          /\ \A l \in (i+1)..(j-1) : u[l] = s[l]
      BY <1>1, <2>1 DEF n
    <3>2. Follows(s, i, j)
      BY <3>1 DEF Follows
    <3> QED
      BY <3>1, <3>2, <1>3 DEF Chained
  <2>2. CASE j > n /\ i > n
    <3>1. /\ j - n \in 1..Len(t) /\ u[j] = t[j - n] /\ i - n \in 1..(j - n - 1) /\ u[i] = t[i - n]
      BY <1>1, <1>2, <2>2
    <3>2. ASSUME NEW l \in (i - n + 1)..(j - n - 1) PROVE t[l].lane # t[j - n].lane
      <4>1. l + n \in (i+1)..(j-1) /\ l \in 1..Len(t) /\ u[n + l] = t[l] /\ n + l = l + n
        BY <1>1, <2>2, SMTT(40)
      <4> QED
        BY <4>1, <3>1 DEF Follows
    <3>3. Follows(t, i - n, j - n)
      BY <3>1, <3>2 DEF Follows
    <3> QED
      BY <3>1, <3>3 DEF Chained
  <2>3. CASE j > n /\ i <= n
    <3>1. j - n \in 1..Len(t) /\ u[j] = t[j - n] /\ i \in 1..Len(s) /\ u[i] = s[i]
      BY <1>1, <1>2, <2>3 DEF n
    <3>2. ASSUME NEW l \in (i+1)..Len(s) PROVE s[l].lane # s[i].lane
      <4>1. l \in (i+1)..(j-1) /\ u[l] = s[l]
        BY <1>1, <2>3, SMTT(40) DEF n
      <4> QED
        BY <4>1, <3>1 DEF Follows
    <3>3. LastOn(s, i)
      BY <3>2 DEF LastOn
    <3>4. ASSUME NEW l \in 1..(j - n - 1) PROVE t[l].lane # t[j - n].lane
      <4>1. l + n \in (i+1)..(j-1) /\ l \in 1..Len(t) /\ u[n + l] = t[l] /\ n + l = l + n
        BY <1>1, <2>3
      <4> QED
        BY <4>1, <3>1 DEF Follows
    <3>5. FirstOn(t, j - n)
      BY <3>4 DEF FirstOn
    <3>6. old[s[i].lane].seqNum = NextSN(s[i].sn, par.mod)
      BY <3>1, <3>3, <1>3 DEF Met
    <3>7. t[j - n].sn = old[t[j - n].lane].seqNum
      BY <3>1, <3>5
    <3> QED
      BY <3>1, <3>6, <3>7 DEF Follows
  <2> QED
    BY <1>1, <2>1, <2>2, <2>3
<1>5. Met(new, u)
  <2> SUFFICES ASSUME NEW i \in 1..Len(u), LastOn(u, i)
               PROVE  new[u[i].lane].seqNum = NextSN(u[i].sn, par.mod)
    BY DEF Met
  <2>1. CASE i > n
    <3>1. i - n \in 1..Len(t) /\ u[i] = t[i - n]
      BY <1>1, <1>2, <2>1
    <3>2. ASSUME NEW l \in (i - n + 1)..Len(t) PROVE t[l].lane # t[i - n].lane
      <4>1. l + n \in (i+1)..Len(u) /\ l \in 1..Len(t) /\ u[n + l] = t[l] /\ n + l = l + n
        BY <1>1, <2>1
      <4> QED
        BY <4>1, <3>1 DEF LastOn
    <3>3. LastOn(t, i - n)
      BY <3>2 DEF LastOn
    <3> QED
      BY <3>1, <3>3 DEF Met
  <2>2. CASE i <= n
    <3>1. i \in 1..Len(s) /\ u[i] = s[i]
      BY <1>1, <2>2 DEF n
    <3>2. ASSUME NEW l \in (i+1)..Len(s) PROVE s[l].lane # s[i].lane
      <4>1. l \in (i+1)..Len(u) /\ u[l] = s[l]
        BY <1>1, <2>2 DEF n
      <4> QED
        BY <4>1, <3>1 DEF LastOn
    <3>3. LastOn(s, i)
      BY <3>2 DEF LastOn
    <3>4. ASSUME NEW l \in 1..Len(t) PROVE t[l].lane # s[i].lane
      <4>1. n + l \in (i+1)..Len(u) /\ u[n + l] = t[l]
        BY <1>1, <2>2
      <4> QED
        BY <4>1, <3>1 DEF LastOn
    <3>5. new[s[i].lane].seqNum = old[s[i].lane].seqNum
      BY <3>1, <3>4
    <3> QED
      BY <3>1, <3>3, <3>5, <1>3 DEF Met
  <2> QED
    BY <1>1, <2>1, <2>2
<1> QED
  BY <1>4, <1>5 DEF InStep, u

\* flushLocked: the lane's FRAME as a batch, and the lane after it.
LEMMA FlushedFacts ==
    ASSUME par \in ParType, NEW k \in Lanes, NEW st \in GoodLanes
    PROVE  /\ Flushed(st) \in GoodLanes /\ Flushed(st).batch = <<>>
           /\ st.batch = <<>> => Flushed(st).seqNum = st.seqNum
           /\ st.batch # <<>> => /\ Flushed(st).seqNum = NextSN(st.seqNum, par.mod)
                                 /\ FrameOf(k, st) \in GoodBatches
           /\ FrameOf(k, st).lane = k /\ FrameOf(k, st).sn = st.seqNum
<1>1. par.mod \in Nat \ {0} /\ st.seqNum \in Nat /\ st.seqNum < par.mod /\ st.batch \in Seq(Body)
  BY GoodFields DEF ParType
<1>2. NextSN(st.seqNum, par.mod) \in Nat /\ NextSN(st.seqNum, par.mod) < par.mod
  BY <1>1 DEF NextSN
<1>3. CASE st.batch = <<>>
  BY <1>3 DEF Flushed, FrameOf
<1>4. CASE st.batch # <<>>
  <2>1. Flushed(st) = [seqNum |-> NextSN(st.seqNum, par.mod), batch |-> <<>>]
    BY <1>4 DEF Flushed
  <2>2. Flushed(st) \in LaneType
    BY <2>1, <1>2 DEF LaneType
  <2>3. Flushed(st) \in GoodLanes
    BY <2>1, <2>2, <1>2 DEF GoodLanes
  <2>4. FrameOf(k, st) \in BatchType
    BY <1>1 DEF FrameOf, BatchType
  <2>5. BatchSize(FrameOf(k, st)) = HeaderSize + Batched(st.batch)
    BY DEF FrameOf, BatchSize
  <2>6. BatchSize(FrameOf(k, st)) <= par.batch
    BY <1>4, <2>5 DEF GoodLanes
  <2>7. FrameOf(k, st) \in GoodBatches
    BY <2>4, <2>6, <1>1 DEF FrameOf, GoodBatches
  <2> QED
    BY <1>4, <2>1, <2>3, <2>7 DEF FrameOf
<1> QED
  BY <1>3, <1>4

\* FlushLane puts at most one batch on the link.
LEMMA FlushLaneFacts ==
    ASSUME par \in ParType, NEW k \in Lanes, NEW lanes, NEW s, Fits(lanes, s)
    PROVE  LET f == FlushLane([lane |-> lanes, net |-> s], k)
           IN  /\ Fits(f.lane, f.net) /\ f.lane[k].batch = <<>>
               /\ InStep(lanes, s) => InStep(f.lane, f.net)
<1> DEFINE st == lanes[k]
           L == [lanes EXCEPT ![k] = Flushed(@)]
           N == IF st.batch = <<>> THEN s ELSE Append(s, FrameOf(k, st))
           G == GoodBatches
<1>1. /\ FlushLane([lane |-> lanes, net |-> s], k).lane = L
      /\ FlushLane([lane |-> lanes, net |-> s], k).net = N
  BY DEF FlushLane
<1>2. st \in GoodLanes /\ lanes \in [Lanes -> GoodLanes] /\ s \in Seq(G)
  BY DEF Fits
<1>3. /\ Flushed(st) \in GoodLanes /\ Flushed(st).batch = <<>>
      /\ st.batch = <<>> => Flushed(st).seqNum = st.seqNum
      /\ st.batch # <<>> => /\ Flushed(st).seqNum = NextSN(st.seqNum, par.mod)
                            /\ FrameOf(k, st) \in GoodBatches
      /\ FrameOf(k, st).lane = k /\ FrameOf(k, st).sn = st.seqNum
  BY <1>2, FlushedFacts
<1>4. /\ L \in [Lanes -> GoodLanes] /\ L[k] = Flushed(st)
      /\ \A j \in Lanes : j # k => L[j] = lanes[j]
  BY <1>2, <1>3
<1> HIDE DEF L, G
<1>5. N \in Seq(G)
  <2>1. st.batch # <<>> => FrameOf(k, st) \in G
    BY <1>3 DEF G
  <2> QED
    BY <1>2, <2>1
<1>6. ASSUME InStep(lanes, s) PROVE InStep(L, N)
  <2>1. CASE st.batch = <<>>
    <3>1. \A j \in Lanes : L[j].seqNum = lanes[j].seqNum
      BY <1>3, <1>4, <2>1
    <3>2. \A i \in 1..Len(s) : s[i].lane \in Lanes
      BY <1>2, GoodFields DEF G
    <3>3. N = s
      BY <2>1
    <3> QED
      BY <1>6, <3>1, <3>2, <3>3 DEF InStep, Met
  <2>2. CASE st.batch # <<>>
    <3> DEFINE x == FrameOf(k, st)
               t == <<x>>
    <3>1. x \in G /\ x.lane = k /\ x.sn = st.seqNum
      BY <2>2, <1>3 DEF G
    <3>2. N = s \o t
      BY <2>2, <1>2, <3>1
    <3> HIDE DEF x
    <3>3. t \in Seq(G) /\ Len(t) = 1 /\ t[1] = x
      BY <3>1
    <3> HIDE DEF t
    <3>4. Chained(t)
      BY <3>3 DEF Chained
    <3>5. Met(L, t)
      BY <2>2, <3>1, <3>3, <1>3, <1>4 DEF Met
    <3>6. \A j \in 1..Len(t) : FirstOn(t, j) => t[j].sn = lanes[t[j].lane].seqNum
      BY <3>1, <3>3
    <3>7. \A i \in 1..Len(s) : (\A j \in 1..Len(t) : t[j].lane # s[i].lane) =>
                                   L[s[i].lane].seqNum = lanes[s[i].lane].seqNum
      <4>1. \A i \in 1..Len(s) : s[i].lane \in Lanes
        BY <1>2, GoodFields DEF G
      <4> QED
        BY <4>1, <3>1, <3>3, <1>4
    <3>8. InStep(L, s \o t)
      BY <1>2, <1>6, <3>3, <3>4, <3>5, <3>6, <3>7, Emitting
    <3> QED
      BY <3>2, <3>8
  <2> QED
    BY <2>1, <2>2
<1> HIDE DEF N
<1>7. Fits(L, N) /\ L[k].batch = <<>>
  BY <1>3, <1>4, <1>5 DEF Fits, G
<1> QED
  BY <1>1, <1>6, <1>7

\* appendToLane keeps the lane's SN.
LEMMA AppendFacts ==
    ASSUME par \in ParType, NEW k \in Lanes, NEW lanes, NEW s, Fits(lanes, s), NEW msg \in Body,
           HeaderSize + Batched(lanes[k].batch) + Len(msg) <= par.batch
    PROVE  LET a == AppendToLane([lane |-> lanes, net |-> s], k, msg)
           IN  /\ Fits(a.lane, a.net)
               /\ InStep(lanes, s) => InStep(a.lane, a.net)
<1> DEFINE st == lanes[k]
           new == [st EXCEPT !.batch = Append(@, msg)]
           L == [lanes EXCEPT ![k] = new]
<1>1. /\ AppendToLane([lane |-> lanes, net |-> s], k, msg).lane = L
      /\ AppendToLane([lane |-> lanes, net |-> s], k, msg).net = s
  BY DEF AppendToLane
<1>2. st \in GoodLanes /\ lanes \in [Lanes -> GoodLanes] /\ s \in Seq(GoodBatches)
  BY DEF Fits
<1>3. st \in LaneType /\ st.seqNum \in Nat /\ st.seqNum < par.mod /\ st.batch \in Seq(Body)
  BY <1>2 DEF GoodLanes, LaneType
<1>4. new.seqNum = st.seqNum /\ new.batch = Append(st.batch, msg) /\ new \in LaneType
  <2>1. Append(st.batch, msg) \in Seq(Body)
    BY <1>3
  <2>2. new.seqNum = st.seqNum /\ new.batch = Append(st.batch, msg)
    BY <1>3 DEF LaneType
  <2> QED
    BY <1>3, <2>1 DEF LaneType
<1>5. Batched(new.batch) = Batched(st.batch) + Len(msg)
  BY <1>3, <1>4, BatchedFacts DEF Body
<1>6. Batched(st.batch) \in Nat /\ Len(msg) \in Nat /\ HeaderSize \in Nat
  BY <1>3, BatchedFacts, FramesAssumption DEF Body
<1>7. new \in GoodLanes
  <2>1. HeaderSize + Batched(new.batch) <= par.batch
    BY <1>5, <1>6
  <2> HIDE DEF new
  <2> QED
    BY <1>3, <1>4, <2>1 DEF GoodLanes
<1> HIDE DEF new
<1>8. /\ L \in [Lanes -> GoodLanes] /\ \A j \in Lanes : L[j].seqNum = lanes[j].seqNum
  BY <1>2, <1>4, <1>7
<1>9. \A i \in 1..Len(s) : s[i].lane \in Lanes
  BY <1>2, GoodFields
<1> HIDE DEF L
<1>10. InStep(lanes, s) => InStep(L, s)
  BY <1>8, <1>9 DEF InStep, Met
<1>11. Fits(L, s)
  BY <1>2, <1>8 DEF Fits
<1> QED
  BY <1>1, <1>10, <1>11

\* A message of len cells in chunks: all of it, and no chunk is empty.
LEMMA ChunkCount ==
    ASSUME NEW len \in Nat \ {0}, NEW chunk \in Nat \ {0}
    PROVE  LET count == (len + chunk - 1) \div chunk
           IN  /\ count \in Nat \ {0}
               /\ len <= chunk * count
               /\ chunk * count < len + chunk
<1> DEFINE x == len + chunk - 1
           count == x \div chunk
           r == x % chunk
<1>1. x \in Nat
  OBVIOUS
<1>2. count \in Nat /\ r \in 0..(chunk - 1) /\ x = chunk * count + r
  BY <1>1, DivMod
<1> HIDE DEF count, r
<1>3. chunk * count \in Nat
  BY <1>2
<1>4. len <= chunk * count /\ chunk * count < len + chunk
  BY <1>2, <1>3
<1>5. count # 0
  <2>1. SUFFICES ASSUME count = 0 PROVE FALSE
    OBVIOUS
  <2>2. chunk * count = 0
    BY <2>1
  <2> QED
    BY <2>2, <1>4
<1> QED
  BY <1>2, <1>4, <1>5 DEF count

\* The j-th chunk of a message is a piece of it, no longer than a chunk.
LEMMA ChunkFits ==
    ASSUME NEW msg \in Body, NEW chunk \in Nat \ {0}, NEW count \in Nat \ {0},
           Len(msg) <= chunk * count, chunk * count < Len(msg) + chunk,
           NEW j \in 1..count
    PROVE  LET body == SubSeq(msg, (j-1) * chunk + 1, IF j < count THEN j * chunk ELSE Len(msg))
           IN  body \in Body /\ Len(body) <= chunk
<1> DEFINE a == (j-1) * chunk
           b == IF j < count THEN j * chunk ELSE Len(msg)
<1>1. a \in Nat /\ j * chunk = a + chunk /\ j * chunk \in Nat
  OBVIOUS
<1>2. chunk * count \in Nat /\ Len(msg) \in Nat
  BY DEF Body
<1>3. b \in Nat /\ a + 1 <= b /\ b <= Len(msg) /\ b <= a + chunk
  <2>1. CASE j < count
    <3>1. chunk * j + chunk <= chunk * count
      BY <2>1, MultiplesApart
    <3>2. chunk * j = j * chunk
      OBVIOUS
    <3> QED
      BY <2>1, <1>1, <1>2, <3>1, <3>2
  <2>2. CASE j = count
    <3>1. chunk * count = a + chunk
      BY <2>2, <1>1
    <3> QED
      BY <2>2, <1>1, <1>2, <3>1
  <2> QED
    BY <2>1, <2>2
<1> HIDE DEF a, b
<1>4. Len(SubSeq(msg, a + 1, b)) = b - a
  BY <1>1, <1>2, <1>3 DEF Body
<1>5. SubSeq(msg, a + 1, b) \in Body
  <2>1. \A i \in (a+1)..b : i \in 1..Len(msg)
    BY <1>1, <1>2, <1>3
  <2> QED
    BY <1>1, <1>2, <1>3, <2>1, SubSeqProperties DEF Body
<1> QED
  BY <1>1, <1>3, <1>4, <1>5 DEF a, b

\* The FRAGMENTs of a message continue the lane and leave it after the last.
LEMMA FragmentFacts ==
    ASSUME par \in ParType, NEW k \in Lanes, NEW lanes, NEW s, Fits(lanes, s), NEW msg \in Body,
           Len(msg) # 0, par.batch > Overhead
    PROVE  LET f == FragmentLane([lane |-> lanes, net |-> s], k, msg)
           IN  /\ Fits(f.lane, f.net)
               /\ InStep(lanes, s) => InStep(f.lane, f.net)
<1> DEFINE st == lanes[k]
           chunk == par.batch - Overhead
           count == (Len(msg) + chunk - 1) \div chunk
           body(j) == SubSeq(msg, (j-1) * chunk + 1, IF j < count THEN j * chunk ELSE Len(msg))
           t == [j \in 1..count |->
                   [kind |-> "frag", lane |-> k, sn |-> (st.seqNum + j - 1) % par.mod,
                    more |-> j < count, body |-> body(j)]]
           new == [st EXCEPT !.seqNum = (@ + count) % par.mod]
           L == [lanes EXCEPT ![k] = new]
           G == GoodBatches
<1>1. /\ FragmentLane([lane |-> lanes, net |-> s], k, msg).lane = L
      /\ FragmentLane([lane |-> lanes, net |-> s], k, msg).net = s \o t
  BY DEF FragmentLane
<1>2. st \in GoodLanes /\ lanes \in [Lanes -> GoodLanes] /\ s \in Seq(G)
  BY DEF Fits
<1>3. /\ st \in LaneType /\ st.seqNum \in Nat /\ st.seqNum < par.mod
      /\ par.batch \in Nat /\ par.mod \in Nat \ {0}
  BY <1>2 DEF GoodLanes, LaneType, ParType
<1>4. /\ HeaderSize \in Nat /\ Overhead \in Nat /\ HeaderSize <= Overhead
      /\ Len(msg) \in Nat \ {0} /\ chunk \in Nat \ {0} /\ chunk + HeaderSize <= par.batch
  BY <1>3, FramesAssumption, SMTT(40) DEF Body
<1>5. count \in Nat \ {0} /\ Len(msg) <= chunk * count /\ chunk * count < Len(msg) + chunk
  BY <1>4, ChunkCount
<1> HIDE DEF chunk, count
<1>6. \A j \in 1..count : body(j) \in Body /\ Len(body(j)) <= chunk
  BY <1>4, <1>5, ChunkFits
<1> HIDE DEF body
<1>7. ASSUME NEW j \in 1..count PROVE t[j] \in G /\ t[j].lane = k
  <2>1. (st.seqNum + j - 1) % par.mod \in Nat /\ (st.seqNum + j - 1) % par.mod < par.mod
    <3>1. PICK n \in Nat : n = st.seqNum + j - 1
      BY <1>3, <1>5
    <3>2. PICK m \in Nat \ {0} : m = par.mod
      BY <1>3
    <3>3. n % m \in Nat /\ n % m < m
      BY DivMod
    <3> QED
      BY <3>1, <3>2, <3>3
  <2> DEFINE x == t[j]
  <2>2. /\ x.kind = "frag" /\ x.lane = k /\ x.sn = (st.seqNum + j - 1) % par.mod
        /\ x.body = body(j)
    OBVIOUS
  <2>3. x \in BatchType
    BY <2>1, <1>6 DEF BatchType
  <2> HIDE DEF x
  <2>4. BatchSize(x) = HeaderSize + Len(body(j))
    BY <2>2 DEF BatchSize
  <2>5. Len(body(j)) \in Nat
    BY <1>6 DEF Body
  <2>6. BatchSize(x) <= par.batch
    BY <2>4, <2>5, <1>3, <1>4, <1>6
  <2>7. x \in G
    BY <2>1, <2>2, <2>3, <2>6 DEF GoodBatches
  <2> QED
    BY <2>2, <2>7 DEF x
<1>8. /\ t \in Seq(G) /\ Len(t) = count
      /\ \A j \in 1..count : t[j].sn = (st.seqNum + j - 1) % par.mod /\ t[j].lane = k
  BY <1>5, <1>7
<1> HIDE DEF t
<1>9. new.seqNum = (st.seqNum + count) % par.mod /\ new \in GoodLanes
  <2>1. PICK n \in Nat : n = st.seqNum + count
    BY <1>3, <1>5
  <2>2. (st.seqNum + count) % par.mod \in Nat /\ (st.seqNum + count) % par.mod < par.mod
    <3>1. PICK m \in Nat \ {0} : m = par.mod
      BY <1>3
    <3>2. n % m \in 0..(m-1)
      BY DivMod
    <3>3. n % m \in Nat /\ n % m < m
      BY <3>2
    <3> QED
      BY <3>1, <3>3, <2>1
  <2>3. /\ new.seqNum = (st.seqNum + count) % par.mod /\ new.batch = st.batch
        /\ new \in LaneType
    BY <2>2, <1>3 DEF LaneType
  <2> HIDE DEF new
  <2> QED
    BY <2>2, <2>3, <1>2 DEF GoodLanes
<1> HIDE DEF new
<1>10. /\ L \in [Lanes -> GoodLanes] /\ L[k] = new
       /\ \A j \in Lanes : j # k => L[j] = lanes[j]
  BY <1>2, <1>9
<1> HIDE DEF L, G
<1>11. s \o t \in Seq(G)
  BY <1>2, <1>8
<1>12. ASSUME InStep(lanes, s) PROVE InStep(L, s \o t)
  <2>1. ASSUME NEW j \in 1..count
        PROVE  NextSN(t[j].sn, par.mod) = (st.seqNum + j) % par.mod
    <3>1. st.seqNum + j - 1 \in Nat /\ (st.seqNum + j - 1) + 1 = st.seqNum + j
      BY <1>3, <1>5
    <3> QED
      BY <3>1, <1>3, <1>8, NextOfMod
  <2>2. Chained(t)
    <3> SUFFICES ASSUME NEW j \in 1..Len(t), NEW i \in 1..(j-1), Follows(t, i, j)
                 PROVE  t[j].sn = NextSN(t[i].sn, par.mod)
      BY DEF Chained
    <3>1. i \in 1..count /\ j \in 1..count
      BY <1>5, <1>8
    <3>2. ~(i < j - 1)
      <4>1. SUFFICES ASSUME i < j - 1 PROVE FALSE
        OBVIOUS
      <4>2. j - 1 \in (i+1)..(j-1) /\ j - 1 \in 1..count
        BY <4>1, <3>1, <1>5
      <4> QED
        BY <4>2, <1>8, <3>1 DEF Follows
    <3>3. i = j - 1
      BY <3>1, <3>2, <1>5
    <3>4. st.seqNum + i = st.seqNum + j - 1
      BY <3>3, <1>3
    <3> QED
      BY <3>1, <3>4, <2>1, <1>8
  <2>3. Met(L, t)
    <3> SUFFICES ASSUME NEW i \in 1..Len(t), LastOn(t, i)
                 PROVE  L[t[i].lane].seqNum = NextSN(t[i].sn, par.mod)
      BY DEF Met
    <3>1. i \in 1..count
      BY <1>8
    <3>2. ~(i < count)
      <4>1. SUFFICES ASSUME i < count PROVE FALSE
        OBVIOUS
      <4>2. count \in (i+1)..Len(t) /\ count \in 1..count
        BY <4>1, <3>1, <1>5, <1>8
      <4> QED
        BY <4>2, <3>1, <1>8 DEF LastOn
    <3>3. i = count
      BY <3>1, <3>2, <1>5
    <3> QED
      BY <3>1, <3>3, <2>1, <1>8, <1>9, <1>10
  <2>4. \A j \in 1..Len(t) : FirstOn(t, j) => t[j].sn = lanes[t[j].lane].seqNum
    <3> SUFFICES ASSUME NEW j \in 1..Len(t), FirstOn(t, j)
                 PROVE  t[j].sn = lanes[t[j].lane].seqNum
      OBVIOUS
    <3>1. j \in 1..count
      BY <1>8
    <3>2. ~(1 < j)
      <4>1. SUFFICES ASSUME 1 < j PROVE FALSE
        OBVIOUS
      <4>2. 1 \in 1..(j-1) /\ 1 \in 1..count
        BY <4>1, <3>1, <1>5
      <4> QED
        BY <4>2, <3>1, <1>8 DEF FirstOn
    <3>3. j = 1
      BY <3>1, <3>2, <1>5
    <3>4. st.seqNum + j - 1 = st.seqNum /\ st.seqNum \in 0..(par.mod - 1)
      BY <3>3, <1>3
    <3>5. st.seqNum % par.mod = st.seqNum
      BY <3>4, <1>3, ModSmall
    <3> QED
      BY <3>1, <3>4, <3>5, <1>8
  <2>5. \A i \in 1..Len(s) : (\A j \in 1..Len(t) : t[j].lane # s[i].lane) =>
                                L[s[i].lane].seqNum = lanes[s[i].lane].seqNum
    <3>1. \A i \in 1..Len(s) : s[i].lane \in Lanes
      BY <1>2, GoodFields DEF G
    <3>2. 1 \in 1..Len(t) /\ t[1].lane = k
      BY <1>5, <1>8
    <3> QED
      BY <3>1, <3>2, <1>10
  <2> QED
    BY <1>2, <1>8, <1>12, <2>2, <2>3, <2>4, <2>5, Emitting
<1>13. Fits(L, s \o t)
  BY <1>10, <1>11 DEF Fits, G
<1> QED
  BY <1>1, <1>12, <1>13

\* Batcher.Enqueue of a message it can carry.
LEMMA EnqueueFacts ==
    ASSUME par \in ParType, NEW k \in Lanes, NEW lanes, NEW s, Fits(lanes, s), NEW msg \in Body,
           Len(msg) # 0, NEW express \in BOOLEAN, ~Refused(msg)
    PROVE  LET e == EnqueueTo([lane |-> lanes, net |-> s], k, msg, express)
           IN  /\ Fits(e.lane, e.net)
               /\ InStep(lanes, s) => InStep(e.lane, e.net)
<1> DEFINE w == [lane |-> lanes, net |-> s]
           f == FlushLane(w, k)
           a == AppendToLane(f, k, msg)
           full == /\ lanes[k].batch # <<>>
                   /\ HeaderSize + Batched(lanes[k].batch) + Len(msg) > par.batch
           Good(e) == /\ Fits(e.lane, e.net)
                      /\ InStep(lanes, s) => InStep(e.lane, e.net)
<1>1. \/ Len(msg) > MaxFrameBodySize /\ EnqueueTo(w, k, msg, express) = FragmentLane(f, k, msg)
      \/ Len(msg) <= MaxFrameBodySize /\ EnqueueTo(w, k, msg, express) = FlushLane(a, k)
      \/ Len(msg) <= MaxFrameBodySize /\ EnqueueTo(w, k, msg, express) = a
      \/ /\ Len(msg) <= MaxFrameBodySize /\ ~full
         /\ EnqueueTo(w, k, msg, express) = AppendToLane(w, k, msg)
  <2>1. MaxFrameBodySize \in Int /\ Len(msg) \in Nat
    BY FramesAssumption DEF MaxFrameBodySize, ParType, Body
  <2>2. CASE Len(msg) > MaxFrameBodySize
    BY <2>2 DEF EnqueueTo
  <2>3. CASE ~(Len(msg) > MaxFrameBodySize) /\ express
    BY <2>1, <2>3 DEF EnqueueTo
  <2>4. CASE ~(Len(msg) > MaxFrameBodySize) /\ ~express /\ full
    BY <2>1, <2>4 DEF EnqueueTo
  <2>5. CASE ~(Len(msg) > MaxFrameBodySize) /\ ~express /\ ~full
    BY <2>1, <2>5 DEF EnqueueTo
  <2> QED
    BY <2>2, <2>3, <2>4, <2>5
<1>2. Fits(f.lane, f.net) /\ f.lane[k].batch = <<>> /\ Good(f)
  BY FlushLaneFacts
<1>3. f = [lane |-> f.lane, net |-> f.net]
  BY DEF FlushLane
<1>4. /\ HeaderSize \in Nat /\ Overhead \in Nat /\ HeaderSize <= Overhead
      /\ Len(msg) \in Nat \ {0} /\ par.batch \in Nat
  BY FramesAssumption DEF ParType, Body
<1> HIDE DEF f
<1>5. ASSUME Len(msg) > MaxFrameBodySize PROVE Good(FragmentLane(f, k, msg))
  <2>1. par.batch > Overhead
    BY <1>5, <1>4 DEF Refused
  <2>2. LET e == FragmentLane([lane |-> f.lane, net |-> f.net], k, msg)
        IN  /\ Fits(e.lane, e.net)
            /\ InStep(f.lane, f.net) => InStep(e.lane, e.net)
    BY <1>2, <2>1, FragmentFacts
  <2> QED
    BY <1>2, <1>3, <2>2
<1>6. ASSUME Len(msg) <= MaxFrameBodySize PROVE Good(a) /\ Good(FlushLane(a, k))
  <2>1. HeaderSize + Batched(f.lane[k].batch) + Len(msg) <= par.batch
    BY <1>2, <1>4, <1>6, BatchedFacts DEF MaxFrameBodySize
  <2>2. LET e == AppendToLane([lane |-> f.lane, net |-> f.net], k, msg)
        IN  /\ Fits(e.lane, e.net)
            /\ InStep(f.lane, f.net) => InStep(e.lane, e.net)
    BY <1>2, <2>1, AppendFacts
  <2>3. Good(a)
    BY <1>2, <1>3, <2>2
  <2>4. a = [lane |-> a.lane, net |-> a.net]
    BY DEF AppendToLane
  <2> HIDE DEF a
  <2>5. LET e == FlushLane([lane |-> a.lane, net |-> a.net], k)
        IN  /\ Fits(e.lane, e.net)
            /\ InStep(a.lane, a.net) => InStep(e.lane, e.net)
    BY <2>3, FlushLaneFacts
  <2> QED
    BY <2>3, <2>4, <2>5
<1>7. ASSUME Len(msg) <= MaxFrameBodySize, ~full PROVE Good(AppendToLane(w, k, msg))
  <2>1. HeaderSize + Batched(lanes[k].batch) + Len(msg) <= par.batch
    <3>1. lanes[k].batch \in Seq(Body)
      BY GoodFields DEF Fits
    <3>2. Batched(lanes[k].batch) \in Nat
      BY <3>1, BatchedFacts DEF Body
    <3>3. CASE lanes[k].batch = <<>>
      BY <3>3, <1>4, <1>7, BatchedFacts DEF MaxFrameBodySize
    <3>4. CASE lanes[k].batch # <<>>
      BY <3>2, <3>4, <1>4, <1>7
    <3> QED
      BY <3>3, <3>4
  <2> QED
    BY <2>1, AppendFacts
<1> HIDE DEF Good, a, w, full
<1>8. Good(EnqueueTo(w, k, msg, express))
  BY <1>1, <1>5, <1>6, <1>7
<1> QED
  BY <1>8 DEF Good, w

\* Taking the first batch off the link.
LEMMA TailInStep ==
    ASSUME NEW X, NEW s \in Seq(X), s # <<>>, NEW lanes, InStep(lanes, s)
    PROVE  InStep(lanes, Tail(s))
<1> DEFINE t == Tail(s)
<1>1. /\ Len(s) \in Nat /\ Len(t) \in Nat /\ Len(s) = Len(t) + 1
      /\ \A i \in 1..Len(t) : t[i] = s[i + 1]
  OBVIOUS
<1> HIDE DEF t
<1>2. Chained(t)
  <2> SUFFICES ASSUME NEW j \in 1..Len(t), NEW i \in 1..(j-1), Follows(t, i, j)
               PROVE  t[j].sn = NextSN(t[i].sn, par.mod)
    BY DEF Chained
  <2>1. /\ j + 1 \in 1..Len(s) /\ i + 1 \in 1..(j + 1 - 1) /\ t[j] = s[j + 1] /\ t[i] = s[i + 1]
    BY <1>1
  <2>2. ASSUME NEW l \in (i + 1 + 1)..(j + 1 - 1) PROVE s[l].lane # s[j + 1].lane
    <3>1. l - 1 \in (i+1)..(j-1) /\ l - 1 \in 1..Len(t) /\ t[l - 1] = s[l - 1 + 1] /\ l - 1 + 1 = l
      BY <1>1
    <3> QED
      BY <3>1, <2>1 DEF Follows
  <2>3. Follows(s, i + 1, j + 1)
    BY <2>1, <2>2 DEF Follows
  <2> QED
    BY <2>1, <2>3 DEF InStep, Chained
<1>3. Met(lanes, t)
  <2> SUFFICES ASSUME NEW i \in 1..Len(t), LastOn(t, i)
               PROVE  lanes[t[i].lane].seqNum = NextSN(t[i].sn, par.mod)
    BY DEF Met
  <2>1. i + 1 \in 1..Len(s) /\ t[i] = s[i + 1]
    BY <1>1
  <2>2. ASSUME NEW l \in (i + 1 + 1)..Len(s) PROVE s[l].lane # s[i + 1].lane
    <3>1. l - 1 \in (i+1)..Len(t) /\ l - 1 \in 1..Len(t) /\ t[l - 1] = s[l - 1 + 1] /\ l - 1 + 1 = l
      BY <1>1
    <3> QED
      BY <3>1, <2>1 DEF LastOn
  <2>3. LastOn(s, i + 1)
    BY <2>2 DEF LastOn
  <2> QED
    BY <2>1, <2>3 DEF InStep, Met
<1> QED
  BY <1>2, <1>3 DEF InStep, t

-----------------------------------------------------------------------------
(* The invariant of the Batcher and the link.                              *)

\* The Batcher is made from what both sides agreed on.
MadeFromAgreement ==
    par.batch > 0 => /\ hpc["i"] \in {"done", "group"}
                     /\ par.batch <= cfg["i"].batch /\ par.batch <= cfg["r"].batch
                     /\ par.mod <= Modulus(cfg["r"].res)

FramesInv ==
    /\ par \in ParType
    /\ faults \in Nat
    /\ Fits(lane, net)
    /\ faults = 0 => InStep(lane, net)
    /\ MadeFromAgreement

\* A handshake that is over stays as it is.
LEMMA HandshakeOver ==
    ASSUME HsInv, HsNext, hpc["i"] \in {"done", "group"}
    PROVE  hpc'["i"] = hpc["i"]
<1> USE SidesFacts
<1>1. "i" \notin foreign
  BY DEF HsInv, HsShape, PlacesInv
<1>2. hpc \in [Sides -> Places]
  BY DEF HsInv, HsShape
<1>3. ~SendInitSyn /\ ~ReceiveInitAck /\ ~ReceiveOpenAck /\ ~ReadFails("i")
  BY DEF SendInitSyn, ReceiveInitAck, ReceiveOpenAck, ReadFails
<1>4. \A m : ~ForeignSends("i", m)
  BY <1>1 DEF ForeignSends
<1>5. ASSUME NEW p, Go("r", p) PROVE hpc'["i"] = hpc["i"]
  BY <1>2, <1>5 DEF Go
<1>6. CASE ReceiveInitSyn
  BY <1>5, <1>6 DEF ReceiveInitSyn, OnInitSyn
<1>7. CASE ReceiveOpenSyn
  BY <1>5, <1>7 DEF ReceiveOpenSyn
<1>8. CASE ReadFails("r")
  BY <1>5, <1>8 DEF ReadFails
<1>9. ASSUME NEW m, ForeignSends("r", m) PROVE hpc'["i"] = hpc["i"]
  BY <1>5, <1>9 DEF ForeignSends
<1> QED
  BY <1>3, <1>4, <1>6, <1>7, <1>8, <1>9 DEF HsNext

\* No handshake step changes a configuration.
LEMMA ConfigKept ==
    ASSUME HsNext
    PROVE  cfg' = cfg
BY DEF HsNext, SendInitSyn, ReceiveInitAck, ReceiveOpenAck, ReceiveInitSyn, ReceiveOpenSyn,
       ReadFails, ForeignSends

\* Steps that keep what the Batcher was made with.
LEMMA MadeKept ==
    ASSUME MadeFromAgreement, par' = par, cfg' = cfg,
           hpc["i"] \in {"done", "group"} => hpc'["i"] = hpc["i"]
    PROVE  MadeFromAgreement'
BY DEF MadeFromAgreement, Modulus

\* With the parameters unchanged, so are the batches and lanes that are good.
LEMMA SamePar ==
    ASSUME par \in ParType, par' = par, Fits(lane', net')
    PROVE  /\ (par \in ParType)' /\ Fits(lane, net)'
           /\ InStep(lane', net') => InStep(lane, net)'
<1>1. GoodBatches' = GoodBatches /\ GoodLanes' = GoodLanes
  BY DEF GoodBatches, GoodLanes, BatchSize, Batched
<1>2. Fits(lane, net)'
  BY <1>1 DEF Fits
<1>3. InStep(lane', net') => InStep(lane, net)'
  BY DEF InStep, Chained, Met, Follows, LastOn
<1> QED
  BY <1>2, <1>3

\* Nothing is on the link before the Batcher is made.
LEMMA NothingYet ==
    ASSUME par.batch = 0, Fits(lane, net)
    PROVE  net = <<>>
<1> SUFFICES ASSUME net # <<>> PROVE FALSE
  OBVIOUS
<1>1. net[1] \in GoodBatches
  BY DEF Fits
<1> DEFINE b == net[1]
<1>2. b \in BatchType /\ BatchSize(b) <= 0
  BY <1>1 DEF GoodBatches
<1> HIDE DEF b
<1>3. \/ b.kind = "frame" /\ b.body \in Seq(Body)
      \/ b.kind = "frag" /\ b.body \in Body
  BY <1>2 DEF BatchType
<1>4. HeaderSize \in Nat \ {0}
  BY FramesAssumption
<1>5. CASE b.kind = "frame" /\ b.body \in Seq(Body)
  <2>1. Batched(b.body) \in Nat
    BY <1>5, BatchedFacts DEF Body
  <2> QED
    BY <1>2, <1>4, <1>5, <2>1 DEF BatchSize
<1>6. CASE b.kind = "frag" /\ b.body \in Body
  <2>1. Len(b.body) \in Nat
    BY <1>6 DEF Body
  <2> QED
    BY <1>2, <1>4, <1>6, <2>1 DEF BatchSize
<1> QED
  BY <1>3, <1>5, <1>6

\* NewBatcher, over an empty link.
LEMMA StartStep ==
    ASSUME FramesInv, net = <<>>, NEW p \in ParType, p.seed < p.mod, FramesStart(p)
    PROVE  /\ (par \in ParType)' /\ (faults \in Nat)' /\ Fits(lane, net)'
           /\ InStep(lane, net)'
<1>1. /\ par' = p /\ lane' = [k \in Lanes |-> [seqNum |-> p.seed, batch |-> <<>>]]
      /\ net' = <<>> /\ faults' = faults
  BY DEF FramesStart
<1>2. p.seed \in Nat
  BY DEF ParType
<1>3. [seqNum |-> p.seed, batch |-> <<>>] \in LaneType
  BY <1>2 DEF LaneType
<1>4. [seqNum |-> p.seed, batch |-> <<>>] \in GoodLanes'
  BY <1>1, <1>3 DEF GoodLanes
<1>5. Fits(lane, net)'
  BY <1>1, <1>4 DEF Fits
<1>6. InStep(lane, net)'
  BY <1>1 DEF InStep, Chained, Met
<1> QED
  BY <1>1, <1>5, <1>6 DEF FramesInv

\* Session.Run makes the Batcher from the two results.
LEMMA StartRuntimesStep ==
    ASSUME HsInv, FramesInv, StartRuntimes
    PROVE  FramesInv'
<1> USE SidesFacts
<1> DEFINE p == [batch |-> hs["i"].batch, mod |-> Modulus(hs["i"].res),
                 seed |-> hs["i"].mySN, qos |-> hs["i"].qos, stream |-> TRUE]
<1>1. /\ Finished("i") /\ Finished("r") /\ par.batch = 0 /\ FramesStart(p) /\ UNCHANGED hsVars
  BY DEF StartRuntimes
<1>2. HandshakeAgreement
  BY AgreementFromInv
<1>3. hs["i"] \in ResultType /\ hs["r"] \in ResultType
  BY <1>1 DEF HsInv, SideInv, Finished
<1>4. /\ hs["i"].batch \in Nat /\ hs["i"].res \in ResType /\ hs["i"].mySN \in Nat
      /\ hs["i"].qos \in BOOLEAN
  BY <1>3 DEF ResultType
<1>5. Modulus(hs["i"].res) \in Nat \ {0} /\ hs["i"].mySN < Modulus(hs["i"].res)
  BY <1>1, <1>2, <1>4, Moduli DEF HandshakeAgreement
<1>6. p \in ParType /\ p.seed < p.mod
  BY <1>4, <1>5 DEF ParType
<1>7. /\ hs["i"].batch <= cfg["i"].batch /\ hs["i"].batch <= cfg["r"].batch
  BY <1>1, <1>2 DEF HandshakeAgreement
<1>8. Modulus(hs["i"].res) <= Modulus(cfg["r"].res)
  <2>1. hs["i"].res.fsn <= cfg["r"].res.fsn
    BY <1>1, <1>2 DEF HandshakeAgreement
  <2>2. cfg["r"].res \in ResType
    BY ConfigTypes DEF HsInv
  <2> QED
    BY <2>1, <2>2, <1>4, Moduli
<1>9. net = <<>>
  BY <1>1, NothingYet DEF FramesInv
<1>10. par' = p
  BY <1>1 DEF FramesStart
<1>11. MadeFromAgreement'
  BY <1>1, <1>7, <1>8, <1>10 DEF MadeFromAgreement, hsVars, Finished, Modulus
<1> HIDE DEF p
<1>12. (par \in ParType)' /\ (faults \in Nat)' /\ Fits(lane, net)' /\ InStep(lane, net)'
  BY <1>1, <1>6, <1>9, StartStep
<1> QED
  BY <1>11, <1>12 DEF FramesInv

\* StartMulticastPeer makes it from the one configuration.
LEMMA StartGroupFrames ==
    ASSUME HsInv, FramesInv, StartGroup
    PROVE  FramesInv'
<1> USE SidesFacts
<1> DEFINE p == [batch |-> cfg["i"].batch, mod |-> Modulus(cfg["i"].res),
                 seed |-> 0, qos |-> TRUE, stream |-> FALSE]
<1>1. /\ hpc["i"] = "start" /\ cfg["i"] = cfg["r"] /\ FramesStart(p)
      /\ hpc' = [s \in Sides |-> "group"] /\ cfg' = cfg
  BY DEF StartGroup
<1>2. cfg["i"].batch \in Nat /\ cfg["i"].res \in ResType
  BY ConfigTypes DEF HsInv
<1>3. Modulus(cfg["i"].res) \in Nat \ {0}
  BY <1>2, Moduli
<1>4. p \in ParType /\ p.seed < p.mod
  BY <1>2, <1>3 DEF ParType
<1>5. par.batch = 0
  <2>1. par.batch \in Nat
    BY DEF FramesInv, ParType
  <2> QED
    BY <1>1, <2>1 DEF FramesInv, MadeFromAgreement
<1>6. net = <<>>
  BY <1>5, NothingYet DEF FramesInv
<1>7. par' = p
  BY <1>1 DEF FramesStart
<1>8. MadeFromAgreement'
  BY <1>1, <1>2, <1>3, <1>7 DEF MadeFromAgreement, Modulus
<1> HIDE DEF p
<1>9. (par \in ParType)' /\ (faults \in Nat)' /\ Fits(lane, net)' /\ InStep(lane, net)'
  BY <1>1, <1>4, <1>6, StartStep
<1> QED
  BY <1>8, <1>9 DEF FramesInv

\* handleItem of a message.
LEMMA EnqueueMsgStep ==
    ASSUME FramesInv, NEW k \in Lanes, NEW n \in Sizes, NEW x \in BOOLEAN,
           EnqueueMsg(k, n, x), UNCHANGED hsVars, sent \in Seq([lane : Lanes, size : Sizes])
    PROVE  FramesInv'
<1> DEFINE msg == Cells(Len(sent) + 1, n)
           w == EnqueueTo([lane |-> lane, net |-> net], k, msg, x)
           f == FlushLane([lane |-> lane, net |-> net], k)
<1>1. /\ par' = par /\ faults' = faults
      /\ \/ lane' = f.lane /\ net' = f.net
         \/ ~Refused(msg) /\ lane' = w.lane /\ net' = w.net
  BY DEF EnqueueMsg
<1>2. msg \in Body /\ Len(msg) # 0
  <2>1. n \in Nat \ {0} /\ Len(sent) + 1 \in Nat
    BY FramesAssumption
  <2> QED
    BY <2>1 DEF Cells, Body
<1> HIDE DEF msg
<1>3. /\ par \in ParType /\ Fits(lane, net) /\ (faults = 0 => InStep(lane, net))
      /\ faults \in Nat /\ MadeFromAgreement
  BY DEF FramesInv
<1>4. Fits(f.lane, f.net) /\ (InStep(lane, net) => InStep(f.lane, f.net))
  BY <1>3, FlushLaneFacts
<1>5. ~Refused(msg) => Fits(w.lane, w.net) /\ (InStep(lane, net) => InStep(w.lane, w.net))
  BY <1>2, <1>3, EnqueueFacts
<1> HIDE DEF f, w
<1>6. Fits(lane', net') /\ (InStep(lane, net) => InStep(lane', net'))
  BY <1>1, <1>4, <1>5
<1>7. (par \in ParType)' /\ Fits(lane, net)' /\ (faults' = 0 => InStep(lane, net)')
  BY <1>1, <1>3, <1>6, SamePar
<1>8. MadeFromAgreement'
  BY <1>1, <1>3, MadeKept DEF hsVars
<1> QED
  BY <1>1, <1>3, <1>7, <1>8 DEF FramesInv

\* FlushAll: one FRAME of every open lane.
LEMMA FlushAllStep ==
    ASSUME FramesInv, FlushAll, UNCHANGED hsVars
    PROVE  FramesInv'
<1> DEFINE S == {k \in Lanes : lane[k].batch # <<>>}
           G == GoodBatches
<1>1. PICK open \in InIndexOrder(S) :
        /\ net' = net \o [j \in DOMAIN open |-> FrameOf(open[j], lane[open[j]])]
        /\ lane' = [k \in Lanes |-> Flushed(lane[k])]
        /\ par' = par /\ faults' = faults
  BY DEF FlushAll
<1>2. PICK n \in Nat : n = Cardinality(S)
  BY FramesAssumption, FS_Subset, FS_CardinalityType
<1>3. /\ open \in [1..n -> S]
      /\ \A i, j \in 1..n : i < j => LaneBefore(open[i], open[j])
      /\ \A k \in S : \E i \in 1..n : open[i] = k
  BY <1>2 DEF InIndexOrder
<1>4. \A j \in 1..n : open[j] \in Lanes /\ lane[open[j]].batch # <<>>
  BY <1>3
<1>5. \A k \in Lanes : lane[k].batch # <<>> => \E i \in 1..n : open[i] = k
  BY <1>3
<1>6. \A i, j \in 1..n : i < j => open[i] # open[j]
  <2>1. \A k \in Lanes : ~LaneBefore(k, k)
    BY FramesAssumption DEF LaneBefore
  <2> QED
    BY <2>1, <1>3, <1>4
<1>7. /\ par \in ParType /\ lane \in [Lanes -> GoodLanes] /\ net \in Seq(G)
      /\ (faults = 0 => InStep(lane, net)) /\ faults \in Nat /\ MadeFromAgreement
  BY DEF FramesInv, Fits
<1> DEFINE t == [j \in 1..n |-> FrameOf(open[j], lane[open[j]])]
           L == [k \in Lanes |-> Flushed(lane[k])]
<1>8. net' = net \o t /\ lane' = L
  BY <1>1, <1>3
<1>9. ASSUME NEW j \in 1..n
      PROVE  /\ t[j] \in G /\ t[j].lane = open[j] /\ t[j].sn = lane[open[j]].seqNum
             /\ L[open[j]].seqNum = NextSN(t[j].sn, par.mod)
  <2> DEFINE k == open[j]
  <2>1. k \in Lanes /\ lane[k] \in GoodLanes /\ lane[k].batch # <<>>
    BY <1>4, <1>7
  <2>2. t[j] = FrameOf(k, lane[k]) /\ L[k] = Flushed(lane[k])
    BY <2>1
  <2> HIDE DEF k, t, L
  <2>3. /\ FrameOf(k, lane[k]) \in GoodBatches /\ Flushed(lane[k]).seqNum = NextSN(lane[k].seqNum, par.mod)
        /\ FrameOf(k, lane[k]).lane = k /\ FrameOf(k, lane[k]).sn = lane[k].seqNum
    BY <2>1, <1>7, FlushedFacts
  <2> QED
    BY <2>2, <2>3 DEF k
<1>10. t \in Seq(G) /\ Len(t) = n
  <2>1. t \in [1..n -> G]
    BY <1>9
  <2> HIDE DEF t, G
  <2> QED
    BY <2>1
<1>11. L \in [Lanes -> GoodLanes]
  BY <1>7, FlushedFacts
<1>12. ASSUME NEW k \in Lanes, \A j \in 1..n : open[j] # k
       PROVE  L[k].seqNum = lane[k].seqNum
  <2>1. lane[k].batch = <<>> /\ lane[k] \in GoodLanes
    BY <1>5, <1>7, <1>12
  <2> QED
    BY <2>1, <1>7, FlushedFacts
<1> HIDE DEF t, L, G
<1>13. net \o t \in Seq(G)
  BY <1>7, <1>10
<1>14. InStep(lane, net) => InStep(L, net \o t)
  <2> SUFFICES ASSUME InStep(lane, net) PROVE InStep(L, net \o t)
    OBVIOUS
  <2>1. \A i, j \in 1..Len(t) : i < j => t[i].lane # t[j].lane
    BY <1>6, <1>9, <1>10
  <2>2. Chained(t)
    BY <2>1, <1>2, <1>10 DEF Chained, Follows
  <2>3. Met(L, t)
    BY <1>9, <1>10 DEF Met
  <2>4. \A j \in 1..Len(t) : FirstOn(t, j) => t[j].sn = lane[t[j].lane].seqNum
    BY <1>9, <1>10
  <2>5. \A i \in 1..Len(net) : (\A j \in 1..Len(t) : t[j].lane # net[i].lane) =>
                                 L[net[i].lane].seqNum = lane[net[i].lane].seqNum
    <3>1. \A i \in 1..Len(net) : net[i].lane \in Lanes
      BY <1>7, GoodFields DEF G
    <3> QED
      BY <3>1, <1>9, <1>10, <1>12
  <2> QED
    BY <1>7, <1>10, <2>2, <2>3, <2>4, <2>5, Emitting
<1>15. Fits(lane', net') /\ (InStep(lane, net) => InStep(lane', net'))
  BY <1>8, <1>11, <1>13, <1>14 DEF Fits, G
<1>16. (par \in ParType)' /\ Fits(lane, net)' /\ (faults' = 0 => InStep(lane, net)')
  BY <1>1, <1>7, <1>15, SamePar
<1>17. MadeFromAgreement'
  BY <1>1, <1>7, MadeKept DEF hsVars
<1> QED
  BY <1>1, <1>7, <1>16, <1>17 DEF FramesInv

\* A batch leaves the link: the first in order, or with a fault.
LEMMA LeaveStep ==
    ASSUME FramesInv, net # <<>>, par' = par, lane' = lane, UNCHANGED hsVars,
           \/ net' = Tail(net) /\ faults' \in {faults, faults + 1}
           \/ net' \in Seq(GoodBatches) /\ faults' = faults + 1
    PROVE  FramesInv'
<1> DEFINE G == GoodBatches
<1>1. /\ par \in ParType /\ lane \in [Lanes -> GoodLanes] /\ net \in Seq(G)
      /\ (faults = 0 => InStep(lane, net)) /\ faults \in Nat /\ MadeFromAgreement
  BY DEF FramesInv, Fits
<1> HIDE DEF G
<1>2. net' \in Seq(G) /\ faults' \in Nat
  BY <1>1 DEF G
<1>3. faults' = 0 => InStep(lane', net')
  <2>1. SUFFICES ASSUME faults' = 0 PROVE InStep(lane', net')
    OBVIOUS
  <2>2. faults = 0 /\ net' = Tail(net)
    BY <1>1, <2>1
  <2> QED
    BY <1>1, <2>2, TailInStep
<1>4. Fits(lane', net')
  BY <1>1, <1>2 DEF Fits, G
<1>5. (par \in ParType)' /\ Fits(lane, net)' /\ (faults' = 0 => InStep(lane, net)')
  BY <1>1, <1>3, <1>4, SamePar
<1>6. MadeFromAgreement'
  BY <1>1, MadeKept DEF hsVars
<1> QED
  BY <1>2, <1>5, <1>6 DEF FramesInv

\* processBatch takes its batch off the link.
LEMMA ReceiveStep ==
    ASSUME FramesInv, NEW i \in 1..2, Receive(i), UNCHANGED hsVars
    PROVE  FramesInv'
<1> DEFINE G == GoodBatches
<1>1. /\ i \in 1..Len(net) /\ net' = Without(net, i)
      /\ faults' = (IF i = 2 THEN faults + 1 ELSE faults)
      /\ par' = par /\ lane' = lane
  BY DEF Receive
<1>2. net \in Seq(G)
  BY DEF FramesInv, Fits
<1> HIDE DEF G
<1>3. net # <<>>
  BY <1>1, <1>2
<1>4. CASE i = 1
  <2>1. net' = SubSeq(net, 1, 0) \o SubSeq(net, 2, Len(net))
    BY <1>1, <1>4 DEF Without
  <2>2. net' = Tail(net)
    BY <1>2, <1>3, <2>1
  <2> QED
    BY <1>1, <1>3, <1>4, <2>2, LeaveStep
<1>5. CASE i = 2
  <2>1. net' = SubSeq(net, 1, 1) \o SubSeq(net, 3, Len(net)) /\ Len(net) >= 2 /\ Len(net) \in Nat
    BY <1>1, <1>2, <1>5 DEF Without
  <2>2. SubSeq(net, 1, 1) \in Seq(G)
    BY <1>2, <2>1, SubSeqProperties
  <2>3. SubSeq(net, 3, Len(net)) \in Seq(G)
    BY <1>2, <2>1, SubSeqProperties
  <2>4. net' \in Seq(G)
    BY <2>1, <2>2, <2>3
  <2> QED
    BY <1>1, <1>3, <1>5, <2>4, LeaveStep DEF G
<1> QED
  BY <1>4, <1>5

\* The messages sent so far are of known lanes and sizes.
SentType == sent \in Seq([lane : Lanes, size : Sizes])

LinkInv == HsInv /\ FramesInv /\ SentType

\* The invariant of the whole link.
LEMMA LinkInvariant == Spec => []LinkInv
<1>1. Init => FramesInv /\ SentType
  <2> SUFFICES ASSUME Init PROVE FramesInv /\ SentType
    OBVIOUS
  <2>1. /\ par = [batch |-> 0, mod |-> 1, seed |-> 0, qos |-> FALSE, stream |-> TRUE]
        /\ sent = <<>> /\ net = <<>> /\ faults = 0
        /\ lane = [k \in Lanes |-> [seqNum |-> 0, batch |-> <<>>]]
    BY DEF Init, FramesInit
  <2>2. par \in ParType
    BY <2>1 DEF ParType
  <2>3. [seqNum |-> 0, batch |-> <<>>] \in LaneType
    BY DEF LaneType
  <2>4. [seqNum |-> 0, batch |-> <<>>] \in GoodLanes
    BY <2>1, <2>3 DEF GoodLanes
  <2>5. Fits(lane, net)
    BY <2>1, <2>4 DEF Fits
  <2>6. InStep(lane, net)
    BY <2>1 DEF InStep, Chained, Met
  <2>7. MadeFromAgreement
    BY <2>1 DEF MadeFromAgreement
  <2>8. SentType
    BY <2>1 DEF SentType
  <2> QED
    BY <2>1, <2>2, <2>5, <2>6, <2>7, <2>8 DEF FramesInv
<1>2. HsInv /\ FramesInv /\ SentType /\ [Next]_vars => FramesInv' /\ SentType'
  <2> SUFFICES ASSUME HsInv, FramesInv, SentType, [Next]_vars PROVE FramesInv' /\ SentType'
    OBVIOUS
  <2>1. ASSUME UNCHANGED <<par, lane, net, faults>>, cfg' = cfg,
               hpc["i"] \in {"done", "group"} => hpc'["i"] = hpc["i"]
        PROVE  FramesInv'
    <3>1. Fits(lane', net')
      BY <2>1 DEF FramesInv
    <3>2. MadeFromAgreement'
      BY <2>1, MadeKept DEF FramesInv
    <3>3. InStep(lane, net) => InStep(lane', net')
      BY <2>1
    <3> QED
      BY <2>1, <3>1, <3>2, <3>3, SamePar DEF FramesInv
  <2>2. CASE UNCHANGED vars
    BY <2>2, <2>1 DEF vars, hsVars, frameVars, SentType
  <2>3. CASE HsNext /\ UNCHANGED frameVars
    BY <2>3, <2>1, HandshakeOver, ConfigKept DEF frameVars, SentType
  <2>4. CASE StartRuntimes
    BY <2>4, StartRuntimesStep DEF StartRuntimes, FramesStart, SentType
  <2>5. CASE StartGroup
    BY <2>5, StartGroupFrames DEF StartGroup, FramesStart, SentType
  <2>6. ASSUME NEW k \in Lanes, NEW n \in Sizes, NEW x \in BOOLEAN, EnqueueMsg(k, n, x),
               UNCHANGED hsVars
        PROVE  FramesInv' /\ SentType'
    <3>1. sent' = Append(sent, [lane |-> k, size |-> n])
      BY <2>6 DEF EnqueueMsg
    <3>2. SentType'
      BY <3>1 DEF SentType
    <3> QED
      BY <2>6, <3>2, EnqueueMsgStep DEF SentType
  <2>7. CASE FlushAll /\ UNCHANGED hsVars
    BY <2>7, FlushAllStep DEF FlushAll, SentType
  <2>8. ASSUME NEW i \in 1..2, Receive(i), UNCHANGED hsVars PROVE FramesInv' /\ SentType'
    BY <2>8, ReceiveStep DEF Receive, SentType
  <2>9. CASE LoseBatch /\ UNCHANGED hsVars
    BY <2>9, LeaveStep DEF LoseBatch, SentType
  <2> QED
    BY <2>2, <2>3, <2>4, <2>5, <2>6, <2>7, <2>8, <2>9 DEF Next, FramesNext
<1> QED
  BY <1>1, <1>2, HandshakeInvariant, PTL DEF Spec, LinkInv

\* For any lanes, batch sizes, resolutions and messages, every FRAME and FRAGMENT
\* is within the smaller of the two batch sizes and carries an SN that the
\* receiver's resolution can express (Batcher.Enqueue, fragmentLocked).
THEOREM BatchesFit == Spec => []FitsReceiver
<1>1. LinkInv => FitsReceiver
  <2> SUFFICES ASSUME LinkInv, NEW i \in DOMAIN net
               PROVE  /\ BatchSize(net[i]) <= LeastOf(cfg["i"].batch, cfg["r"].batch)
                      /\ net[i].sn < Modulus(cfg["r"].res)
    BY DEF FitsReceiver
  <2>1. par \in ParType /\ net \in Seq(GoodBatches) /\ MadeFromAgreement
    BY DEF LinkInv, FramesInv, Fits
  <2> DEFINE b == net[i]
  <2>2. b \in GoodBatches
    BY <2>1
  <2> HIDE DEF b
  <2>3. b \in BatchType /\ BatchSize(b) <= par.batch /\ b.sn < par.mod /\ b.sn \in Nat
    BY <2>2, GoodFields DEF GoodBatches
  <2>4. par.batch \in Nat /\ par.mod \in Nat
    BY <2>1 DEF ParType
  <2>5. par.batch # 0
    <3>1. ASSUME par.batch = 0 PROVE FALSE
      <4>1. net = <<>>
        BY <3>1, NothingYet DEF LinkInv, FramesInv
      <4> QED
        BY <4>1
    <3> QED
      BY <3>1
  <2>6. /\ par.batch <= cfg["i"].batch /\ par.batch <= cfg["r"].batch
        /\ par.mod <= Modulus(cfg["r"].res)
    BY <2>1, <2>4, <2>5 DEF MadeFromAgreement
  <2>7. /\ cfg["i"].batch \in Nat /\ cfg["r"].batch \in Nat /\ cfg["r"].res \in ResType
    BY ConfigTypes, SidesFacts DEF LinkInv, HsInv
  <2>8. Modulus(cfg["r"].res) \in Nat
    BY <2>7, Moduli
  <2>9. b.sn < Modulus(cfg["r"].res)
    BY <2>3, <2>4, <2>6, <2>8
  <2>10. BatchSize(b) \in Nat
    <3>1. \/ b.kind = "frame" /\ b.body \in Seq(Body)
          \/ b.kind = "frag" /\ b.body \in Body
      BY <2>3 DEF BatchType
    <3>2. b.kind = "frame" => Batched(b.body) \in Nat
      BY <3>1, BatchedFacts DEF Body
    <3>3. b.kind # "frame" => Len(b.body) \in Nat
      BY <3>1 DEF Body
    <3> QED
      BY <3>1, <3>2, <3>3, FramesAssumption DEF BatchSize
  <2>11. BatchSize(b) <= LeastOf(cfg["i"].batch, cfg["r"].batch)
    BY <2>3, <2>4, <2>6, <2>7, <2>10 DEF LeastOf
  <2> QED
    BY <2>9, <2>11 DEF b
<1> QED
  BY <1>1, LinkInvariant, PTL

\* With QoS negotiated, the batches of every lane carry consecutive sequence
\* numbers across the wrap, FRAMEs and FRAGMENTs together, for any lanes,
\* messages and modulus (flushLocked, fragmentLocked).
THEOREM SequenceNumbersConsecutive == Spec => []SNsConsecutiveWithQoS
<1>1. LinkInv => SNsConsecutiveWithQoS
  <2> SUFFICES ASSUME LinkInv, par.qos, NEW j \in DOMAIN net
               PROVE  /\ net[j].sn \in 0..(par.mod - 1)
                      /\ faults = 0 => \A i \in 1..(j-1) :
                            NextOnLane(i, j) => net[j].sn = (net[i].sn + 1) % par.mod
    BY DEF SNsConsecutiveWithQoS, SNsConsecutive
  <2>1. par \in ParType /\ net \in Seq(GoodBatches) /\ (faults = 0 => InStep(lane, net))
    BY DEF LinkInv, FramesInv, Fits
  <2>2. net[j].sn \in 0..(par.mod - 1)
    <3>1. net[j] \in GoodBatches /\ par.mod \in Nat
      BY <2>1 DEF ParType
    <3> QED
      BY <3>1, GoodFields
  <2>3. ASSUME faults = 0, NEW i \in 1..(j-1), NextOnLane(i, j)
        PROVE  net[j].sn = (net[i].sn + 1) % par.mod
    <3>1. \A k : VisibleLane(k) = k
      BY DEF VisibleLane
    <3>2. Follows(net, i, j)
      BY <2>3, <3>1 DEF NextOnLane, Follows
    <3>3. j \in 1..Len(net)
      BY <2>1
    <3> QED
      BY <2>1, <2>3, <3>2, <3>3 DEF InStep, Chained, NextSN
  <2> QED
    BY <2>2, <2>3
<1> QED
  BY <1>1, LinkInvariant, PTL

-----------------------------------------------------------------------------
(* What the bodies dispatched are made of.                                 *)

\* A body of cells: the message it is of, its first cell and its last one.
MsgOf(b) == b[1][1]
Start(b) == b[1][2]
End(b) == Start(b) + Len(b) - 1

\* b is a run of the cells of one of the messages s.
Cut(s, b) ==
    /\ b \in Body /\ b # <<>> /\ MsgOf(b) \in 1..Len(s) /\ Start(b) \in Nat \ {0}
    /\ End(b) <= s[MsgOf(b)].size
    /\ \A i \in 1..Len(b) : b[i] = <<MsgOf(b), Start(b) + i - 1>>
Ending(s, b) == Cut(s, b) /\ End(b) = s[MsgOf(b)].size
Whole(s, b) == Ending(s, b) /\ Start(b) = 1

\* A FRAME holds whole messages of its lane, a FRAGMENT a run of one, and "more"
\* says that the message goes on.
GoodFrame(s, k, f) == \A i \in 1..Len(f) : Whole(s, f[i]) /\ s[MsgOf(f[i])].lane = k
GoodPiece(s, b) ==
    /\ b.kind = "frame" => ~b.more /\ GoodFrame(s, b.lane, b.body)
    /\ b.kind = "frag" => /\ Cut(s, b.body) /\ s[MsgOf(b.body)].lane = b.lane
                          /\ b.more <=> End(b.body) < s[MsgOf(b.body)].size
Pieces(s, lanes, bs) ==
    /\ \A k \in Lanes : GoodFrame(s, k, lanes[k].batch)
    /\ \A j \in 1..Len(bs) : GoodPiece(s, bs[j])

\* FRAGMENT c goes on where the cells b end.
Joins(b, c) == c.kind = "frag" /\ MsgOf(c.body) = MsgOf(b) /\ Start(c.body) = End(b) + 1

\* While nothing is lost or overtaken, the FRAGMENTs of a message lie next to
\* each other with consecutive SNs.
Continues(b, c) == Joins(b.body, c) /\ c.lane = b.lane /\ c.sn = NextSN(b.sn, par.mod)
Begins(b) == b.kind = "frag" => Start(b.body) = 1
Tiled(bs) ==
    /\ \A j \in 1..Len(bs) : bs[j].more => j < Len(bs) /\ Continues(bs[j], bs[j + 1])
    /\ \A j \in 2..Len(bs) : Begins(bs[j]) \/ bs[j - 1].more

\* A reassembly is open for the FRAGMENT at the front of the link and no other.
Opened(s, r, bs) ==
    /\ \A k \in ReceiverLanes : r[k].active =>
          /\ bs # <<>> /\ Joins(r[k].buf, bs[1]) /\ VisibleLane(bs[1].lane) = k
          /\ bs[1].sn = r[k].expectedSN
          /\ Cut(s, r[k].buf) /\ Start(r[k].buf) = 1
    /\ bs # <<>> => Begins(bs[1]) \/ r[VisibleLane(bs[1].lane)].active

\* On each lane the messages dispatched, on the link and in the open FRAME rise.
MsgsIn(f) == {MsgOf(f[i]) : i \in 1..Len(f)}
Msgs(b) == IF b.kind = "frame" THEN MsgsIn(b.body) ELSE {MsgOf(b.body)}
Seen(g, k) == {MsgOf(g[i].body) : i \in {n \in 1..Len(g) : g[n].lane = k}}
Rising(f) == \A i, j \in 1..Len(f) : i < j => MsgOf(f[i]) < MsgOf(f[j])
Below(M, N) == \A m \in M, n \in N : m < n
LanesOrdered(g, lanes) ==
    \A k \in Lanes : Rising(lanes[k].batch) /\ Below(Seen(g, k), MsgsIn(lanes[k].batch))
BatchOrdered(g, lanes, b) ==
    /\ b.kind = "frame" => Rising(b.body)
    /\ Below(Seen(g, b.lane), Msgs(b))
    /\ Below(Msgs(b), MsgsIn(lanes[b.lane].batch))
LinkOrdered(bs) ==
    \A j \in 1..Len(bs) : \A i \in 1..(j-1) :
        bs[i].lane = bs[j].lane /\ ~bs[i].more => Below(Msgs(bs[i]), Msgs(bs[j]))
Ordered(g, lanes, bs) ==
    /\ LanesOrdered(g, lanes) /\ LinkOrdered(bs)
    /\ \A j \in 1..Len(bs) : BatchOrdered(g, lanes, bs[j])
GotOrdered(s, g) ==
    \A i \in 1..Len(g) : /\ s[MsgOf(g[i].body)].lane = g[i].lane
                         /\ \A j \in 1..(i-1) : g[j].lane = g[i].lane =>
                               MsgOf(g[j].body) < MsgOf(g[i].body)

ReasmType == [active : BOOLEAN, expectedSN : Nat, buf : Body]

\* Before the Batcher is made nothing was sent.
Untouched == par.batch = 0 => /\ sent = <<>> /\ got = <<>> /\ faults = 0
                              /\ \A k \in ReceiverLanes : ~reasm[k].active

\* Every message sent is one the receiver accepts.
SizesFit == \A n \in Sizes : n <= MaxMessageSize

\* Batches bs on the link of a group whose sequence numbers have not come round.
Lasting(bs) == ~par.stream /\ gone + Len(bs) < par.mod
GroupPar == ~par.stream => par.qos

\* SNs count up, and the SN after a FRAGMENT that is not the last is that of the
\* next FRAGMENT of its message.
Numbered(lanes, bs) ==
    \A j \in 1..Len(bs) :
        /\ bs[j].sn < lanes[bs[j].lane].seqNum
        /\ bs[j].more => /\ bs[j].sn + 1 < lanes[bs[j].lane].seqNum
                         /\ \A i \in 1..Len(bs) :
                               bs[i].lane = bs[j].lane /\ bs[i].sn = bs[j].sn + 1 =>
                                  Joins(bs[j].body, bs[i])
Expecting(s, r, lanes, bs) ==
    \A k \in Lanes : r[k].active =>
        /\ Cut(s, r[k].buf) /\ r[k].expectedSN < lanes[k].seqNum
        /\ \A i \in 1..Len(bs) :
              bs[i].lane = k /\ bs[i].sn = r[k].expectedSN => Joins(r[k].buf, bs[i])
\* A lane took no more SNs than there were batches.
Bounded(lanes, bs) == \A k \in Lanes : lanes[k].seqNum <= gone + Len(bs)
Endings(s, g) == \A i \in 1..Len(g) : Ending(s, g[i].body)

\* What the messages s, the bodies g dispatched and the reassemblies r are, and
\* what lanes and batches on the link are to them.
SentRecord == [lane : Lanes, size : Sizes]
Around(s, g, r) ==
    /\ par \in ParType /\ GroupPar /\ gone \in Nat
    /\ s \in Seq(SentRecord) /\ Len(s) <= MaxMsgs
    /\ r \in [ReceiverLanes -> ReasmType]
    /\ faults = 0 => \A i \in 1..Len(g) : Cut(s, g[i].body)
Carried(s, g, r, lanes, bs) ==
    /\ Fits(lanes, bs) /\ Pieces(s, lanes, bs)
    /\ faults = 0 => Tiled(bs) /\ Opened(s, r, bs)
    /\ faults = 0 /\ par.qos => Ordered(g, lanes, bs)
    /\ Lasting(bs) => /\ Bounded(lanes, bs) /\ Numbered(lanes, bs)
                      /\ Expecting(s, r, lanes, bs) /\ Endings(s, g)

\* What was dispatched.
Dispatched(s, g) ==
    /\ faults = 0 => /\ \A i \in 1..Len(g) : Whole(s, g[i].body)
                     /\ par.qos => GotOrdered(s, g)

GotRecord == [lane : ReceiverLanes, body : Body]
BodiesInv ==
    /\ got \in Seq(GotRecord)
    /\ Untouched /\ (par.stream => faults = 0)
    /\ Around(sent, got, reasm)
    /\ Carried(sent, got, reasm, lane, net)
    /\ Dispatched(sent, got)

-----------------------------------------------------------------------------
(* Runs of cells.                                                          *)

\* The elements of a concatenation.
LEMMA ConcatFacts ==
    ASSUME NEW X, NEW s \in Seq(X), NEW t \in Seq(X)
    PROVE  /\ s \o t \in Seq(X) /\ Len(s) \in Nat /\ Len(t) \in Nat /\ Len(s \o t) = Len(s) + Len(t)
           /\ \A i \in 1..Len(s) : (s \o t)[i] = s[i]
           /\ \A i \in 1..Len(t) : (s \o t)[Len(s) + i] = t[i]
           /\ \A i \in 1..Len(s \o t) : i \in 1..Len(s) \/ \E j \in 1..Len(t) : i = Len(s) + j
<1>1. /\ s \o t \in Seq(X) /\ Len(s) \in Nat /\ Len(t) \in Nat /\ Len(s \o t) = Len(s) + Len(t)
      /\ \A i \in 1..Len(s) : (s \o t)[i] = s[i]
      /\ \A i \in 1..Len(t) : (s \o t)[Len(s) + i] = t[i]
  OBVIOUS
<1>2. ASSUME NEW i \in 1..Len(s \o t), i \notin 1..Len(s)
      PROVE  \E j \in 1..Len(t) : i = Len(s) + j
  <2>1. i - Len(s) \in 1..Len(t) /\ i = Len(s) + (i - Len(s))
    BY <1>1, <1>2
  <2> QED BY <2>1
<1> QED BY <1>1, <1>2

\* The parts of a run.
LEMMA CutParts ==
    ASSUME NEW s, NEW b, Cut(s, b)
    PROVE  /\ b \in Body /\ Len(b) \in Nat \ {0} /\ MsgOf(b) \in 1..Len(s)
           /\ Start(b) \in Nat \ {0} /\ End(b) \in Nat \ {0} /\ Start(b) <= End(b)
           /\ MsgOf(b) \in Nat /\ Len(b) = End(b) - Start(b) + 1
<1>1. /\ b \in Seq(Nat \X Nat) /\ b # <<>> /\ MsgOf(b) \in 1..Len(s) /\ Start(b) \in Nat \ {0}
  BY DEF Cut, Body
<1>2. Len(b) \in Nat \ {0} /\ b[1] \in Nat \X Nat
  BY <1>1
<1>3. MsgOf(b) \in Nat
  BY <1>2 DEF MsgOf
<1>4. \A x, y \in Nat \ {0} : /\ x + y - 1 \in Nat \ {0} /\ x <= x + y - 1
                              /\ y = (x + y - 1) - x + 1
  OBVIOUS
<1>5. Len(b) \in Nat \ {0} /\ Start(b) \in Nat \ {0} /\ End(b) = Start(b) + Len(b) - 1
  BY <1>1, <1>2 DEF End
<1>6. End(b) \in Nat \ {0} /\ Start(b) <= End(b) /\ Len(b) = End(b) - Start(b) + 1
  BY <1>4, <1>5
<1> QED BY <1>1, <1>3, <1>5, <1>6 DEF Cut

\* A run and the one that goes on where it ends are one run.
LEMMA CutJoin ==
    ASSUME NEW s, NEW b, NEW c, Cut(s, b), Cut(s, c), MsgOf(c) = MsgOf(b), Start(c) = End(b) + 1
    PROVE  /\ Cut(s, b \o c) /\ MsgOf(b \o c) = MsgOf(b) /\ Start(b \o c) = Start(b)
           /\ End(b \o c) = End(c)
<1> DEFINE d == b \o c
<1>1. /\ b \in Seq(Nat \X Nat) /\ Len(b) \in Nat \ {0} /\ Start(b) \in Nat \ {0}
      /\ Len(b) = End(b) - Start(b) + 1 /\ End(b) \in Nat
  BY CutParts DEF Body
<1>2. /\ c \in Seq(Nat \X Nat) /\ Len(c) \in Nat \ {0} /\ Start(c) \in Nat \ {0}
      /\ Len(c) = End(c) - Start(c) + 1 /\ End(c) \in Nat
  BY CutParts DEF Body
<1>a. PICK n \in Nat \ {0}, p \in Nat \ {0}, a \in Nat \ {0}, z \in Nat :
         n = Len(b) /\ p = Len(c) /\ a = Start(b) /\ z = End(c)
  BY <1>1, <1>2
<1>b. Start(c) = a + n /\ z = a + n + p - 1
  <2>1. PICK e \in Nat : e = End(b)
    BY <1>1
  <2>2. n = e - a + 1 /\ Start(c) = e + 1
    BY <2>1, <1>1, <1>a
  <2>3. p = z - Start(c) + 1
    BY <1>2, <1>a
  <2> QED BY <2>2, <2>3
<1>3. /\ d \in Seq(Nat \X Nat) /\ Len(d) = n + p
      /\ \A i \in 1..n : d[i] = b[i]
      /\ \A i \in 1..p : d[n + i] = c[i]
  <2>1. /\ d \in Seq(Nat \X Nat) /\ Len(d) = Len(b) + Len(c)
        /\ \A i \in 1..Len(b) : d[i] = b[i]
        /\ \A i \in 1..Len(c) : d[Len(b) + i] = c[i]
    <3> DEFINE X == Nat \X Nat
    <3>1. b \in Seq(X) /\ c \in Seq(X)
      BY <1>1, <1>2
    <3> HIDE DEF X
    <3>2. /\ d \in Seq(X) /\ Len(d) = Len(b) + Len(c)
          /\ \A i \in 1..Len(b) : d[i] = b[i]
          /\ \A i \in 1..Len(c) : d[Len(b) + i] = c[i]
      BY <3>1, ConcatFacts
    <3> QED BY <3>2 DEF X
  <2> QED BY <2>1, <1>a
<1> HIDE DEF d
<1>4. d[1] = b[1] /\ d # <<>>
  BY <1>3
<1>5. MsgOf(d) = MsgOf(b) /\ Start(d) = a
  BY <1>4, <1>a DEF MsgOf, Start
<1>6. End(d) = z
  <2>1. End(d) = a + Len(d) - 1
    BY <1>5 DEF End
  <2> QED BY <2>1, <1>b, <1>3
<1>7. ASSUME NEW i \in 1..Len(d) PROVE d[i] = <<MsgOf(d), Start(d) + i - 1>>
  <2>1. CASE i \in 1..n
    BY <2>1, <1>3, <1>5, <1>a DEF Cut
  <2>2. CASE i > n
    <3>1. PICK q \in 1..p : i = n + q
      <4>1. i - n \in 1..p /\ i = n + (i - n)
        BY <2>2, <1>3
      <4> QED BY <4>1
    <3>2. d[i] = <<MsgOf(c), Start(c) + q - 1>>
      BY <3>1, <1>3, <1>a DEF Cut
    <3>3. Start(c) + q - 1 = a + i - 1
      BY <3>1, <1>b
    <3> QED BY <3>2, <3>3, <1>5
  <2> QED BY <2>1, <2>2, <1>3
<1>8. End(d) <= s[MsgOf(d)].size /\ MsgOf(d) \in 1..Len(s)
  BY <1>5, <1>6, <1>a DEF Cut
<1>c. Start(d) \in Nat \ {0} /\ d \in Body
  BY <1>5, <1>3 DEF Body
<1>9. Cut(s, d)
  BY <1>4, <1>c, <1>7, <1>8 DEF Cut
<1> QED BY <1>5, <1>6, <1>9, <1>a DEF d

\* A run up to the last cell is what BodiesGenuine asks of a body.
LEMMA EndingIs ==
    ASSUME NEW s, NEW b, Ending(s, b)
    PROVE  b = SubSeq(Cells(MsgOf(b), s[MsgOf(b)].size), Start(b), s[MsgOf(b)].size)
<1> DEFINE m == MsgOf(b)
           n == End(b)
           c == Cells(m, n)
<1>1. /\ b \in Seq(Nat \X Nat) /\ Len(b) \in Nat \ {0} /\ Start(b) \in Nat \ {0}
      /\ n \in Nat \ {0} /\ Start(b) <= n /\ m \in Nat /\ Len(b) = n - Start(b) + 1
  BY CutParts DEF Body, Ending
<1>2. s[MsgOf(b)].size = n
  BY DEF Ending
<1>3. \A i \in 1..Len(b) : b[i] = <<m, Start(b) + i - 1>>
  BY DEF Ending, Cut
<1> HIDE DEF m, n
<1>4. c \in Seq(Nat \X Nat) /\ Len(c) = n /\ \A i \in 1..n : c[i] = <<m, i>>
  BY <1>1 DEF Cells
<1> HIDE DEF c
<1>5. PICK a \in Nat \ {0} : a = Start(b)
  BY <1>1
<1>6. /\ SubSeq(c, a, n) \in Seq(Nat \X Nat) /\ Len(SubSeq(c, a, n)) = n - a + 1
      /\ \A i \in 1..(n - a + 1) : SubSeq(c, a, n)[i] = c[a + i - 1]
  <2>2. PICK p \in Nat : p = n
    BY <1>1
  <2>1. a <= p /\ p = Len(c)
    BY <2>2, <1>1, <1>4, <1>5
  <2>3. a <= p /\ p = Len(c) /\ a \in 1..(Len(c) + 1) /\ p \in (a - 1)..Len(c)
    BY <2>1
  <2>4. /\ SubSeq(c, a, p) \in Seq(Nat \X Nat) /\ Len(SubSeq(c, a, p)) = p - a + 1
    BY <2>3, <1>4, SubSeqProperties
  <2>5. \A i \in 1..(p - a + 1) : SubSeq(c, a, p)[i] = c[a + i - 1]
    BY <2>3, <1>4, SubSeqProperties
  <2> QED BY <2>2, <2>4, <2>5
<1>7. \A i \in 1..Len(b) : SubSeq(c, a, n)[i] = b[i]
  <2> SUFFICES ASSUME NEW i \in 1..Len(b) PROVE SubSeq(c, a, n)[i] = b[i]
    OBVIOUS
  <2>0. PICK q \in Nat, p \in Nat : q = Len(b) /\ p = n
    BY <1>1
  <2>a. q = p - a + 1
    BY <2>0, <1>1, <1>5
  <2>b. i \in 1..(p - a + 1) /\ a + i - 1 \in 1..p
    BY <2>0, <2>a
  <2>1. i \in 1..(n - a + 1) /\ a + i - 1 \in 1..n
    BY <2>0, <2>b
  <2> QED BY <2>1, <1>3, <1>4, <1>5, <1>6
<1>8. SubSeq(c, a, n) = b
  <2> DEFINE x == SubSeq(c, a, n)
  <2>1. x \in Seq(Nat \X Nat) /\ Len(x) = Len(b)
    BY <1>1, <1>5, <1>6
  <2> HIDE DEF x
  <2>2. \A i \in 1..Len(b) : x[i] = b[i]
    BY <1>7 DEF x
  <2> QED BY <2>1, <2>2, <1>1 DEF x
<1> QED BY <1>2, <1>5, <1>8 DEF c, m, n

\* A run of the messages sent so far stays one as more are sent.
LEMMA CutGrows ==
    ASSUME NEW X, NEW s \in Seq(X), NEW x \in X, NEW b, Cut(s, b)
    PROVE  /\ Cut(Append(s, x), b) /\ Append(s, x)[MsgOf(b)] = s[MsgOf(b)]
           /\ (Ending(Append(s, x), b) <=> Ending(s, b)) /\ (Whole(Append(s, x), b) <=> Whole(s, b))
           /\ MsgOf(b) <= Len(s)
<1>1. MsgOf(b) \in 1..Len(s)
  BY DEF Cut
<1>2. Len(s) \in Nat /\ Len(Append(s, x)) = Len(s) + 1 /\ Append(s, x)[MsgOf(b)] = s[MsgOf(b)]
  BY <1>1
<1> DEFINE t == Append(s, x)
<1> HIDE DEF t
<1>3. MsgOf(b) \in 1..Len(t) /\ t[MsgOf(b)] = s[MsgOf(b)]
  BY <1>1, <1>2 DEF t
<1>4. Cut(t, b)
  BY <1>3 DEF Cut
<1> QED BY <1>1, <1>2, <1>3, <1>4 DEF t, Ending, Whole

\* The cells a to z of message m.
RunOf(s, b, m, a, z) ==
    /\ b \in Body /\ a \in Nat \ {0} /\ z \in Nat /\ m \in 1..Len(s) /\ a <= z /\ z <= s[m].size
    /\ Len(b) = z - a + 1 /\ \A i \in 1..Len(b) : b[i] = <<m, a + i - 1>>

\* A run of a message, given by where it begins and ends.
LEMMA RunIsCut ==
    ASSUME NEW s, NEW b, NEW m, NEW a, NEW z, RunOf(s, b, m, a, z)
    PROVE  Cut(s, b) /\ MsgOf(b) = m /\ Start(b) = a /\ End(b) = z
<1> USE DEF RunOf
<1>1. b[1] = <<m, a>> /\ b # <<>> /\ Len(b) \in Nat
  <2>1. 1 \in 1..Len(b) /\ Len(b) \in Nat /\ a + 1 - 1 = a
    OBVIOUS
  <2>2. b \in Seq(Nat \X Nat)
    BY DEF Body
  <2>3. b # <<>>
    BY <2>1, <2>2
  <2> QED BY <2>1, <2>3
<1>2. MsgOf(b) = m /\ Start(b) = a
  BY <1>1 DEF MsgOf, Start
<1>3. End(b) = z
  BY <1>2 DEF End
<1> QED BY <1>1, <1>2, <1>3 DEF Cut

\* The message enqueued is the whole of what it was sent as.
LEMMA MessageWhole ==
    ASSUME NEW s \in Seq(SentRecord), NEW k \in Lanes, NEW n \in Sizes
    PROVE  LET t == Append(s, [lane |-> k, size |-> n])
               msg == Cells(Len(s) + 1, n)
           IN  /\ Whole(t, msg) /\ MsgOf(msg) = Len(s) + 1 /\ t[MsgOf(msg)].lane = k
               /\ t[MsgOf(msg)].size = n /\ Len(msg) = n
               /\ \A i \in 1..n : msg[i] = <<Len(s) + 1, i>>
<1> DEFINE x == [lane |-> k, size |-> n]
           t == Append(s, x)
           m == Len(s) + 1
           msg == Cells(m, n)
<1>1. n \in Nat \ {0}
  BY FramesAssumption
<1>2. /\ t \in Seq(SentRecord) /\ Len(t) = m /\ m \in Nat \ {0} /\ t[m] = x
  <2>1. x \in SentRecord
    BY DEF SentRecord
  <2> HIDE DEF x
  <2> QED BY <2>1
<1> HIDE DEF t
<1>3. msg \in Body /\ Len(msg) = n /\ \A i \in 1..n : msg[i] = <<m, i>>
  BY <1>1, <1>2 DEF Cells, Body
<1> HIDE DEF msg, m
<1>4. t[m].size = n /\ t[m].lane = k /\ m \in 1..Len(t)
  BY <1>2
<1>5. Cut(t, msg) /\ MsgOf(msg) = m /\ Start(msg) = 1 /\ End(msg) = n
  <2>1. \A i \in 1..Len(msg) : msg[i] = <<m, 1 + i - 1>>
    BY <1>1, <1>3
  <2>2. Len(msg) = n - 1 + 1 /\ n <= t[m].size /\ 1 <= n
    BY <1>1, <1>3, <1>4
  <2>3. PICK a \in Nat \ {0}, z \in Nat : a = 1 /\ z = n /\ m \in Nat
    BY <1>1, <1>2
  <2>4. /\ a <= z /\ z <= t[m].size /\ Len(msg) = z - a + 1
        /\ \A i \in 1..Len(msg) : msg[i] = <<m, a + i - 1>>
    BY <2>1, <2>2, <2>3
  <2>5. Cut(t, msg) /\ MsgOf(msg) = m /\ Start(msg) = a /\ End(msg) = z
    <3>1. RunOf(t, msg, m, a, z)
      BY <2>3, <2>4, <1>3, <1>4 DEF RunOf
    <3> QED BY <3>1, RunIsCut
  <2> QED BY <2>3, <2>5
<1> QED BY <1>3, <1>4, <1>5 DEF Whole, Ending, t, msg, m

-----------------------------------------------------------------------------
(* Batches t put on the link after the batches s.                          *)

\* FRAGMENTs stay next to each other: none of s wants one of t.
LEMMA EmitTiled ==
    ASSUME NEW X, NEW s \in Seq(X), NEW t \in Seq(X), Tiled(s), Tiled(t),
           t # <<>> => Begins(t[1])
    PROVE  Tiled(s \o t)
<1> DEFINE u == s \o t
           n == Len(s)
<1>1. /\ n \in Nat /\ Len(t) \in Nat /\ Len(u) = n + Len(t)
      /\ \A i \in 1..n : u[i] = s[i]
      /\ \A i \in 1..Len(t) : u[n + i] = t[i]
      /\ \A i \in 1..Len(u) : i \in 1..n \/ \E j \in 1..Len(t) : i = n + j
  BY ConcatFacts
<1>2. Len(s) = n
  OBVIOUS
<1> HIDE DEF u, n
<1>3. ASSUME NEW j \in 1..Len(u), u[j].more PROVE j < Len(u) /\ Continues(u[j], u[j + 1])
  <2>1. CASE j \in 1..n
    <3>1. s[j].more /\ j < n /\ Continues(s[j], s[j + 1])
      BY <2>1, <1>1, <1>2, <1>3 DEF Tiled
    <3>2. j + 1 \in 1..n /\ j < Len(u)
      BY <3>1, <1>1
    <3> QED BY <3>1, <3>2, <2>1, <1>1
  <2>2. ASSUME NEW i \in 1..Len(t), j = n + i PROVE j < Len(u) /\ Continues(u[j], u[j + 1])
    <3>1. t[i].more /\ i < Len(t) /\ Continues(t[i], t[i + 1])
      BY <2>2, <1>1, <1>3 DEF Tiled
    <3>2. i + 1 \in 1..Len(t) /\ j < Len(u) /\ n + (i + 1) = j + 1
      BY <3>1, <2>2, <1>1
    <3>3. u[j + 1] = t[i + 1] /\ u[j] = t[i]
      BY <3>2, <2>2, <1>1
    <3> QED BY <3>1, <3>2, <3>3
  <2> QED BY <2>1, <2>2, <1>1
<1>4. ASSUME NEW j \in 2..Len(u) PROVE Begins(u[j]) \/ u[j - 1].more
  <2>1. CASE j \in 1..n
    <3>1. j \in 2..n /\ j - 1 \in 1..n
      BY <2>1, <1>1
    <3>2. Begins(s[j]) \/ s[j - 1].more
      BY <3>1, <1>2 DEF Tiled
    <3> QED BY <3>1, <3>2, <2>1, <1>1
  <2>2. ASSUME NEW i \in 1..Len(t), j = n + i PROVE Begins(u[j]) \/ u[j - 1].more
    <3>1. CASE i = 1
      <4>1. t # <<>> /\ u[j] = t[1]
        BY <3>1, <2>2, <1>1
      <4> QED BY <4>1
    <3>2. CASE i # 1
      <4>1. i \in 2..Len(t) /\ i - 1 \in 1..Len(t) /\ n + (i - 1) = j - 1
        BY <3>2, <2>2, <1>1
      <4>2. u[j] = t[i] /\ u[j - 1] = t[i - 1]
        BY <4>1, <2>2, <1>1
      <4>3. Begins(t[i]) \/ t[i - 1].more
        BY <4>1 DEF Tiled
      <4> QED BY <4>2, <4>3
    <3> QED BY <3>1, <3>2
  <2>3. j \in 1..Len(u)
    BY <1>1
  <2> QED BY <2>1, <2>2, <2>3, <1>1
<1> QED BY <1>3, <1>4 DEF Tiled, u

\* The front of the link stays, or the first of t is a front to begin with.
LEMMA EmitOpened ==
    ASSUME NEW X, NEW s \in Seq(X), NEW t \in Seq(X), NEW m, NEW r,
           Opened(m, r, s), t # <<>> => Begins(t[1])
    PROVE  Opened(m, r, s \o t)
<1>1. CASE s = <<>>
  <2>1. s \o t = t
    BY <1>1
  <2>2. \A k \in ReceiverLanes : ~r[k].active
    BY <1>1 DEF Opened
  <2> QED BY <2>1, <2>2 DEF Opened
<1>2. CASE s # <<>>
  <2> DEFINE u == s \o t
  <2>1. u # <<>> /\ u[1] = s[1]
    BY <1>2
  <2> HIDE DEF u
  <2>2. Opened(m, r, u)
    BY <2>1, <1>2 DEF Opened
  <2> QED BY <2>2 DEF u
<1> QED BY <1>1, <1>2

\* Messages rise on each lane when those of t come after those of s and before
\* what is left in the open FRAMEs.
LEMMA EmitOrdered ==
    ASSUME NEW X, NEW s \in Seq(X), NEW t \in Seq(X), NEW g, NEW old, NEW new,
           Ordered(g, old, s), LinkOrdered(t), LanesOrdered(g, new),
           \A j \in 1..Len(t) : BatchOrdered(g, new, t[j]),
           \A i \in 1..Len(s), j \in 1..Len(t) : s[i].lane = t[j].lane =>
               Below(Msgs(s[i]), Msgs(t[j])),
           \A i \in 1..Len(s) : Below(Msgs(s[i]), MsgsIn(new[s[i].lane].batch))
    PROVE  Ordered(g, new, s \o t)
<1> DEFINE u == s \o t
           n == Len(s)
<1>1. /\ n \in Nat /\ Len(t) \in Nat /\ Len(u) = n + Len(t)
      /\ \A i \in 1..n : u[i] = s[i]
      /\ \A i \in 1..Len(t) : u[n + i] = t[i]
      /\ \A i \in 1..Len(u) : i \in 1..n \/ \E j \in 1..Len(t) : i = n + j
  BY ConcatFacts
<1>2. Len(s) = n
  OBVIOUS
<1> HIDE DEF u, n
<1>3. ASSUME NEW j \in 1..Len(u) PROVE BatchOrdered(g, new, u[j])
  <2>1. CASE j \in 1..n
    <3>1. BatchOrdered(g, old, s[j]) /\ u[j] = s[j] /\ Below(Msgs(s[j]), MsgsIn(new[s[j].lane].batch))
      BY <2>1, <1>1, <1>2 DEF Ordered
    <3> QED BY <3>1 DEF BatchOrdered
  <2>2. ASSUME NEW i \in 1..Len(t), j = n + i PROVE BatchOrdered(g, new, u[j])
    BY <2>2, <1>1
  <2> QED BY <2>1, <2>2, <1>1
<1>4. ASSUME NEW j \in 1..Len(u), NEW i \in 1..(j-1), u[i].lane = u[j].lane, ~u[i].more
      PROVE  Below(Msgs(u[i]), Msgs(u[j]))
  <2>1. CASE j \in 1..n
    <3>1. i \in 1..n /\ u[i] = s[i] /\ u[j] = s[j]
      BY <2>1, <1>1
    <3>2. LinkOrdered(s)
      BY DEF Ordered
    <3> QED BY <2>1, <3>1, <3>2, <1>2, <1>4 DEF LinkOrdered
  <2>2. ASSUME NEW p \in 1..Len(t), j = n + p PROVE Below(Msgs(u[i]), Msgs(u[j]))
    <3>0. u[j] = t[p]
      BY <2>2, <1>1
    <3>1. CASE i \in 1..n
      BY <3>0, <3>1, <1>1, <1>2, <1>4
    <3>2. ASSUME NEW q \in 1..Len(t), i = n + q PROVE Below(Msgs(u[i]), Msgs(u[j]))
      <4>1. q \in 1..(p-1) /\ u[i] = t[q]
        BY <3>2, <2>2, <1>1
      <4> QED BY <4>1, <3>0, <1>4 DEF LinkOrdered
    <3>3. i \in 1..Len(u)
      BY <1>1
    <3> QED BY <3>1, <3>2, <3>3, <1>1
  <2> QED BY <2>1, <2>2, <1>1
<1>5. LinkOrdered(u)
  BY <1>4 DEF LinkOrdered
<1> QED BY <1>3, <1>5 DEF Ordered, u

\* The SNs of t are new on their lanes.
LEMMA EmitNumbered ==
    ASSUME NEW s \in Seq(GoodBatches), NEW t \in Seq(GoodBatches),
           NEW old \in [Lanes -> GoodLanes], NEW new \in [Lanes -> GoodLanes], Numbered(old, s),
           \A k \in Lanes : old[k].seqNum <= new[k].seqNum,
           \A j \in 1..Len(t) : old[t[j].lane].seqNum <= t[j].sn, Numbered(new, t)
    PROVE  /\ Numbered(new, s \o t)
           /\ \A m, r : r \in [ReceiverLanes -> ReasmType] /\ Expecting(m, r, old, s) => Expecting(m, r, new, s \o t)
<1> DEFINE u == s \o t
           n == Len(s)
<1>1. /\ n \in Nat /\ Len(t) \in Nat /\ Len(u) = n + Len(t)
      /\ \A i \in 1..n : u[i] = s[i]
      /\ \A i \in 1..Len(t) : u[n + i] = t[i]
      /\ \A i \in 1..Len(u) : i \in 1..n \/ \E j \in 1..Len(t) : i = n + j
  BY ConcatFacts
<1>2. /\ Len(s) = n
      /\ \A i \in 1..n : s[i].lane \in Lanes /\ s[i].sn \in Nat
      /\ \A i \in 1..Len(t) : t[i].lane \in Lanes /\ t[i].sn \in Nat
      /\ \A k \in Lanes : old[k].seqNum \in Nat /\ new[k].seqNum \in Nat
  BY GoodFields
<1> HIDE DEF u, n
<1>3. ASSUME NEW j \in 1..Len(u)
      PROVE  u[j].sn < new[u[j].lane].seqNum
  <2>1. CASE j \in 1..n
    <3>1. s[j].sn < old[s[j].lane].seqNum
      BY <2>1, <1>2 DEF Numbered
    <3> QED BY <3>1, <2>1, <1>1, <1>2
  <2>2. ASSUME NEW i \in 1..Len(t), j = n + i PROVE u[j].sn < new[u[j].lane].seqNum
    BY <2>2, <1>1 DEF Numbered
  <2> QED BY <2>1, <2>2, <1>1
<1>4. ASSUME NEW k \in Lanes, NEW e \in Nat, NEW b, e < old[k].seqNum,
             \A i \in 1..n : s[i].lane = k /\ s[i].sn = e => Joins(b, s[i])
      PROVE  \A i \in 1..Len(u) : u[i].lane = k /\ u[i].sn = e => Joins(b, u[i])
  <2> SUFFICES ASSUME NEW i \in 1..Len(u), u[i].lane = k, u[i].sn = e PROVE Joins(b, u[i])
    OBVIOUS
  <2>1. CASE i \in 1..n
    BY <2>1, <1>1, <1>4
  <2>2. ASSUME NEW p \in 1..Len(t), i = n + p PROVE FALSE
    <3>1. u[i] = t[p] /\ old[k].seqNum <= e
      BY <2>2, <1>1
    <3> QED BY <3>1, <1>2, <1>4
  <2> QED BY <2>1, <2>2, <1>1
<1>5. ASSUME NEW j \in 1..Len(u), u[j].more
      PROVE  /\ u[j].sn + 1 < new[u[j].lane].seqNum
             /\ \A i \in 1..Len(u) :
                   u[i].lane = u[j].lane /\ u[i].sn = u[j].sn + 1 => Joins(u[j].body, u[i])
  <2>1. CASE j \in 1..n
    <3>1. /\ u[j] = s[j] /\ s[j].more /\ s[j].lane \in Lanes /\ s[j].sn \in Nat /\ s[j].sn + 1 \in Nat
          /\ s[j].sn + 1 < old[s[j].lane].seqNum
          /\ \A i \in 1..n : s[i].lane = s[j].lane /\ s[i].sn = s[j].sn + 1 => Joins(s[j].body, s[i])
      BY <2>1, <1>1, <1>2, <1>5 DEF Numbered
    <3>2. s[j].sn + 1 < new[s[j].lane].seqNum
      BY <3>1, <1>2
    <3>3. PICK e \in Nat : e = s[j].sn + 1
      BY <3>1
    <3>4. \A i \in 1..Len(u) : u[i].lane = s[j].lane /\ u[i].sn = e => Joins(s[j].body, u[i])
      BY <3>1, <3>3, <1>4
    <3> QED BY <3>1, <3>2, <3>3, <3>4
  <2>2. ASSUME NEW p \in 1..Len(t), j = n + p
        PROVE  /\ u[j].sn + 1 < new[u[j].lane].seqNum
               /\ \A i \in 1..Len(u) :
                     u[i].lane = u[j].lane /\ u[i].sn = u[j].sn + 1 => Joins(u[j].body, u[i])
    <3>1. /\ u[j] = t[p] /\ t[p].more /\ t[p].lane \in Lanes /\ t[p].sn \in Nat
          /\ t[p].sn + 1 < new[t[p].lane].seqNum
          /\ \A i \in 1..Len(t) : t[i].lane = t[p].lane /\ t[i].sn = t[p].sn + 1 => Joins(t[p].body, t[i])
      BY <2>2, <1>1, <1>2, <1>5 DEF Numbered
    <3>2. ASSUME NEW i \in 1..Len(u), u[i].lane = u[j].lane, u[i].sn = u[j].sn + 1
          PROVE  Joins(u[j].body, u[i])
      <4>1. CASE i \in 1..n
        <5>1. s[i].sn < old[s[i].lane].seqNum /\ old[t[p].lane].seqNum <= t[p].sn
          BY <4>1, <1>2 DEF Numbered
        <5>2. s[i].lane = t[p].lane /\ s[i].sn = t[p].sn + 1
          BY <4>1, <3>1, <3>2, <1>1
        <5> QED BY <5>1, <5>2, <3>1, <1>2, <4>1
      <4>2. ASSUME NEW q \in 1..Len(t), i = n + q PROVE Joins(u[j].body, u[i])
        <5>1. u[i] = t[q]
          BY <4>2, <1>1
        <5> QED BY <5>1, <3>1, <3>2
      <4> QED BY <4>1, <4>2, <1>1
    <3> QED BY <3>1, <3>2
  <2> QED BY <2>1, <2>2, <1>1
<1>6. Numbered(new, u)
  BY <1>3, <1>5 DEF Numbered
<1>7. ASSUME NEW m, NEW r \in [ReceiverLanes -> ReasmType], Expecting(m, r, old, s)
      PROVE Expecting(m, r, new, u)
  <2> SUFFICES ASSUME NEW k \in Lanes, r[k].active
               PROVE  /\ Cut(m, r[k].buf) /\ r[k].expectedSN < new[k].seqNum
                      /\ \A i \in 1..Len(u) :
                            u[i].lane = k /\ u[i].sn = r[k].expectedSN => Joins(r[k].buf, u[i])
    BY DEF Expecting
  <2>1. /\ Cut(m, r[k].buf) /\ r[k].expectedSN < old[k].seqNum
        /\ \A i \in 1..n : s[i].lane = k /\ s[i].sn = r[k].expectedSN => Joins(r[k].buf, s[i])
    BY <1>7, <1>2 DEF Expecting
  <2>2. PICK e \in Nat : e = r[k].expectedSN
    BY DEF ReasmType, ReceiverLanes
  <2>3. \A i \in 1..Len(u) : u[i].lane = k /\ u[i].sn = e => Joins(r[k].buf, u[i])
    BY <2>1, <2>2, <1>4
  <2>4. e < new[k].seqNum
    BY <2>1, <2>2, <1>2
  <2> QED BY <2>1, <2>2, <2>3, <2>4
<1> QED BY <1>6, <1>7 DEF u

-----------------------------------------------------------------------------
(* What the Batcher does to them.                                          *)

\* A lane whose SNs have not come round takes the next one.
LEMMA SNsLeft ==
    ASSUME par \in ParType, gone \in Nat, NEW lanes \in [Lanes -> GoodLanes],
           NEW bs \in Seq(GoodBatches), Bounded(lanes, bs), gone + Len(bs) + 1 < par.mod,
           NEW k \in Lanes
    PROVE  NextSN(lanes[k].seqNum, par.mod) = lanes[k].seqNum + 1
<1>1. PICK q \in Nat, n \in Nat, mod \in Nat \ {0} : q = lanes[k].seqNum /\ n = Len(bs) /\ mod = par.mod
  <2>1. lanes[k].seqNum \in Nat
    BY GoodFields
  <2>2. Len(bs) \in Nat /\ par.mod \in Nat \ {0}
    BY DEF ParType
  <2> QED BY <2>1, <2>2
<1>2. q <= gone + n
  BY <1>1 DEF Bounded
<1>3. q + 1 \in 0..(mod - 1)
  BY <1>1, <1>2
<1>4. (q + 1) % mod = q + 1
  BY <1>3, ModSmall
<1> QED BY <1>1, <1>4 DEF NextSN

\* Open FRAMEs, one of each of some lanes, are put on the link.
LEMMA FramesEmitted ==
    ASSUME NEW s, NEW g, NEW r, Around(s, g, r), NEW old, NEW bs, Carried(s, g, r, old, bs),
           NEW t \in Seq(GoodBatches), NEW new \in [Lanes -> GoodLanes],
           \A k \in Lanes : new[k] = old[k] \/ new[k] = Flushed(old[k]),
           \A j \in 1..Len(t) : LET q == t[j].lane
                                IN  /\ t[j] = FrameOf(q, old[q]) /\ old[q].batch # <<>>
                                    /\ new[q] = Flushed(old[q]),
           \A i, j \in 1..Len(t) : i < j => t[i].lane # t[j].lane,
           t = <<>> => new = old
    PROVE  Carried(s, g, r, new, bs \o t)
<1>1. /\ old \in [Lanes -> GoodLanes] /\ bs \in Seq(GoodBatches) /\ par \in ParType
      /\ Pieces(s, old, bs) /\ Len(t) \in Nat
  BY DEF Carried, Fits, Around
<1>2. ASSUME NEW k \in Lanes
      PROVE  /\ old[k] \in GoodLanes /\ Flushed(old[k]).batch = <<>>
             /\ new[k].batch = old[k].batch \/ new[k].batch = <<>>
             /\ old[k].batch = <<>> => Flushed(old[k]).seqNum = old[k].seqNum
             /\ old[k].batch # <<>> => Flushed(old[k]).seqNum = NextSN(old[k].seqNum, par.mod)
  BY <1>1, FlushedFacts
<1>3. ASSUME NEW j \in 1..Len(t)
      PROVE  /\ t[j].lane \in Lanes /\ t[j].kind = "frame" /\ ~t[j].more
             /\ t[j].body = old[t[j].lane].batch /\ t[j].sn = old[t[j].lane].seqNum
             /\ old[t[j].lane].batch # <<>> /\ new[t[j].lane] = Flushed(old[t[j].lane])
  <2>1. PICK q : q = t[j].lane
    OBVIOUS
  <2>2. q \in Lanes /\ t[j] = FrameOf(q, old[q]) /\ old[q].batch # <<>> /\ new[q] = Flushed(old[q])
    BY <2>1, GoodFields
  <2>3. /\ FrameOf(q, old[q]).kind = "frame" /\ FrameOf(q, old[q]).more = FALSE
        /\ FrameOf(q, old[q]).body = old[q].batch /\ FrameOf(q, old[q]).sn = old[q].seqNum
    BY DEF FrameOf
  <2> QED BY <2>1, <2>2, <2>3
<1>4. Fits(new, bs \o t)
  BY <1>1, ConcatFacts DEF Fits
<1>5. Pieces(s, new, bs \o t)
  <2>1. \A k \in Lanes : GoodFrame(s, k, new[k].batch)
    <3>1. \A k \in Lanes : GoodFrame(s, k, old[k].batch) /\ GoodFrame(s, k, <<>>)
      BY <1>1 DEF Pieces, GoodFrame
    <3> QED BY <3>1, <1>2
  <2>2. \A j \in 1..Len(t) : GoodPiece(s, t[j])
    BY <1>1, <1>3 DEF Pieces, GoodPiece
  <2>3. \A j \in 1..Len(bs) : GoodPiece(s, bs[j])
    BY <1>1 DEF Pieces
  <2> DEFINE u == bs \o t
  <2>4. /\ \A i \in 1..Len(bs) : u[i] = bs[i]
        /\ \A i \in 1..Len(t) : u[Len(bs) + i] = t[i]
        /\ \A i \in 1..Len(u) : i \in 1..Len(bs) \/ \E j \in 1..Len(t) : i = Len(bs) + j
    BY <1>1, ConcatFacts
  <2> HIDE DEF u
  <2>5. ASSUME NEW j \in 1..Len(u) PROVE GoodPiece(s, u[j])
    <3>1. CASE j \in 1..Len(bs)
      BY <3>1, <2>3, <2>4
    <3>2. ASSUME NEW i \in 1..Len(t), j = Len(bs) + i PROVE GoodPiece(s, u[j])
      BY <3>2, <2>2, <2>4
    <3> QED BY <3>1, <3>2, <2>4
  <2> QED BY <2>1, <2>5 DEF Pieces, u
<1>6. ASSUME faults = 0 PROVE Tiled(bs \o t) /\ Opened(s, r, bs \o t)
  <2>1. Tiled(bs) /\ Opened(s, r, bs)
    BY <1>6 DEF Carried
  <2>2. \A j \in 1..Len(t) : Begins(t[j])
    BY <1>3 DEF Begins
  <2>3. Tiled(t)
    BY <2>2, <1>1, <1>3 DEF Tiled
  <2>4. t # <<>> => Begins(t[1])
    BY <2>2
  <2> QED BY <2>1, <2>3, <2>4, <1>1, EmitTiled, EmitOpened
<1>7. ASSUME faults = 0, par.qos PROVE Ordered(g, new, bs \o t)
  <2>1. /\ Ordered(g, old, bs) /\ LanesOrdered(g, old)
        /\ \A i \in 1..Len(bs) : BatchOrdered(g, old, bs[i])
    BY <1>7 DEF Carried, Ordered
  <2>2. /\ Rising(<<>>) /\ MsgsIn(<<>>) = {} /\ \A M : Below(M, {})
    BY DEF Rising, MsgsIn, Below
  <2>3. LanesOrdered(g, new)
    <3> SUFFICES ASSUME NEW k \in Lanes
                 PROVE  Rising(new[k].batch) /\ Below(Seen(g, k), MsgsIn(new[k].batch))
      BY DEF LanesOrdered
    <3>1. Rising(old[k].batch) /\ Below(Seen(g, k), MsgsIn(old[k].batch))
      BY <2>1 DEF LanesOrdered
    <3> QED BY <3>1, <2>2, <1>2
  <2>4. LinkOrdered(t)
    BY <1>1 DEF LinkOrdered
  <2>5. ASSUME NEW j \in 1..Len(t) PROVE BatchOrdered(g, new, t[j])
    <3>1. /\ t[j].lane \in Lanes /\ t[j].kind = "frame" /\ t[j].body = old[t[j].lane].batch
          /\ new[t[j].lane].batch = <<>>
      BY <1>2, <1>3
    <3>2. Rising(t[j].body) /\ Below(Seen(g, t[j].lane), MsgsIn(t[j].body))
      BY <3>1, <2>1 DEF LanesOrdered
    <3>3. Msgs(t[j]) = MsgsIn(t[j].body)
      BY <3>1 DEF Msgs
    <3> QED BY <3>1, <3>2, <3>3, <2>2 DEF BatchOrdered
  <2>6. ASSUME NEW i \in 1..Len(bs), NEW j \in 1..Len(t), bs[i].lane = t[j].lane
        PROVE  Below(Msgs(bs[i]), Msgs(t[j]))
    <3>1. Below(Msgs(bs[i]), MsgsIn(old[bs[i].lane].batch))
      BY <2>1 DEF BatchOrdered
    <3>2. Msgs(t[j]) = MsgsIn(old[t[j].lane].batch)
      BY <1>3 DEF Msgs
    <3> QED BY <3>1, <3>2, <2>6
  <2>7. ASSUME NEW i \in 1..Len(bs) PROVE Below(Msgs(bs[i]), MsgsIn(new[bs[i].lane].batch))
    <3>1. Below(Msgs(bs[i]), MsgsIn(old[bs[i].lane].batch)) /\ bs[i].lane \in Lanes
      BY <2>1, <1>1, GoodFields DEF BatchOrdered
    <3> QED BY <3>1, <2>2, <1>2
  <2> QED BY <2>1, <2>3, <2>4, <2>5, <2>6, <2>7, <1>1, EmitOrdered
<1>8. ASSUME Lasting(bs \o t)
      PROVE  /\ Bounded(new, bs \o t) /\ Numbered(new, bs \o t) /\ Expecting(s, r, new, bs \o t)
             /\ Endings(s, g)
  <2>0. /\ Len(bs) \in Nat /\ Len(bs \o t) = Len(bs) + Len(t) /\ par.mod \in Nat /\ gone \in Nat
        /\ t # <<>> => Len(t) >= 1
    BY <1>1, ConcatFacts DEF ParType, Around
  <2>a. Lasting(bs)
    BY <1>1, <1>8, <2>0 DEF Lasting
  <2>1. Bounded(old, bs) /\ Numbered(old, bs) /\ Expecting(s, r, old, bs) /\ Endings(s, g)
    BY <2>a DEF Carried
  <2>b. t # <<>> => gone + Len(bs) + 1 < par.mod
    BY <1>1, <1>8, <2>0 DEF Lasting
  <2>2. ASSUME NEW k \in Lanes
        PROVE  /\ old[k].seqNum \in Nat /\ new[k].seqNum \in Nat
               /\ \/ new[k].seqNum = old[k].seqNum
                  \/ t # <<>> /\ new[k].seqNum = old[k].seqNum + 1
               /\ t # <<>> /\ old[k].batch # <<>> /\ new[k] = Flushed(old[k]) =>
                     new[k].seqNum = old[k].seqNum + 1
    <3>1. old[k].seqNum \in Nat /\ new[k].seqNum \in Nat
      BY <1>1, GoodFields
    <3>2. t # <<>> => NextSN(old[k].seqNum, par.mod) = old[k].seqNum + 1
      BY <1>1, <2>0, <2>1, <2>b, SNsLeft
    <3>3. CASE t = <<>>
      BY <3>1, <3>3
    <3>4. CASE t # <<>>
      BY <3>1, <3>2, <3>4, <1>2
    <3> QED BY <3>3, <3>4
  <2>3. Bounded(new, bs \o t)
    <3> SUFFICES ASSUME NEW k \in Lanes PROVE new[k].seqNum <= gone + Len(bs \o t)
      BY DEF Bounded
    <3>1. old[k].seqNum <= gone + Len(bs)
      BY <2>1 DEF Bounded
    <3> QED BY <3>1, <2>0, <2>2, <1>1
  <2>4. \A k \in Lanes : old[k].seqNum <= new[k].seqNum
    BY <2>2
  <2>5. \A j \in 1..Len(t) : old[t[j].lane].seqNum <= t[j].sn
    BY <1>3, <2>2
  <2>c. \A j \in 1..Len(t) : t # <<>>
    BY <1>1
  <2>6. Numbered(new, t)
    BY <1>3, <2>2, <2>c DEF Numbered
  <2>7. Numbered(new, bs \o t)
    BY <2>1, <2>4, <2>5, <2>6, <1>1, EmitNumbered
  <2>8. r \in [ReceiverLanes -> ReasmType]
    BY DEF Around
  <2>9. Expecting(s, r, new, bs \o t)
    BY <2>1, <2>4, <2>5, <2>6, <2>8, <1>1, EmitNumbered
  <2> QED BY <2>1, <2>3, <2>7, <2>9
<1> QED BY <1>4, <1>5, <1>6, <1>7, <1>8 DEF Carried

\* flushLocked of one lane.
LEMMA FlushCarries ==
    ASSUME NEW s, NEW g, NEW r, Around(s, g, r), NEW old, NEW bs, Carried(s, g, r, old, bs),
           NEW k \in Lanes
    PROVE  LET f == FlushLane([lane |-> old, net |-> bs], k)
           IN  /\ Carried(s, g, r, f.lane, f.net) /\ f.lane[k].batch = <<>>
               /\ \A j \in Lanes : j # k => f.lane[j] = old[j]
<1> DEFINE L == [old EXCEPT ![k] = Flushed(@)]
           N == IF old[k].batch = <<>> THEN bs ELSE Append(bs, FrameOf(k, old[k]))
           t == IF old[k].batch = <<>> THEN <<>> ELSE <<FrameOf(k, old[k])>>
<1>1. /\ FlushLane([lane |-> old, net |-> bs], k).lane = L
      /\ FlushLane([lane |-> old, net |-> bs], k).net = N
  BY DEF FlushLane
<1>2. /\ old \in [Lanes -> GoodLanes] /\ bs \in Seq(GoodBatches) /\ par \in ParType
  BY DEF Carried, Fits, Around
<1>3. /\ Flushed(old[k]) \in GoodLanes /\ Flushed(old[k]).batch = <<>>
      /\ old[k].batch # <<>> => FrameOf(k, old[k]) \in GoodBatches
      /\ FrameOf(k, old[k]).lane = k
  BY <1>2, FlushedFacts
<1>4. L \in [Lanes -> GoodLanes] /\ L[k] = Flushed(old[k]) /\ \A j \in Lanes : j # k => L[j] = old[j]
  BY <1>2, <1>3
<1> DEFINE G == GoodBatches
<1> HIDE DEF G
<1>5. /\ t \in Seq(G) /\ N = bs \o t
      /\ \A j \in 1..Len(t) : j = 1 /\ t[j] = FrameOf(k, old[k]) /\ old[k].batch # <<>>
  <2>0. bs \in Seq(G) /\ (old[k].batch # <<>> => FrameOf(k, old[k]) \in G)
    BY <1>2, <1>3 DEF G
  <2>1. CASE old[k].batch = <<>>
    BY <2>0, <2>1
  <2>2. CASE old[k].batch # <<>>
    <3> DEFINE x == FrameOf(k, old[k])
    <3>1. x \in G
      BY <2>0, <2>2
    <3> HIDE DEF x
    <3>2. <<x>> \in Seq(G) /\ Append(bs, x) = bs \o <<x>> /\ Len(<<x>>) = 1 /\ <<x>>[1] = x
      BY <2>0, <3>1
    <3>3. t = <<x>> /\ N = Append(bs, x)
      BY <2>2 DEF x
    <3> QED BY <2>2, <3>2, <3>3 DEF x
  <2> QED BY <2>1, <2>2
<1> HIDE DEF L, N, t
<1>6. Carried(s, g, r, L, bs \o t)
  <2>1. \A j \in Lanes : L[j] = old[j] \/ L[j] = Flushed(old[j])
    BY <1>4
  <2>2. \A j \in 1..Len(t) : LET q == t[j].lane
                             IN  /\ t[j] = FrameOf(q, old[q]) /\ old[q].batch # <<>>
                                 /\ L[q] = Flushed(old[q])
    BY <1>3, <1>4, <1>5
  <2>3. \A i, j \in 1..Len(t) : i < j => t[i].lane # t[j].lane
    BY <1>5
  <2>4. t \in Seq(GoodBatches)
    BY <1>5 DEF G
  <2>5. t = <<>> => L = old
    <3>1. t = <<>> => old[k].batch = <<>>
      BY DEF t
    <3>2. old[k].batch = <<>> => Flushed(old[k]) = old[k]
      BY DEF Flushed
    <3> QED BY <3>1, <3>2, <1>2, <1>4
  <2> QED BY <2>1, <2>2, <2>3, <2>4, <2>5, <1>4, FramesEmitted
<1> QED BY <1>1, <1>3, <1>4, <1>5, <1>6

\* One more message is sent: what there was stays as it is.
LEMMA GrowCarried ==
    ASSUME NEW s, NEW g, NEW r, Around(s, g, r), NEW lanes, NEW bs, Carried(s, g, r, lanes, bs),
           NEW x \in SentRecord, Len(s) < MaxMsgs
    PROVE  Around(Append(s, x), g, r) /\ Carried(Append(s, x), g, r, lanes, bs)
<1> DEFINE S == Append(s, x)
<1>1. /\ s \in Seq(SentRecord) /\ par \in ParType /\ GroupPar /\ gone \in Nat /\ r \in [ReceiverLanes -> ReasmType]
      /\ Len(s) \in Nat /\ MaxMsgs \in Nat
  BY FramesAssumption DEF Around
<1>2. S \in Seq(SentRecord) /\ Len(S) = Len(s) + 1
  BY <1>1
<1>3. \A b : Cut(s, b) => /\ Cut(S, b) /\ S[MsgOf(b)] = s[MsgOf(b)]
                          /\ (Ending(s, b) => Ending(S, b)) /\ (Whole(s, b) => Whole(S, b))
  BY <1>1, CutGrows
<1> HIDE DEF S
<1>4. Around(S, g, r)
  <2>1. faults = 0 => \A i \in 1..Len(g) : Cut(S, g[i].body)
    BY <1>3 DEF Around
  <2> QED BY <2>1, <1>1, <1>2 DEF Around
<1>5. \A k, f : GoodFrame(s, k, f) => GoodFrame(S, k, f)
  BY <1>3 DEF GoodFrame, Whole, Ending
<1>6. \A b : GoodPiece(s, b) => GoodPiece(S, b)
  BY <1>3, <1>5 DEF GoodPiece
<1>7. Pieces(S, lanes, bs)
  BY <1>5, <1>6 DEF Carried, Pieces
<1>8. faults = 0 => Tiled(bs) /\ Opened(S, r, bs)
  BY <1>3 DEF Carried, Opened
<1>9. Lasting(bs) => /\ Bounded(lanes, bs) /\ Numbered(lanes, bs) /\ Expecting(S, r, lanes, bs)
                     /\ Endings(S, g)
  <2>1. Lasting(bs) => /\ Bounded(lanes, bs) /\ Numbered(lanes, bs) /\ Expecting(s, r, lanes, bs)
                       /\ Endings(s, g)
    BY DEF Carried
  <2>2. Expecting(s, r, lanes, bs) => Expecting(S, r, lanes, bs)
    BY <1>3 DEF Expecting
  <2>3. Endings(s, g) => Endings(S, g)
    BY <1>3 DEF Endings, Ending
  <2> QED BY <2>1, <2>2, <2>3
<1> QED BY <1>4, <1>7, <1>8, <1>9 DEF Carried, S

\* What is under way is of messages sent before.
LEMMA SentBefore ==
    ASSUME NEW s, NEW g, NEW r, Around(s, g, r), NEW lanes, NEW bs, Carried(s, g, r, lanes, bs)
    PROVE  /\ \A k \in Lanes : Below(MsgsIn(lanes[k].batch), {Len(s) + 1})
           /\ \A j \in 1..Len(bs) : Below(Msgs(bs[j]), {Len(s) + 1})
           /\ faults = 0 => \A k : Below(Seen(g, k), {Len(s) + 1})
<1>1. Len(s) \in Nat
  BY DEF Around
<1>2. \A b : Cut(s, b) => MsgOf(b) < Len(s) + 1
  BY <1>1 DEF Cut
<1>3. \A k, f : GoodFrame(s, k, f) => Below(MsgsIn(f), {Len(s) + 1})
  BY <1>2 DEF GoodFrame, Whole, Ending, MsgsIn, Below
<1>4. \A k \in Lanes : Below(MsgsIn(lanes[k].batch), {Len(s) + 1})
  BY <1>3 DEF Carried, Pieces
<1>5. ASSUME NEW j \in 1..Len(bs) PROVE Below(Msgs(bs[j]), {Len(s) + 1})
  <2>1. GoodPiece(s, bs[j]) /\ bs[j] \in GoodBatches
    BY DEF Carried, Pieces, Fits
  <2>2. bs[j].kind = "frame" \/ bs[j].kind = "frag"
    BY <2>1 DEF GoodBatches, BatchType
  <2>3. CASE bs[j].kind = "frame"
    BY <2>1, <2>3, <1>3 DEF GoodPiece, Msgs
  <2>4. CASE bs[j].kind = "frag"
    BY <2>1, <2>4, <1>2 DEF GoodPiece, Msgs, Below
  <2> QED BY <2>2, <2>3, <2>4
<1>6. ASSUME faults = 0, NEW k PROVE Below(Seen(g, k), {Len(s) + 1})
  BY <1>2, <1>6 DEF Around, Seen, Below
<1> QED BY <1>4, <1>5, <1>6

\* appendToLane of the message just sent.
LEMMA AppendCarries ==
    ASSUME NEW s, NEW g, NEW r, Around(s, g, r), NEW old, NEW bs, Carried(s, g, r, old, bs),
           SizesFit, NEW k \in Lanes, NEW n \in Sizes, Len(s) < MaxMsgs,
           HeaderSize + Batched(old[k].batch) + n <= par.batch
    PROVE  LET a == AppendToLane([lane |-> old, net |-> bs], k, Cells(Len(s) + 1, n))
           IN  Carried(Append(s, [lane |-> k, size |-> n]), g, r, a.lane, a.net)
<1> DEFINE x == [lane |-> k, size |-> n]
           S == Append(s, x)
           m == Len(s) + 1
           msg == Cells(m, n)
           a == AppendToLane([lane |-> old, net |-> bs], k, msg)
           L == [old EXCEPT ![k].batch = Append(@, msg)]
<1>1. a.lane = L /\ a.net = bs
  BY DEF AppendToLane
<1>2. /\ s \in Seq(SentRecord) /\ par \in ParType /\ Fits(old, bs) /\ x \in SentRecord
      /\ old \in [Lanes -> GoodLanes] /\ bs \in Seq(GoodBatches)
      /\ Len(s) \in Nat /\ m \in Nat
  BY DEF Around, Carried, Fits, SentRecord
<1>3. Around(S, g, r) /\ Carried(S, g, r, old, bs)
  BY <1>2, GrowCarried
<1>4. /\ Whole(S, msg) /\ MsgOf(msg) = m /\ S[MsgOf(msg)].lane = k /\ Len(msg) = n
  BY <1>2, MessageWhole
<1>5. msg \in Body
  BY <1>4 DEF Whole, Ending, Cut
<1>6. Len(S) = m
  BY <1>2
<1> HIDE DEF S, m, msg
<1>7. Fits(L, bs)
  <2>1. Fits(a.lane, a.net)
    BY <1>2, <1>4, <1>5, AppendFacts
  <2> QED BY <2>1, <1>1
<1> HIDE DEF a
<1>8. PICK f \in Seq(Body) : f = old[k].batch
  BY <1>2, GoodFields
<1>9. /\ L \in [Lanes -> GoodLanes] /\ L[k].batch = Append(f, msg)
      /\ \A j \in Lanes : L[j].seqNum = old[j].seqNum /\ (j # k => L[j] = old[j])
  BY <1>2, <1>7, <1>8 DEF Fits, GoodLanes, LaneType
<1> HIDE DEF L
<1> DEFINE F == Append(f, msg)
           p == Len(f)
<1>10. /\ p \in Nat /\ Len(F) = p + 1 /\ F[p + 1] = msg /\ \A i \in 1..p : F[i] = f[i]
       /\ \A i \in 1..Len(F) : i \in 1..p \/ i = p + 1
       /\ F # <<>>
  BY <1>5
<1> HIDE DEF F, p
<1>11. Pieces(S, L, bs)
  <2>1. /\ \A j \in Lanes : GoodFrame(S, j, old[j].batch)
        /\ \A j \in 1..Len(bs) : GoodPiece(S, bs[j])
    BY <1>3 DEF Carried, Pieces
  <2>2. GoodFrame(S, k, F)
    <3>1. GoodFrame(S, k, f) /\ p = Len(f)
      BY <2>1, <1>8 DEF p
    <3> QED BY <3>1, <1>4, <1>10 DEF GoodFrame
  <2>3. \A j \in Lanes : GoodFrame(S, j, L[j].batch)
    BY <2>1, <2>2, <1>9 DEF F
  <2> QED BY <2>1, <2>3 DEF Pieces
<1>12. MsgsIn(F) = MsgsIn(f) \cup {m}
  <2>1. \A y : y \in MsgsIn(F) <=> y \in MsgsIn(f) \cup {m}
    <3> SUFFICES ASSUME NEW y PROVE y \in MsgsIn(F) <=> y \in MsgsIn(f) \cup {m}
      OBVIOUS
    <3>0. p = Len(f)
      BY DEF p
    <3>1. y \in MsgsIn(F) <=> \E i \in 1..Len(F) : y = MsgOf(F[i])
      BY DEF MsgsIn
    <3>2. y \in MsgsIn(f) <=> \E i \in 1..p : y = MsgOf(f[i])
      BY <3>0 DEF MsgsIn
    <3>3. (\E i \in 1..Len(F) : y = MsgOf(F[i])) <=> (\E i \in 1..p : y = MsgOf(f[i])) \/ y = m
      <4>1. \A i \in 1..p : i \in 1..Len(F)
        BY <1>10
      <4>2. p + 1 \in 1..Len(F)
        BY <1>10
      <4> QED BY <4>1, <4>2, <1>4, <1>10
    <3> QED BY <3>1, <3>2, <3>3
  <2> QED BY <2>1
<1>13. ASSUME faults = 0, par.qos PROVE Ordered(g, L, bs)
  <2>1. Ordered(g, old, bs)
    BY <1>13 DEF Carried
  <2>2. /\ Below(MsgsIn(f), {m}) /\ \A j \in 1..Len(bs) : Below(Msgs(bs[j]), {m})
        /\ \A j : Below(Seen(g, j), {m})
    BY <1>8, <1>13, SentBefore DEF m
  <2>3. Rising(F)
    <3>1. Rising(f) /\ p = Len(f)
      BY <2>1, <1>8 DEF Ordered, LanesOrdered, p
    <3> SUFFICES ASSUME NEW i \in 1..Len(F), NEW j \in 1..Len(F), i < j
                 PROVE  MsgOf(F[i]) < MsgOf(F[j])
      BY DEF Rising
    <3>2. i \in 1..p
      BY <1>10
    <3>3. CASE j \in 1..p
      BY <3>1, <3>2, <3>3, <1>10 DEF Rising
    <3>4. CASE j = p + 1
      <4>1. MsgOf(f[i]) \in MsgsIn(f)
        BY <3>1, <3>2 DEF MsgsIn
      <4>2. MsgOf(f[i]) < m
        BY <4>1, <2>2 DEF Below
      <4> QED BY <4>2, <3>2, <3>4, <1>4, <1>10
    <3> QED BY <3>3, <3>4, <1>10
  <2>4. \A M : Below(M, MsgsIn(f)) /\ Below(M, {m}) => Below(M, MsgsIn(F))
    BY <1>12 DEF Below
  <2>5. LanesOrdered(g, L)
    <3> SUFFICES ASSUME NEW j \in Lanes PROVE Rising(L[j].batch) /\ Below(Seen(g, j), MsgsIn(L[j].batch))
      BY DEF LanesOrdered
    <3>1. Rising(old[j].batch) /\ Below(Seen(g, j), MsgsIn(old[j].batch))
      BY <2>1 DEF Ordered, LanesOrdered
    <3>2. CASE j = k
      <4>1. L[j].batch = F
        BY <3>2, <1>9 DEF F
      <4> QED BY <4>1, <3>1, <3>2, <2>2, <2>3, <2>4, <1>8
    <3>3. CASE j # k
      BY <3>1, <3>3, <1>9
    <3> QED BY <3>2, <3>3
  <2>6. ASSUME NEW j \in 1..Len(bs) PROVE BatchOrdered(g, L, bs[j])
    <3>1. BatchOrdered(g, old, bs[j]) /\ bs[j].lane \in Lanes
      BY <2>1, <1>2, GoodFields DEF Ordered
    <3>2. Below(Msgs(bs[j]), MsgsIn(L[bs[j].lane].batch))
      <4>1. CASE bs[j].lane = k
        <5>1. L[bs[j].lane].batch = F /\ Below(Msgs(bs[j]), MsgsIn(f))
          BY <4>1, <3>1, <1>8, <1>9 DEF BatchOrdered, F
        <5> QED BY <5>1, <2>2, <2>4
      <4>2. CASE bs[j].lane # k
        BY <4>2, <3>1, <1>9 DEF BatchOrdered
      <4> QED BY <4>1, <4>2
    <3> QED BY <3>1, <3>2 DEF BatchOrdered
  <2> QED BY <2>1, <2>5, <2>6 DEF Ordered
<1>14. ASSUME Lasting(bs)
       PROVE  Bounded(L, bs) /\ Numbered(L, bs) /\ Expecting(S, r, L, bs) /\ Endings(S, g)
  <2>1. Bounded(old, bs) /\ Numbered(old, bs) /\ Expecting(S, r, old, bs) /\ Endings(S, g)
    BY <1>3, <1>14 DEF Carried
  <2>2. Expecting(S, r, L, bs)
    BY <2>1, <1>9 DEF Expecting
  <2>3. Numbered(L, bs)
    <3>1. \A j \in 1..Len(bs) : bs[j].lane \in Lanes
      BY <1>2, GoodFields
    <3> QED BY <3>1, <2>1, <1>9 DEF Numbered
  <2>4. Bounded(L, bs)
    BY <2>1, <1>9 DEF Bounded
  <2> QED BY <2>1, <2>2, <2>3, <2>4
<1>15. faults = 0 => Tiled(bs) /\ Opened(S, r, bs)
  BY <1>3 DEF Carried
<1>16. Carried(S, g, r, L, bs)
  BY <1>7, <1>11, <1>13, <1>14, <1>15 DEF Carried
<1> QED BY <1>1, <1>16 DEF a, S, m, msg

\* A message that is cut into count chunks.
Chunked(s, msg, m, len, chunk, count) ==
    /\ msg \in Body /\ m \in 1..Len(s) /\ len \in Nat \ {0} /\ Len(msg) = len
    /\ s[m].size = len /\ \A i \in 1..len : msg[i] = <<m, i>>
    /\ chunk \in Nat \ {0} /\ count \in Nat \ {0}
    /\ len <= chunk * count /\ chunk * count < len + chunk

\* The chunks of a message follow each other, and only the last one ends it.
LEMMA ChunkRuns ==
    ASSUME NEW s, NEW msg, NEW m, NEW len, NEW chunk, NEW count,
           Chunked(s, msg, m, len, chunk, count), NEW j \in 1..count
    PROVE  LET a == (j-1) * chunk + 1
               z == IF j < count THEN j * chunk ELSE len
               body == SubSeq(msg, a, z)
           IN  /\ Cut(s, body) /\ MsgOf(body) = m /\ Start(body) = a /\ End(body) = z
               /\ j < count <=> z < len
<1> USE DEF Chunked
<1>1. PICK e \in Nat : e = (j-1) * chunk
  OBVIOUS
<1>2. j * chunk = e + chunk
  BY <1>1
<1> DEFINE z == IF j < count THEN j * chunk ELSE len
<1>3. z \in Nat /\ e + 1 <= z /\ z <= len /\ (j < count <=> z < len)
  <2>0. PICK c \in Nat : c = chunk * count
    OBVIOUS
  <2>1. CASE j < count
    <3>1. chunk * j + chunk <= chunk * count
      BY <2>1, MultiplesApart
    <3>2. chunk * j = e + chunk
      BY <1>2
    <3>3. z = e + chunk
      BY <2>1, <1>2
    <3> HIDE DEF z
    <3> QED BY <2>0, <2>1, <3>1, <3>2, <3>3
  <2>2. CASE j = count
    <3>1. chunk * count = e + chunk
      BY <2>2, <1>2
    <3>2. z = len
      BY <2>2
    <3> HIDE DEF z
    <3> QED BY <2>0, <2>2, <3>1, <3>2
  <2> QED BY <2>1, <2>2
<1> HIDE DEF z
<1>4. PICK a \in Nat \ {0} : a = e + 1
  BY <1>1
<1> DEFINE b == SubSeq(msg, a, z)
<1>5. b \in Body /\ Len(b) = z - a + 1 /\ \A i \in 1..(z - a + 1) : b[i] = msg[a + i - 1]
  <2>1. a <= z /\ \A i \in a..z : i \in 1..Len(msg)
    BY <1>3, <1>4
  <2> DEFINE X == Nat \X Nat
  <2>2. \A i \in a..z : msg[i] \in X
    BY <2>1 DEF Body
  <2> HIDE DEF X
  <2>3. /\ SubSeq(msg, a, z) \in Seq(X) /\ Len(SubSeq(msg, a, z)) = (IF a <= z THEN z - a + 1 ELSE 0)
        /\ \A i \in 1..(z - a + 1) : SubSeq(msg, a, z)[i] = msg[a + i - 1]
    BY <2>2, <1>3, SubSeqProperties
  <2> QED BY <2>1, <2>3 DEF Body, X
<1> HIDE DEF b
<1>6. \A i \in 1..Len(b) : b[i] = <<m, a + i - 1>>
  <2> SUFFICES ASSUME NEW i \in 1..Len(b) PROVE b[i] = <<m, a + i - 1>>
    OBVIOUS
  <2>1. i \in 1..(z - a + 1) /\ a + i - 1 \in 1..len
    BY <1>3, <1>4, <1>5
  <2> QED BY <2>1, <1>5
<1>7. RunOf(s, b, m, a, z)
  BY <1>3, <1>4, <1>5, <1>6 DEF RunOf
<1>8. Cut(s, b) /\ MsgOf(b) = m /\ Start(b) = a /\ End(b) = z
  BY <1>7, RunIsCut
<1> QED BY <1>1, <1>3, <1>4, <1>8 DEF b, z

\* A chunk holds a cell at least.
LEMMA FewChunks ==
    ASSUME NEW len \in Nat, NEW chunk \in Nat \ {0}, NEW count \in Nat,
           chunk * count < len + chunk
    PROVE  count <= len
<1> SUFFICES ASSUME len < count PROVE FALSE
  OBVIOUS
<1>1. chunk * len + chunk <= chunk * count
  BY MultiplesApart
<1>2. len <= chunk * len
  <2>1. PICK d \in Nat : chunk = d + 1
    <3>1. chunk - 1 \in Nat /\ chunk = (chunk - 1) + 1
      OBVIOUS
    <3> QED BY <3>1
  <2>2. chunk * len = d * len + len /\ d * len \in Nat
    BY <2>1
  <2> QED BY <2>2
<1>3. chunk * len \in Nat /\ chunk * count \in Nat
  OBVIOUS
<1> QED BY <1>1, <1>2, <1>3

\* fragmentLocked of the message just sent.
LEMMA FragmentCarries ==
    ASSUME NEW s, NEW g, NEW r, Around(s, g, r), NEW old, NEW bs, Carried(s, g, r, old, bs),
           SizesFit, NEW k \in Lanes, NEW n \in Sizes, Len(s) < MaxMsgs,
           old[k].batch = <<>>, par.batch > Overhead
    PROVE  LET f == FragmentLane([lane |-> old, net |-> bs], k, Cells(Len(s) + 1, n))
           IN  Carried(Append(s, [lane |-> k, size |-> n]), g, r, f.lane, f.net)
<1> DEFINE x == [lane |-> k, size |-> n]
           S == Append(s, x)
           m == Len(s) + 1
           msg == Cells(m, n)
           f == FragmentLane([lane |-> old, net |-> bs], k, msg)
           chunk == par.batch - Overhead
           count == (Len(msg) + chunk - 1) \div chunk
           q == old[k].seqNum
           t == [j \in 1..count |->
                   [kind |-> "frag", lane |-> k, sn |-> (q + j - 1) % par.mod,
                    more |-> j < count,
                    body |-> SubSeq(msg, (j-1) * chunk + 1, IF j < count THEN j * chunk ELSE Len(msg))]]
           L == [old EXCEPT ![k].seqNum = (@ + count) % par.mod]
<1>1. f.lane = L /\ f.net = bs \o t
  BY DEF FragmentLane
<1>2. /\ s \in Seq(SentRecord) /\ par \in ParType /\ Fits(old, bs) /\ x \in SentRecord
      /\ old \in [Lanes -> GoodLanes] /\ bs \in Seq(GoodBatches)
      /\ Len(s) \in Nat /\ m \in Nat
  BY DEF Around, Carried, Fits, SentRecord
<1>3. Around(S, g, r) /\ Carried(S, g, r, old, bs)
  BY <1>2, GrowCarried
<1>4. /\ Whole(S, msg) /\ MsgOf(msg) = m /\ S[MsgOf(msg)].lane = k /\ Len(msg) = n
      /\ S[MsgOf(msg)].size = n /\ \A i \in 1..n : msg[i] = <<m, i>>
  BY <1>2, MessageWhole
<1>5. msg \in Body /\ m \in 1..Len(S)
  BY <1>4 DEF Whole, Ending, Cut
<1>6. Len(S) = m
  BY <1>2
<1> HIDE DEF S, m, msg
<1>7. n \in Nat \ {0} /\ chunk \in Nat \ {0} /\ par.mod \in Nat \ {0} /\ q \in Nat /\ q < par.mod
  <2>1. par.batch \in Nat /\ par.mod \in Nat \ {0} /\ q \in Nat /\ q < par.mod
    BY <1>2, GoodFields DEF ParType
  <2> QED BY <2>1, FramesAssumption
<1>8. count \in Nat \ {0} /\ n <= chunk * count /\ chunk * count < n + chunk
  BY <1>4, <1>7, ChunkCount
<1>9. Fits(L, bs \o t)
  <2>1. Fits(f.lane, f.net)
    BY <1>2, <1>4, <1>5, <1>7, FragmentFacts
  <2> QED BY <2>1, <1>1
<1> HIDE DEF f, chunk, count, q
<1>10. count <= n
  BY <1>7, <1>8, FewChunks
<1> DEFINE from(j) == (j-1) * chunk + 1
           to(j) == IF j < count THEN j * chunk ELSE n
<1>11. ASSUME NEW j \in 1..count
       PROVE  /\ t[j].kind = "frag" /\ t[j].lane = k /\ t[j].sn = (q + j - 1) % par.mod
              /\ t[j].more = (j < count)
              /\ t[j].body = SubSeq(msg, from(j), to(j))
  BY <1>4
<1>12. ASSUME NEW j \in 1..count
       PROVE  /\ Cut(S, t[j].body) /\ MsgOf(t[j].body) = m /\ Start(t[j].body) = from(j)
              /\ End(t[j].body) = to(j) /\ (j < count <=> to(j) < n)
  <2>1. LET body == SubSeq(msg, from(j), to(j))
        IN  /\ Cut(S, body) /\ MsgOf(body) = m /\ Start(body) = from(j) /\ End(body) = to(j)
            /\ j < count <=> to(j) < n
    <3>1. Chunked(S, msg, m, n, chunk, count)
      BY <1>4, <1>5, <1>7, <1>8 DEF Chunked
    <3> QED BY <3>1, ChunkRuns
  <2> QED BY <2>1, <1>11
<1>13. Len(t) = count /\ t \in Seq(GoodBatches) /\ \A j \in DOMAIN t : j \in 1..count
  <2>1. Len(t) = count /\ DOMAIN t = 1..count
    BY <1>8
  <2>2. ASSUME NEW j \in 1..count PROVE t[j] \in GoodBatches
    <3> DEFINE X == GoodBatches \cup {t[i] : i \in 1..count}
               u == bs \o t
    <3>1. (\A i \in 1..count : t[i] \in X) /\ (\A b \in GoodBatches : b \in X)
      OBVIOUS
    <3> HIDE DEF X
    <3>2. bs \in Seq(X)
      BY <3>1, <1>2
    <3>3. u[Len(bs) + j] = t[j] /\ Len(bs) + j \in 1..Len(u)
      <4>0. t \in [1..count -> X]
        BY <3>1
      <4>1. bs \in Seq(X) /\ t \in Seq(X)
        <5> HIDE DEF t
        <5> QED BY <3>2, <4>0, <1>8
      <4> HIDE DEF t
      <4>2. /\ Len(bs) \in Nat /\ Len(t) \in Nat /\ Len(u) = Len(bs) + Len(t)
            /\ \A i \in 1..Len(t) : u[Len(bs) + i] = t[i]
        BY <4>1, ConcatFacts
      <4> HIDE DEF u
      <4> QED BY <4>2, <2>1, <1>8
    <3>4. u \in Seq(GoodBatches)
      BY <1>9 DEF Fits
    <3> HIDE DEF u, t
    <3> QED BY <3>3, <3>4
  <2>3. t \in [1..count -> GoodBatches]
    BY <2>2
  <2> HIDE DEF t
  <2> QED BY <2>1, <2>3, <1>8
<1>14. /\ L \in [Lanes -> GoodLanes] /\ L[k].batch = <<>> /\ L[k].seqNum = (q + count) % par.mod
       /\ \A j \in Lanes : L[j].batch = old[j].batch /\ (j # k => L[j] = old[j])
  BY <1>2, <1>9 DEF Fits, GoodLanes, LaneType, q
<1> HIDE DEF t, L
<1>15. Pieces(S, L, bs \o t)
  <2>1. /\ \A j \in Lanes : GoodFrame(S, j, old[j].batch)
        /\ \A j \in 1..Len(bs) : GoodPiece(S, bs[j])
    BY <1>3 DEF Carried, Pieces
  <2>2. ASSUME NEW j \in 1..Len(t) PROVE GoodPiece(S, t[j])
    <3>1. j \in 1..count
      BY <1>13
    <3>2. /\ t[j].kind = "frag" /\ t[j].lane = k /\ (t[j].more <=> j < count)
          /\ Cut(S, t[j].body) /\ MsgOf(t[j].body) = m /\ End(t[j].body) = to(j)
          /\ (j < count <=> to(j) < n) /\ S[m].size = n /\ S[m].lane = k
      BY <3>1, <1>4, <1>11, <1>12
    <3> HIDE DEF to
    <3> QED BY <3>2 DEF GoodPiece
  <2> DEFINE u == bs \o t
  <2>3. /\ \A i \in 1..Len(bs) : u[i] = bs[i]
        /\ \A i \in 1..Len(t) : u[Len(bs) + i] = t[i]
        /\ \A i \in 1..Len(u) : i \in 1..Len(bs) \/ \E j \in 1..Len(t) : i = Len(bs) + j
    BY <1>2, <1>13, ConcatFacts
  <2> HIDE DEF u
  <2>4. ASSUME NEW j \in 1..Len(u) PROVE GoodPiece(S, u[j])
    <3>1. CASE j \in 1..Len(bs)
      BY <3>1, <2>1, <2>3
    <3>2. ASSUME NEW i \in 1..Len(t), j = Len(bs) + i PROVE GoodPiece(S, u[j])
      BY <3>2, <2>2, <2>3
    <3> QED BY <3>1, <3>2, <2>3
  <2> QED BY <2>1, <2>4, <1>14 DEF Pieces, u
<1>16. ASSUME NEW j \in 1..count, j < count
       PROVE  /\ j + 1 \in 1..count /\ Joins(t[j].body, t[j + 1])
              /\ t[j + 1].sn = NextSN(t[j].sn, par.mod)
  <2>1. j + 1 \in 1..count
    BY <1>8, <1>16
  <2>2. from(j + 1) = to(j) + 1
    <3>1. to(j) = j * chunk /\ j * chunk \in Nat
      BY <1>7, <1>16
    <3>2. from(j + 1) = j * chunk + 1
      <4>1. j + 1 - 1 = j
        OBVIOUS
      <4> QED BY <4>1
    <3> QED BY <3>1, <3>2
  <2>3. Joins(t[j].body, t[j + 1])
    <3>1. /\ t[j + 1].kind = "frag" /\ MsgOf(t[j + 1].body) = m /\ MsgOf(t[j].body) = m
          /\ Start(t[j + 1].body) = from(j + 1) /\ End(t[j].body) = to(j)
      BY <2>1, <1>11, <1>12
    <3> HIDE DEF from, to
    <3> QED BY <3>1, <2>2 DEF Joins
  <2>4. t[j + 1].sn = NextSN(t[j].sn, par.mod)
    <3>1. PICK y \in Nat : y = q + j - 1
      BY <1>7
    <3>2. y + 1 = q + (j + 1) - 1
      BY <3>1, <1>7
    <3>3. t[j].sn = y % par.mod /\ t[j + 1].sn = (y + 1) % par.mod
      BY <3>1, <3>2, <2>1, <1>11
    <3> QED BY <3>3, <1>7, NextOfMod
  <2> QED BY <2>1, <2>3, <2>4
<1>17. Begins(t[1]) /\ t # <<>>
  <2>1. 1 \in 1..count /\ (1 - 1) * chunk + 1 = 1
    BY <1>7, <1>8
  <2> QED BY <2>1, <1>8, <1>12, <1>13 DEF Begins
<1>18. ASSUME faults = 0 PROVE Tiled(bs \o t) /\ Opened(S, r, bs \o t)
  <2>1. Tiled(bs) /\ Opened(S, r, bs)
    BY <1>3, <1>18 DEF Carried
  <2>2. ASSUME NEW j \in 1..Len(t), t[j].more PROVE j < Len(t) /\ Continues(t[j], t[j + 1])
    <3>1. j \in 1..count /\ j < count
      BY <2>2, <1>11, <1>13
    <3> QED BY <3>1, <1>11, <1>13, <1>16 DEF Continues
  <2>3. ASSUME NEW j \in 2..Len(t) PROVE t[j - 1].more
    <3>1. j - 1 \in 1..count /\ j - 1 < count
      BY <1>8, <1>13
    <3> QED BY <3>1, <1>11
  <2>4. Tiled(t)
    BY <2>2, <2>3 DEF Tiled
  <2> QED BY <2>1, <2>4, <1>2, <1>13, <1>17, EmitTiled, EmitOpened
<1>19. ASSUME faults = 0, par.qos PROVE Ordered(g, L, bs \o t)
  <2>1. Ordered(g, old, bs)
    BY <1>19 DEF Carried
  <2>2. /\ \A j \in 1..Len(bs) : Below(Msgs(bs[j]), {m})
        /\ \A j : Below(Seen(g, j), {m})
    BY <1>19, SentBefore DEF m
  <2>3. LanesOrdered(g, L)
    BY <2>1, <1>14 DEF Ordered, LanesOrdered
  <2>4. ASSUME NEW j \in 1..Len(t) PROVE j \in 1..count /\ Msgs(t[j]) = {m} /\ t[j].kind = "frag" /\ t[j].lane = k
    BY <1>11, <1>12, <1>13 DEF Msgs
  <2>5. MsgsIn(<<>>) = {} /\ \A M : Below(M, {})
    BY DEF MsgsIn, Below
  <2>6. \A j \in 1..Len(t) : BatchOrdered(g, L, t[j])
    BY <2>2, <2>4, <2>5, <1>14 DEF BatchOrdered
  <2>7. LinkOrdered(t)
    <3> SUFFICES ASSUME NEW j \in 1..Len(t), NEW i \in 1..(j-1), ~t[i].more PROVE FALSE
      BY DEF LinkOrdered
    <3>1. i \in 1..count /\ i < count
      BY <1>8, <1>13
    <3> QED BY <3>1, <1>11
  <2>8. \A i \in 1..Len(bs), j \in 1..Len(t) : bs[i].lane = t[j].lane => Below(Msgs(bs[i]), Msgs(t[j]))
    BY <2>2, <2>4
  <2>9. ASSUME NEW i \in 1..Len(bs) PROVE Below(Msgs(bs[i]), MsgsIn(L[bs[i].lane].batch))
    <3>1. Below(Msgs(bs[i]), MsgsIn(old[bs[i].lane].batch)) /\ bs[i].lane \in Lanes
      BY <2>1, <1>2, GoodFields DEF Ordered, BatchOrdered
    <3> QED BY <3>1, <1>14
  <2> QED BY <2>1, <2>3, <2>6, <2>7, <2>8, <2>9, <1>2, <1>13, EmitOrdered
<1>20. ASSUME Lasting(bs \o t)
       PROVE  /\ Bounded(L, bs \o t) /\ Numbered(L, bs \o t) /\ Expecting(S, r, L, bs \o t)
              /\ Endings(S, g)
  <2>0. /\ Len(bs) \in Nat /\ Len(bs \o t) = Len(bs) + count /\ gone \in Nat
        /\ gone + Len(bs) + count < par.mod
    <3>1. Len(bs) \in Nat /\ Len(bs \o t) = Len(bs) + count
      BY <1>2, <1>13, ConcatFacts
    <3>2. gone \in Nat
      BY DEF Around
    <3> QED BY <3>1, <3>2, <1>8, <1>20 DEF Lasting
  <2>a. Lasting(bs)
    BY <2>0, <1>7, <1>8, <1>20 DEF Lasting
  <2>1. Bounded(old, bs) /\ Numbered(old, bs) /\ Expecting(S, r, old, bs) /\ Endings(S, g)
    BY <1>3, <2>a DEF Carried
  <2>2. q <= gone + Len(bs)
    BY <2>1 DEF Bounded, q
  <2>4. q + count < par.mod
    BY <2>0, <2>2, <1>7, <1>8
  <2>5. L[k].seqNum = q + count
    <3>1. q + count \in 0..(par.mod - 1)
      BY <2>4, <1>7, <1>8
    <3> QED BY <3>1, <1>7, <1>14, ModSmall
  <2>6. ASSUME NEW j \in 1..count PROVE t[j].sn = q + j - 1
    <3>1. q + j - 1 \in 0..(par.mod - 1)
      BY <2>4, <1>7, <1>8
    <3>2. PICK y \in 0..(par.mod - 1) : y = q + j - 1
      BY <3>1
    <3>3. y % par.mod = y
      BY <1>7, ModSmall
    <3> QED BY <3>2, <3>3, <1>11
  <2>7. Bounded(L, bs \o t)
    <3> SUFFICES ASSUME NEW j \in Lanes PROVE L[j].seqNum <= gone + Len(bs \o t)
      BY DEF Bounded
    <3>1. CASE j # k
      <4>1. L[j].seqNum = old[j].seqNum /\ old[j].seqNum \in Nat /\ old[j].seqNum <= gone + Len(bs)
        BY <3>1, <2>1, <1>2, <1>14, GoodFields DEF Bounded
      <4> QED BY <4>1, <2>0, <1>8
    <3>2. CASE j = k
      BY <3>2, <2>0, <2>2, <2>5, <1>7, <1>8
    <3> QED BY <3>1, <3>2
  <2>8. \A j \in Lanes : old[j].seqNum <= L[j].seqNum
    <3> SUFFICES ASSUME NEW j \in Lanes PROVE old[j].seqNum <= L[j].seqNum
      OBVIOUS
    <3>1. CASE j = k
      BY <3>1, <2>5, <1>7, <1>8 DEF q
    <3>2. CASE j # k
      <4>1. L[j] = old[j] /\ old[j].seqNum \in Nat
        BY <3>2, <1>2, <1>14, GoodFields
      <4> QED BY <4>1
    <3> QED BY <3>1, <3>2
  <2>9. ASSUME NEW j \in 1..Len(t) PROVE old[t[j].lane].seqNum <= t[j].sn
    <3>1. j \in 1..count /\ t[j].lane = k /\ t[j].sn = q + j - 1 /\ old[k].seqNum = q
      BY <1>11, <1>13, <2>6 DEF q
    <3> QED BY <3>1, <1>7
  <2>10. Numbered(L, t)
    <3> SUFFICES ASSUME NEW j \in 1..Len(t)
                 PROVE  /\ t[j].sn < L[t[j].lane].seqNum
                        /\ t[j].more => /\ t[j].sn + 1 < L[t[j].lane].seqNum
                                        /\ \A i \in 1..Len(t) :
                                              t[i].lane = t[j].lane /\ t[i].sn = t[j].sn + 1 =>
                                                 Joins(t[j].body, t[i])
      BY DEF Numbered
    <3>1. /\ j \in 1..count /\ t[j].lane = k /\ t[j].sn = q + j - 1 /\ L[t[j].lane].seqNum = q + count
          /\ (t[j].more <=> j < count)
      BY <1>11, <1>13, <2>5, <2>6
    <3>2. t[j].sn < L[t[j].lane].seqNum
      BY <3>1, <1>7, <1>8
    <3>3. ASSUME t[j].more
          PROVE  /\ t[j].sn + 1 < L[t[j].lane].seqNum
                 /\ \A i \in 1..Len(t) : t[i].sn = t[j].sn + 1 => Joins(t[j].body, t[i])
      <4>1. j < count /\ t[j].sn + 1 < L[t[j].lane].seqNum
        BY <3>1, <3>3, <1>7, <1>8
      <4>2. ASSUME NEW i \in 1..Len(t), t[i].sn = t[j].sn + 1 PROVE Joins(t[j].body, t[i])
        <5>1. i \in 1..count /\ t[i].sn = q + i - 1
          BY <1>13, <2>6
        <5>2. i = j + 1
          BY <5>1, <4>2, <3>1, <1>7
        <5> QED BY <5>2, <4>1, <3>1, <1>16
      <4> QED BY <4>1, <4>2
    <3> QED BY <3>2, <3>3
  <2>11. r \in [ReceiverLanes -> ReasmType]
    BY DEF Around
  <2>12. Numbered(L, bs \o t)
    BY <2>1, <2>8, <2>9, <2>10, <1>2, <1>13, <1>14, EmitNumbered
  <2>13. Expecting(S, r, L, bs \o t)
    BY <2>1, <2>8, <2>9, <2>10, <2>11, <1>2, <1>13, <1>14, EmitNumbered
  <2> QED BY <2>1, <2>7, <2>12, <2>13
<1>21. Carried(S, g, r, L, bs \o t)
  BY <1>9, <1>15, <1>18, <1>19, <1>20 DEF Carried
<1> QED BY <1>1, <1>21 DEF f, S, m, msg

\* Batcher.Enqueue of the message just sent.
LEMMA EnqueueCarries ==
    ASSUME NEW s, NEW g, NEW r, Around(s, g, r), NEW lanes, NEW bs, Carried(s, g, r, lanes, bs),
           SizesFit, NEW k \in Lanes, NEW n \in Sizes, Len(s) < MaxMsgs,
           NEW express \in BOOLEAN, ~Refused(Cells(Len(s) + 1, n))
    PROVE  LET e == EnqueueTo([lane |-> lanes, net |-> bs], k, Cells(Len(s) + 1, n), express)
           IN  Carried(Append(s, [lane |-> k, size |-> n]), g, r, e.lane, e.net)
<1> DEFINE x == [lane |-> k, size |-> n]
           S == Append(s, x)
           msg == Cells(Len(s) + 1, n)
           w == [lane |-> lanes, net |-> bs]
           f == FlushLane(w, k)
           a == AppendToLane(f, k, msg)
           full == /\ lanes[k].batch # <<>>
                   /\ HeaderSize + Batched(lanes[k].batch) + Len(msg) > par.batch
           Good(e) == Carried(S, g, r, e.lane, e.net)
<1>1. /\ s \in Seq(SentRecord) /\ par \in ParType /\ x \in SentRecord /\ Len(s) \in Nat
      /\ lanes \in [Lanes -> GoodLanes]
  BY DEF Around, Carried, Fits, SentRecord
<1>2. Len(msg) = n /\ n \in Nat \ {0}
  BY <1>1, MessageWhole, FramesAssumption
<1>3. Around(S, g, r)
  BY <1>1, GrowCarried
<1> HIDE DEF msg, S
<1>4. \/ n > MaxFrameBodySize /\ EnqueueTo(w, k, msg, express) = FragmentLane(f, k, msg)
      \/ n <= MaxFrameBodySize /\ EnqueueTo(w, k, msg, express) = FlushLane(a, k)
      \/ n <= MaxFrameBodySize /\ EnqueueTo(w, k, msg, express) = a
      \/ /\ n <= MaxFrameBodySize /\ ~full
         /\ EnqueueTo(w, k, msg, express) = AppendToLane(w, k, msg)
  <2>1. MaxFrameBodySize \in Int
    BY <1>1, FramesAssumption DEF MaxFrameBodySize, ParType
  <2>2. CASE Len(msg) > MaxFrameBodySize
    BY <1>2, <2>2 DEF EnqueueTo
  <2>3. CASE ~(Len(msg) > MaxFrameBodySize) /\ express
    BY <1>2, <2>1, <2>3 DEF EnqueueTo
  <2>4. CASE ~(Len(msg) > MaxFrameBodySize) /\ ~express /\ full
    BY <1>2, <2>1, <2>4 DEF EnqueueTo
  <2>5. CASE ~(Len(msg) > MaxFrameBodySize) /\ ~express /\ ~full
    BY <1>2, <2>1, <2>5 DEF EnqueueTo
  <2> QED
    BY <2>2, <2>3, <2>4, <2>5
<1>5. /\ Carried(s, g, r, f.lane, f.net) /\ f.lane[k].batch = <<>>
      /\ f = [lane |-> f.lane, net |-> f.net]
  <2>1. Carried(s, g, r, f.lane, f.net) /\ f.lane[k].batch = <<>>
    BY FlushCarries
  <2>2. f = [lane |-> f.lane, net |-> f.net]
    BY DEF FlushLane
  <2> QED BY <2>1, <2>2
<1>6. /\ HeaderSize \in Nat /\ Overhead \in Nat /\ HeaderSize <= Overhead /\ par.batch \in Nat
      /\ Batched(<<>>) = 0
  BY <1>1, FramesAssumption, BatchedFacts DEF ParType
<1> HIDE DEF f
<1>7. ASSUME n > MaxFrameBodySize PROVE Good(FragmentLane(f, k, msg))
  <2>1. par.batch > Overhead
    BY <1>2, <1>6, <1>7 DEF Refused, msg
  <2>2. LET e == FragmentLane([lane |-> f.lane, net |-> f.net], k, Cells(Len(s) + 1, n))
        IN  Carried(Append(s, [lane |-> k, size |-> n]), g, r, e.lane, e.net)
    BY <1>5, <2>1, FragmentCarries
  <2> QED BY <1>5, <2>2 DEF msg, S
<1>8. ASSUME n <= MaxFrameBodySize PROVE Good(a) /\ Good(FlushLane(a, k))
  <2>1. HeaderSize + Batched(f.lane[k].batch) + n <= par.batch
    BY <1>2, <1>5, <1>6, <1>8 DEF MaxFrameBodySize
  <2>2. LET e == AppendToLane([lane |-> f.lane, net |-> f.net], k, Cells(Len(s) + 1, n))
        IN  Carried(Append(s, [lane |-> k, size |-> n]), g, r, e.lane, e.net)
    BY <1>5, <2>1, AppendCarries
  <2>3. Good(a)
    BY <1>5, <2>2 DEF msg, S
  <2>4. a = [lane |-> a.lane, net |-> a.net]
    BY DEF AppendToLane
  <2> HIDE DEF a
  <2>5. LET e == FlushLane([lane |-> a.lane, net |-> a.net], k)
        IN  Carried(S, g, r, e.lane, e.net)
    BY <2>3, <1>3, FlushCarries
  <2> QED
    BY <2>3, <2>4, <2>5
<1>9. ASSUME n <= MaxFrameBodySize, ~full PROVE Good(AppendToLane(w, k, msg))
  <2>1. HeaderSize + Batched(lanes[k].batch) + n <= par.batch
    <3>1. lanes[k].batch \in Seq(Body)
      BY <1>1, GoodFields
    <3>2. Batched(lanes[k].batch) \in Nat
      BY <3>1, BatchedFacts DEF Body
    <3>3. CASE lanes[k].batch = <<>>
      BY <3>3, <1>2, <1>6, <1>9 DEF MaxFrameBodySize
    <3>4. CASE lanes[k].batch # <<>>
      BY <3>2, <3>4, <1>2, <1>6, <1>9
    <3> QED
      BY <3>3, <3>4
  <2>2. LET e == AppendToLane([lane |-> lanes, net |-> bs], k, Cells(Len(s) + 1, n))
        IN  Carried(Append(s, [lane |-> k, size |-> n]), g, r, e.lane, e.net)
    BY <2>1, AppendCarries
  <2> QED BY <2>2 DEF msg, S
<1> HIDE DEF Good, a, w, full
<1>10. Good(EnqueueTo(w, k, msg, express))
  BY <1>4, <1>7, <1>8, <1>9
<1> QED BY <1>10 DEF Good, w, S, msg

\* The parts of the invariant after a step that keeps the parameters.
LEMMA SameEnvironment ==
    ASSUME par' = par
    PROVE  /\ GroupPar' <=> GroupPar
           /\ Fits(lane, net)' <=> Fits(lane', net')
           /\ Tiled(net)' <=> Tiled(net')
           /\ Opened(sent, reasm, net)' <=> Opened(sent', reasm', net')
<1>1. GroupPar' <=> GroupPar
  BY DEF GroupPar
<1>2. GoodBatches' = GoodBatches /\ GoodLanes' = GoodLanes
  BY DEF GoodBatches, GoodLanes, BatchSize, Batched
<1>3. Fits(lane, net)' <=> Fits(lane', net')
  BY <1>2 DEF Fits
<1>4. Tiled(net)' <=> Tiled(net')
  BY DEF Tiled, Continues
<1>5. Opened(sent, reasm, net)' <=> Opened(sent', reasm', net')
  BY DEF Opened, VisibleLane
<1> QED BY <1>1, <1>3, <1>4, <1>5

\* The same, for a step without a fault.
LEMMA SameFaults ==
    ASSUME par' = par, faults' = faults, gone' = gone
    PROVE  /\ Around(sent', got', reasm') => Around(sent, got, reasm)'
           /\ Carried(sent', got', reasm', lane', net') => Carried(sent, got, reasm, lane, net)'
           /\ Dispatched(sent', got') => Dispatched(sent, got)'
<1>1. Around(sent', got', reasm') => Around(sent, got, reasm)'
  BY SameEnvironment DEF Around
<1>2. Carried(sent', got', reasm', lane', net') => Carried(sent, got, reasm, lane, net)'
  <2>1. (Lasting(net)' <=> Lasting(net')) /\ (Bounded(lane, net)' <=> Bounded(lane', net'))
    BY DEF Lasting, Bounded
  <2> QED BY <2>1, SameEnvironment DEF Carried
<1>3. Dispatched(sent', got') => Dispatched(sent, got)'
  BY SameEnvironment DEF Dispatched
<1> QED BY <1>1, <1>2, <1>3

\* handleItem of a message.
LEMMA EnqueueBodies ==
    ASSUME BodiesInv, SizesFit, NEW k \in Lanes, NEW n \in Sizes, NEW x \in BOOLEAN,
           EnqueueMsg(k, n, x)
    PROVE  BodiesInv'
<1> DEFINE rec == [lane |-> k, size |-> n]
           w == EnqueueTo([lane |-> lane, net |-> net], k, Cells(Len(sent) + 1, n), x)
           f == FlushLane([lane |-> lane, net |-> net], k)
<1>1. /\ par' = par /\ faults' = faults /\ gone' = gone /\ got' = got /\ reasm' = reasm /\ par.batch > 0
      /\ sent' = Append(sent, rec) /\ Len(sent) < MaxMsgs
      /\ \/ lane' = f.lane /\ net' = f.net
         \/ /\ ~Refused(Cells(Len(sent) + 1, n))
            /\ lane' = w.lane /\ net' = w.net
  BY DEF EnqueueMsg
<1>2. /\ got \in Seq(GotRecord) /\ (par.stream => faults = 0)
      /\ Around(sent, got, reasm) /\ Carried(sent, got, reasm, lane, net) /\ Dispatched(sent, got)
  BY DEF BodiesInv
<1>3. rec \in SentRecord /\ sent \in Seq(SentRecord)
  BY <1>2 DEF SentRecord, Around
<1>4. Around(sent', got', reasm')
  BY <1>1, <1>2, <1>3, GrowCarried
<1>5. Carried(sent', got', reasm', lane', net')
  <2>1. Carried(sent, got, reasm, f.lane, f.net)
    BY <1>2, FlushCarries
  <2> HIDE DEF f
  <2>2. Carried(Append(sent, rec), got, reasm, f.lane, f.net)
    BY <2>1, <1>1, <1>2, <1>3, GrowCarried
  <2>3. ~Refused(Cells(Len(sent) + 1, n)) =>
           Carried(Append(sent, rec), got, reasm, w.lane, w.net)
    BY <1>1, <1>2, EnqueueCarries
  <2> HIDE DEF w, rec
  <2> QED BY <2>2, <2>3, <1>1
<1> HIDE DEF rec
<1>6. Dispatched(sent', got')
  <2>1. \A b : Cut(sent, b) => /\ Cut(sent', b) /\ sent'[MsgOf(b)] = sent[MsgOf(b)]
                               /\ (Ending(sent, b) => Ending(sent', b))
                               /\ (Whole(sent, b) => Whole(sent', b))
    BY <1>1, <1>3, CutGrows
  <2>2. \A b : Whole(sent, b) => Cut(sent, b)
    BY DEF Whole, Ending
  <2>5. faults = 0 => \A i \in 1..Len(got') : Whole(sent', got'[i].body)
    BY <2>1, <2>2, <1>1, <1>2 DEF Dispatched
  <2>6. faults = 0 /\ par.qos => GotOrdered(sent', got')
    BY <2>1, <2>2, <1>1, <1>2 DEF Dispatched, GotOrdered
  <2> QED BY <2>5, <2>6 DEF Dispatched
<1>7. Untouched'
  <2>1. par'.batch # 0
    BY <1>1, <1>2 DEF Around, ParType
  <2> QED BY <2>1 DEF Untouched
<1>8. Around(sent, got, reasm)' /\ Carried(sent, got, reasm, lane, net)' /\ Dispatched(sent, got)'
  BY <1>1, <1>4, <1>5, <1>6, SameFaults
<1>9. (got \in Seq(GotRecord))' /\ (par.stream => faults = 0)'
  BY <1>1, <1>2 DEF ReceiverLanes, GotRecord
<1> QED BY <1>7, <1>8, <1>9 DEF BodiesInv

\* FlushAll: one FRAME of every open lane.
LEMMA FlushAllBodies ==
    ASSUME BodiesInv, FlushAll
    PROVE  BodiesInv'
<1> DEFINE O == {k \in Lanes : lane[k].batch # <<>>}
           G == GoodBatches
<1>1. PICK open \in InIndexOrder(O) :
        /\ net' = net \o [j \in DOMAIN open |-> FrameOf(open[j], lane[open[j]])]
        /\ lane' = [k \in Lanes |-> Flushed(lane[k])]
        /\ par' = par /\ faults' = faults /\ gone' = gone /\ sent' = sent /\ got' = got
        /\ reasm' = reasm /\ open # <<>>
  BY DEF FlushAll
<1>2. PICK n \in Nat : n = Cardinality(O)
  BY FramesAssumption, FS_Subset, FS_CardinalityType
<1>3. /\ open \in [1..n -> O]
      /\ \A i, j \in 1..n : i < j => LaneBefore(open[i], open[j])
  BY <1>2 DEF InIndexOrder
<1>4. \A j \in 1..n : open[j] \in Lanes /\ lane[open[j]].batch # <<>>
  BY <1>3
<1>5. \A i, j \in 1..n : i < j => open[i] # open[j]
  <2>1. \A k \in Lanes : ~LaneBefore(k, k)
    BY FramesAssumption DEF LaneBefore
  <2> QED
    BY <2>1, <1>3, <1>4
<1>6. /\ got \in Seq(GotRecord) /\ (par.stream => faults = 0)
      /\ Around(sent, got, reasm) /\ Carried(sent, got, reasm, lane, net) /\ Dispatched(sent, got)
      /\ Untouched /\ par \in ParType /\ lane \in [Lanes -> GoodLanes] /\ net \in Seq(G)
  BY DEF BodiesInv, Around, Carried, Fits
<1> DEFINE t == [j \in 1..n |-> FrameOf(open[j], lane[open[j]])]
           L == [k \in Lanes |-> Flushed(lane[k])]
<1>7. net' = net \o t /\ lane' = L
  BY <1>1, <1>3
<1>8. ASSUME NEW j \in 1..n
      PROVE  /\ t[j] \in G /\ t[j].lane = open[j] /\ t[j] = FrameOf(open[j], lane[open[j]])
             /\ lane[open[j]].batch # <<>> /\ L[open[j]] = Flushed(lane[open[j]])
  <2> DEFINE k == open[j]
  <2>1. k \in Lanes /\ lane[k] \in GoodLanes /\ lane[k].batch # <<>>
    BY <1>4, <1>6
  <2>2. t[j] = FrameOf(k, lane[k]) /\ L[k] = Flushed(lane[k])
    BY <2>1
  <2> HIDE DEF k, t, L
  <2>3. FrameOf(k, lane[k]) \in GoodBatches /\ FrameOf(k, lane[k]).lane = k
    BY <2>1, <1>6, FlushedFacts
  <2> QED
    BY <2>1, <2>2, <2>3 DEF k
<1>9. t \in Seq(G) /\ Len(t) = n
  <2>1. t \in [1..n -> G]
    BY <1>8
  <2> HIDE DEF t, G
  <2> QED
    BY <2>1
<1>10. L \in [Lanes -> GoodLanes] /\ \A k \in Lanes : L[k] = Flushed(lane[k])
  BY <1>6, FlushedFacts
<1> HIDE DEF t, L
<1>11. Carried(sent, got, reasm, L, net \o t)
  <2>1. \A k \in Lanes : L[k] = lane[k] \/ L[k] = Flushed(lane[k])
    BY <1>10
  <2>2. \A j \in 1..Len(t) : LET q == t[j].lane
                             IN  /\ t[j] = FrameOf(q, lane[q]) /\ lane[q].batch # <<>>
                                 /\ L[q] = Flushed(lane[q])
    BY <1>8, <1>9
  <2>3. \A i, j \in 1..Len(t) : i < j => t[i].lane # t[j].lane
    BY <1>5, <1>8, <1>9
  <2>4. t # <<>>
    <3>1. n # 0
      BY <1>1, <1>3
    <3> QED BY <3>1, <1>9
  <2> QED BY <2>1, <2>2, <2>3, <2>4, <1>6, <1>9, <1>10, FramesEmitted
<1>12. Around(sent, got, reasm)' /\ Carried(sent, got, reasm, lane, net)' /\ Dispatched(sent, got)'
  BY <1>1, <1>6, <1>7, <1>11, SameFaults
<1>13. /\ (got \in Seq(GotRecord))' /\ (par.stream => faults = 0)'
       /\ Untouched'
  BY <1>1, <1>6 DEF ReceiverLanes, GotRecord, Untouched
<1> QED BY <1>12, <1>13 DEF BodiesInv

-----------------------------------------------------------------------------
(* What the reader does to them.                                           *)

\* Fewer batches on the link.
LEMMA FewerCarried ==
    ASSUME NEW s, NEW r, NEW lanes, NEW bs, NEW t,
           \A j \in 1..Len(t) : \E i \in 1..Len(bs) : t[j] = bs[i]
    PROVE  /\ Pieces(s, lanes, bs) => Pieces(s, lanes, t)
           /\ Numbered(lanes, bs) => Numbered(lanes, t)
           /\ Expecting(s, r, lanes, bs) => Expecting(s, r, lanes, t)
<1>1. Pieces(s, lanes, bs) => Pieces(s, lanes, t)
  BY DEF Pieces
<1>2. Expecting(s, r, lanes, bs) => Expecting(s, r, lanes, t)
  BY DEF Expecting
<1>3. ASSUME Numbered(lanes, bs), NEW j \in 1..Len(t)
      PROVE  /\ t[j].sn < lanes[t[j].lane].seqNum
             /\ t[j].more => /\ t[j].sn + 1 < lanes[t[j].lane].seqNum
                             /\ \A i \in 1..Len(t) :
                                   t[i].lane = t[j].lane /\ t[i].sn = t[j].sn + 1 =>
                                      Joins(t[j].body, t[i])
  <2>1. PICK p \in 1..Len(bs) : t[j] = bs[p]
    OBVIOUS
  <2> QED BY <2>1, <1>3 DEF Numbered
<1> QED BY <1>1, <1>2, <1>3 DEF Numbered

\* Push keeps the types whatever it is given.
LEMMA PushTypes ==
    ASSUME NEW st \in ReasmType, NEW sn \in Nat, NEW more, NEW body \in Body, NEW mod \in Nat \ {0},
           NEW max
    PROVE  LET p == Push(st, sn, more, body, mod, max)
           IN  p.st \in ReasmType /\ p.out \in Body
<1> DEFINE buf == IF st.active THEN st.buf \o body ELSE body
           p == Push(st, sn, more, body, mod, max)
<1>1. buf \in Body
  <2>1. st.buf \in Body
    BY DEF ReasmType
  <2> DEFINE X == Nat \X Nat
  <2>2. st.buf \in Seq(X) /\ body \in Seq(X)
    BY <2>1 DEF Body
  <2> HIDE DEF X
  <2>3. st.buf \o body \in Seq(X)
    BY <2>2, ConcatFacts
  <2> QED BY <2>2, <2>3 DEF Body, X
<1>2. NextSN(sn, mod) \in Nat
  <2>1. sn + 1 \in Nat
    OBVIOUS
  <2>2. (sn + 1) % mod \in 0..(mod - 1)
    BY <2>1, DivMod
  <2> QED BY <2>2 DEF NextSN
<1>3. <<>> \in Body /\ Cleared \in ReasmType
  BY DEF Body, Cleared, ReasmType
<1>4. [active |-> TRUE, expectedSN |-> NextSN(sn, mod), buf |-> buf] \in ReasmType
  BY <1>1, <1>2 DEF ReasmType
<1> HIDE DEF buf
<1> DEFINE opened == [active |-> TRUE, expectedSN |-> NextSN(sn, mod), buf |-> buf]
<1>5. \/ p = [st |-> Cleared, out |-> <<>>]
      \/ p = [st |-> opened, out |-> <<>>]
      \/ p = [st |-> Cleared, out |-> buf]
  BY DEF Push, buf
<1> HIDE DEF p, opened
<1>6. p.st \in {Cleared, opened} /\ p.out \in {<<>>, buf}
  BY <1>5
<1>7. p.st \in ReasmType /\ p.out \in Body
  BY <1>1, <1>3, <1>4, <1>6 DEF opened
<1> QED BY <1>7 DEF p

\* The buffer after a FRAGMENT b was put to the lane's state st.
Buffer(st, b) == IF st.active THEN st.buf \o b.body ELSE b.body

\* Push of a FRAGMENT that the open reassembly, if any, waits for or refuses.
LEMMA PushFacts ==
    ASSUME NEW s, NEW b, Cut(s, b.body), b.more \in BOOLEAN, b.kind = "frag", NEW st \in ReasmType,
           st.active /\ ~Gap(st, b.sn) => Cut(s, st.buf) /\ Joins(st.buf, b),
           NEW mod, NEW max \in Nat
    PROVE  LET p == Push(st, b.sn, b.more, b.body, mod, max)
               B == Buffer(st, b)
           IN  /\ ~Gap(st, b.sn) =>
                     /\ Cut(s, B) /\ MsgOf(B) = MsgOf(b.body) /\ End(B) = End(b.body)
                     /\ Start(B) = IF st.active THEN Start(st.buf) ELSE Start(b.body)
               /\ \/ /\ p.st = Cleared /\ p.out = <<>>
                     /\ Gap(st, b.sn) \/ Len(B) > max
                  \/ /\ ~Gap(st, b.sn) /\ b.more /\ p.out = <<>>
                     /\ p.st = [active |-> TRUE, expectedSN |-> NextSN(b.sn, mod), buf |-> B]
                  \/ ~Gap(st, b.sn) /\ ~b.more /\ p.st = Cleared /\ p.out = B /\ B # <<>>
<1> DEFINE p == Push(st, b.sn, b.more, b.body, mod, max)
           B == Buffer(st, b)
<1>1. ASSUME ~Gap(st, b.sn)
      PROVE  /\ Cut(s, B) /\ MsgOf(B) = MsgOf(b.body) /\ End(B) = End(b.body)
             /\ Start(B) = IF st.active THEN Start(st.buf) ELSE Start(b.body)
  <2>1. CASE st.active
    <3>1. Cut(s, st.buf) /\ MsgOf(b.body) = MsgOf(st.buf) /\ Start(b.body) = End(st.buf) + 1
      BY <1>1, <2>1 DEF Joins
    <3>2. B = st.buf \o b.body
      BY <2>1 DEF Buffer
    <3> HIDE DEF B
    <3> QED BY <2>1, <3>1, <3>2, CutJoin
  <2>2. CASE ~st.active
    <3>1. B = b.body
      BY <2>2 DEF Buffer
    <3> HIDE DEF B
    <3> QED BY <2>2, <3>1
  <2> QED BY <2>1, <2>2
<1> HIDE DEF B
<1>2. ~Gap(st, b.sn) => Len(B) \in Nat /\ B # <<>>
  BY <1>1, CutParts DEF Cut
<1>3. CASE Gap(st, b.sn)
  <2>1. p.st = Cleared /\ p.out = <<>>
    BY <1>3 DEF Push
  <2> HIDE DEF p
  <2> QED BY <1>3, <2>1 DEF p, B
<1>4. CASE ~Gap(st, b.sn) /\ Len(B) > max
  <2>0. p = [st |-> Cleared, out |-> <<>>]
    <3>1. PICK buf : buf = IF st.active THEN st.buf \o b.body ELSE b.body
      OBVIOUS
    <3>2. Len(buf) \in Nat /\ Len(buf) > max
      BY <1>2, <1>4, <3>1 DEF B, Buffer
    <3>3. ~(Len(buf) <= max)
      BY <3>2
    <3> QED BY <3>1, <3>2, <3>3 DEF Push
  <2> HIDE DEF p
  <2>1. p.st = Cleared /\ p.out = <<>>
    BY <2>0
  <2> QED BY <1>1, <1>4, <2>1 DEF p, B
<1>5. CASE ~Gap(st, b.sn) /\ ~(Len(B) > max) /\ b.more
  <2>0. Len(B) <= max
    BY <1>2, <1>5
  <2>1. p = [st |-> [active |-> TRUE, expectedSN |-> NextSN(b.sn, mod), buf |-> B], out |-> <<>>]
    BY <1>5, <2>0 DEF Push, B, Buffer
  <2>2. p.st = [active |-> TRUE, expectedSN |-> NextSN(b.sn, mod), buf |-> B] /\ p.out = <<>>
    <3> HIDE DEF p
    <3> QED BY <2>1
  <2> HIDE DEF p
  <2> QED BY <1>1, <1>5, <2>2 DEF p, B
<1>6. CASE ~Gap(st, b.sn) /\ ~(Len(B) > max) /\ ~b.more
  <2>1. p.st = Cleared /\ p.out = B
    BY <1>6 DEF Push, B, Buffer
  <2> HIDE DEF p
  <2> QED BY <1>1, <1>2, <1>6, <2>1 DEF p, B
<1> QED BY <1>3, <1>4, <1>5, <1>6

\* Taking the first batch off the link.
LEMMA TailFacts ==
    ASSUME NEW X, NEW s \in Seq(X), s # <<>>
    PROVE  LET t == Tail(s)
           IN  /\ t \in Seq(X) /\ Len(s) \in Nat \ {0} /\ Len(t) \in Nat /\ Len(s) = Len(t) + 1
               /\ \A i \in 1..Len(t) : i + 1 \in 1..Len(s) /\ t[i] = s[i + 1]
               /\ t # <<>> => 2 \in 1..Len(s) /\ t[1] = s[2]
               /\ s[1] \in X
<1> DEFINE t == Tail(s)
<1>1. /\ t \in Seq(X) /\ Len(s) \in Nat \ {0} /\ Len(t) \in Nat /\ Len(s) = Len(t) + 1
      /\ \A i \in 1..Len(t) : t[i] = s[i + 1]
  OBVIOUS
<1> HIDE DEF t
<1>2. \A i \in 1..Len(t) : i + 1 \in 1..Len(s)
  BY <1>1
<1>3. t # <<>> => 2 \in 1..Len(s) /\ t[1] = s[2]
  <2>1. SUFFICES ASSUME t # <<>> PROVE 2 \in 1..Len(s) /\ t[1] = s[2]
    OBVIOUS
  <2>2. 1 \in 1..Len(t) /\ 1 + 1 = 2
    BY <2>1, <1>1
  <2> QED BY <2>2, <1>1, <1>2
<1>4. s[1] \in X
  BY <1>1
<1> QED BY <1>1, <1>2, <1>3, <1>4 DEF t

\* Receive takes its batch off the link and leaves the others.
LEMMA WithoutFacts ==
    ASSUME NEW X, NEW s \in Seq(X), NEW i \in 1..2, i \in 1..Len(s)
    PROVE  LET t == Without(s, i)
           IN  /\ t \in Seq(X)
               /\ \A j \in 1..Len(t) : \E p \in 1..Len(s) : t[j] = s[p]
               /\ i = 1 => t = Tail(s)
               /\ Len(s) \in Nat /\ Len(t) \in Nat /\ Len(s) = Len(t) + 1
<1> DEFINE t == Without(s, i)
<1>0. s # <<>> /\ Len(s) \in Nat
  OBVIOUS
<1>1. CASE i = 1
  <2>1. t = SubSeq(s, 1, 0) \o SubSeq(s, 2, Len(s))
    BY <1>1 DEF Without
  <2>2. t = Tail(s)
    BY <1>0, <2>1
  <2> HIDE DEF t
  <2>3. \A j \in 1..Len(t) : j + 1 \in 1..Len(s) /\ t[j] = s[j + 1]
    BY <2>2, <1>0, TailFacts
  <2>4. t \in Seq(X) /\ Len(t) \in Nat /\ Len(s) = Len(t) + 1
    BY <2>2, <1>0, TailFacts
  <2> QED BY <1>0, <1>1, <2>2, <2>3, <2>4 DEF t
<1>2. CASE i = 2
  <2>1. t = SubSeq(s, 1, 1) \o SubSeq(s, 3, Len(s)) /\ Len(s) >= 2
    BY <1>2, <1>0 DEF Without
  <2> DEFINE a == SubSeq(s, 1, 1)
             c == SubSeq(s, 3, Len(s))
  <2>2. a \in Seq(X) /\ Len(a) = 1 /\ a[1] = s[1]
    <3>1. \A j \in 1..1 : s[j] \in X
      BY <2>1, <1>0
    <3>2. /\ a \in Seq(X) /\ Len(a) = (IF 1 <= 1 THEN 1 - 1 + 1 ELSE 0)
          /\ \A j \in 1..(1 - 1 + 1) : a[j] = s[1 + j - 1]
      BY <3>1, SubSeqProperties
    <3> QED BY <3>2
  <2>3. /\ c \in Seq(X) /\ \A j \in 1..Len(c) : j + 2 \in 1..Len(s) /\ c[j] = s[j + 2]
        /\ Len(c) \in Nat /\ Len(s) = Len(c) + 2
    <3>1. \A j \in 3..Len(s) : s[j] \in X
      BY <2>1, <1>0
    <3>2. PICK n \in Nat : n = Len(s) /\ n >= 2
      BY <1>0, <2>1
    <3>3. /\ c \in Seq(X) /\ Len(c) = (IF 3 <= n THEN n - 3 + 1 ELSE 0)
          /\ \A j \in 1..(n - 3 + 1) : c[j] = s[3 + j - 1]
      BY <3>1, <3>2, SubSeqProperties
    <3>4. Len(c) = n - 2
      BY <3>2, <3>3
    <3> HIDE DEF c
    <3> SUFFICES ASSUME NEW j \in 1..Len(c) PROVE j + 2 \in 1..Len(s) /\ c[j] = s[j + 2]
      BY <3>2, <3>3, <3>4
    <3>5. j \in 1..(n - 3 + 1) /\ 3 + j - 1 = j + 2 /\ j + 2 \in 1..n
      BY <3>2, <3>4
    <3> QED BY <3>2, <3>3, <3>5
  <2> HIDE DEF a, c
  <2>4. t = a \o c
    BY <2>1 DEF a, c
  <2> HIDE DEF t
  <2>5. /\ t \in Seq(X) /\ t[1] = a[1] /\ \A j \in 1..Len(c) : t[1 + j] = c[j]
        /\ \A j \in 1..Len(t) : j \in 1..1 \/ \E p \in 1..Len(c) : j = 1 + p
        /\ Len(t) \in Nat /\ Len(s) = Len(t) + 1
    <3> DEFINE u == a \o c
    <3>0. a \in Seq(X) /\ c \in Seq(X)
      BY <2>2, <2>3
    <3>1. /\ u \in Seq(X) /\ \A j \in 1..Len(a) : u[j] = a[j]
          /\ \A j \in 1..Len(c) : u[Len(a) + j] = c[j]
          /\ \A j \in 1..Len(u) : j \in 1..Len(a) \/ \E p \in 1..Len(c) : j = Len(a) + p
          /\ Len(u) = Len(a) + Len(c)
      BY <3>0, ConcatFacts
    <3>2. t = u
      BY <2>4
    <3> HIDE DEF u
    <3> QED BY <3>1, <3>2, <2>2, <2>3
  <2>6. ASSUME NEW j \in 1..Len(t) PROVE \E p \in 1..Len(s) : t[j] = s[p]
    <3>1. CASE j = 1
      <4>1. t[j] = s[1] /\ 1 \in 1..Len(s)
        BY <3>1, <2>1, <2>2, <2>5, <1>0
      <4> QED BY <4>1
    <3>2. ASSUME NEW p \in 1..Len(c), j = 1 + p PROVE \E q \in 1..Len(s) : t[j] = s[q]
      BY <3>2, <2>3, <2>5
    <3> QED BY <3>1, <3>2, <2>5
  <2> QED BY <1>0, <1>2, <2>5, <2>6 DEF t
<1> QED BY <1>1, <1>2

\* The rest of the link stays tiled.
LEMMA TailTiled ==
    ASSUME NEW X, NEW s \in Seq(X), s # <<>>, Tiled(s)
    PROVE  /\ Tiled(Tail(s))
           /\ Tail(s) # <<>> => Begins(Tail(s)[1]) \/ s[1].more
           /\ s[1].more => Tail(s) # <<>> /\ Continues(s[1], Tail(s)[1])
<1> DEFINE t == Tail(s)
<1>1. /\ t \in Seq(X) /\ Len(s) \in Nat \ {0} /\ Len(t) \in Nat /\ Len(s) = Len(t) + 1
      /\ \A i \in 1..Len(t) : i + 1 \in 1..Len(s) /\ t[i] = s[i + 1]
      /\ t # <<>> => 2 \in 1..Len(s) /\ t[1] = s[2]
  BY TailFacts
<1> HIDE DEF t
<1>2. ASSUME NEW j \in 1..Len(t), t[j].more PROVE j < Len(t) /\ Continues(t[j], t[j + 1])
  <2>1. s[j + 1].more /\ j + 1 \in 1..Len(s) /\ t[j] = s[j + 1]
    BY <1>1, <1>2
  <2>2. j + 1 < Len(s) /\ Continues(s[j + 1], s[j + 1 + 1])
    BY <2>1 DEF Tiled
  <2>3. j < Len(t) /\ j + 1 \in 1..Len(t)
    BY <2>2, <1>1
  <2> QED BY <2>1, <2>2, <2>3, <1>1
<1>3. ASSUME NEW j \in 2..Len(t) PROVE Begins(t[j]) \/ t[j - 1].more
  <2>1. j + 1 \in 2..Len(s) /\ j - 1 \in 1..Len(t) /\ j \in 1..Len(t) /\ j - 1 + 1 = j /\ j + 1 - 1 = j
    BY <1>1
  <2>2. Begins(s[j + 1]) \/ s[j + 1 - 1].more
    BY <2>1 DEF Tiled
  <2> QED BY <2>1, <2>2, <1>1
<1>4. ASSUME t # <<>> PROVE Begins(t[1]) \/ s[1].more
  <2>1. 2 \in 2..Len(s) /\ t[1] = s[2] /\ 2 - 1 = 1
    BY <1>1, <1>4
  <2> QED BY <2>1 DEF Tiled
<1>5. ASSUME s[1].more PROVE t # <<>> /\ Continues(s[1], t[1])
  <2>1. 1 \in 1..Len(s) /\ 1 < Len(s) /\ Continues(s[1], s[1 + 1])
    BY <1>1, <1>5 DEF Tiled
  <2>2. t # <<>> /\ 1 + 1 = 2
    BY <2>1, <1>1
  <2> QED BY <2>1, <2>2, <1>1
<1> QED BY <1>2, <1>3, <1>4, <1>5 DEF Tiled, t

\* Bodies t dispatched after the bodies g.
LEMMA DispatchMore ==
    ASSUME NEW g \in Seq(GotRecord), NEW t \in Seq(GotRecord)
    PROVE  /\ g \o t \in Seq(GotRecord)
           /\ \A i \in 1..Len(g \o t) : \/ i \in 1..Len(g) /\ (g \o t)[i] = g[i]
                                        \/ \E j \in 1..Len(t) : i = Len(g) + j /\ (g \o t)[i] = t[j]
           /\ \A k, m : m \in Seen(g \o t, k) <=> m \in Seen(g, k) \/ m \in Seen(t, k)
           /\ \A s : /\ GotOrdered(s, g) /\ GotOrdered(s, t)
                     /\ \A k : Below(Seen(g, k), Seen(t, k))
                     => GotOrdered(s, g \o t)
<1> DEFINE u == g \o t
<1>1. /\ u \in Seq(GotRecord) /\ Len(g) \in Nat /\ Len(t) \in Nat /\ Len(u) = Len(g) + Len(t)
      /\ \A i \in 1..Len(g) : u[i] = g[i]
      /\ \A i \in 1..Len(t) : u[Len(g) + i] = t[i]
      /\ \A i \in 1..Len(u) : i \in 1..Len(g) \/ \E j \in 1..Len(t) : i = Len(g) + j
  BY ConcatFacts
<1> HIDE DEF u
<1>2. \A h, k, m : m \in Seen(h, k) <=> \E i \in 1..Len(h) : h[i].lane = k /\ MsgOf(h[i].body) = m
  BY DEF Seen
<1>3. ASSUME NEW k, NEW m PROVE m \in Seen(u, k) <=> m \in Seen(g, k) \/ m \in Seen(t, k)
  <2>1. ASSUME m \in Seen(u, k) PROVE m \in Seen(g, k) \/ m \in Seen(t, k)
    <3>1. PICK i \in 1..Len(u) : u[i].lane = k /\ MsgOf(u[i].body) = m
      BY <2>1, <1>2
    <3>2. CASE i \in 1..Len(g)
      <4>1. g[i].lane = k /\ MsgOf(g[i].body) = m
        BY <3>1, <3>2, <1>1
      <4> QED BY <3>2, <4>1, <1>2
    <3>3. ASSUME NEW j \in 1..Len(t), i = Len(g) + j PROVE m \in Seen(t, k)
      <4>1. t[j].lane = k /\ MsgOf(t[j].body) = m
        BY <3>1, <3>3, <1>1
      <4> QED BY <4>1, <1>2
    <3> QED BY <3>1, <3>2, <3>3, <1>1
  <2>2. ASSUME m \in Seen(g, k) PROVE m \in Seen(u, k)
    <3>1. PICK i \in 1..Len(g) : g[i].lane = k /\ MsgOf(g[i].body) = m
      BY <2>2, <1>2
    <3>2. i \in 1..Len(u) /\ u[i] = g[i]
      BY <1>1
    <3> QED BY <3>1, <3>2, <1>2
  <2>3. ASSUME m \in Seen(t, k) PROVE m \in Seen(u, k)
    <3>1. PICK i \in 1..Len(t) : t[i].lane = k /\ MsgOf(t[i].body) = m
      BY <2>3, <1>2
    <3>2. Len(g) + i \in 1..Len(u) /\ u[Len(g) + i] = t[i]
      BY <1>1
    <3> QED BY <3>1, <3>2, <1>2
  <2> QED BY <2>1, <2>2, <2>3
<1>4. ASSUME NEW s, GotOrdered(s, g), GotOrdered(s, t), \A k : Below(Seen(g, k), Seen(t, k))
      PROVE  GotOrdered(s, u)
  <2> SUFFICES ASSUME NEW i \in 1..Len(u)
               PROVE  /\ s[MsgOf(u[i].body)].lane = u[i].lane
                      /\ \A j \in 1..(i-1) : u[j].lane = u[i].lane =>
                            MsgOf(u[j].body) < MsgOf(u[i].body)
    BY DEF GotOrdered
  <2>1. CASE i \in 1..Len(g)
    <3>1. u[i] = g[i] /\ \A j \in 1..(i-1) : u[j] = g[j]
      BY <2>1, <1>1
    <3> QED BY <2>1, <3>1, <1>4 DEF GotOrdered
  <2>2. ASSUME NEW p \in 1..Len(t), i = Len(g) + p
        PROVE  /\ s[MsgOf(u[i].body)].lane = u[i].lane
               /\ \A j \in 1..(i-1) : u[j].lane = u[i].lane =>
                     MsgOf(u[j].body) < MsgOf(u[i].body)
    <3>1. u[i] = t[p]
      BY <2>2, <1>1
    <3>2. s[MsgOf(t[p].body)].lane = t[p].lane
      BY <1>4 DEF GotOrdered
    <3>3. ASSUME NEW j \in 1..(i-1), u[j].lane = u[i].lane PROVE MsgOf(u[j].body) < MsgOf(u[i].body)
      <4>1. CASE j \in 1..Len(g)
        <5>1. MsgOf(g[j].body) \in Seen(g, t[p].lane) /\ MsgOf(t[p].body) \in Seen(t, t[p].lane)
          BY <4>1, <3>1, <3>3, <1>1, <1>2
        <5> QED BY <5>1, <4>1, <3>1, <1>1, <1>4 DEF Below
      <4>2. ASSUME NEW q \in 1..Len(t), j = Len(g) + q PROVE MsgOf(u[j].body) < MsgOf(u[i].body)
        <5>1. u[j] = t[q] /\ q \in 1..(p-1)
          BY <4>2, <2>2, <1>1
        <5> QED BY <5>1, <3>1, <3>3, <1>4 DEF GotOrdered
      <4>3. j \in 1..Len(u)
        BY <1>1
      <4> QED BY <4>1, <4>2, <4>3, <1>1
    <3> QED BY <3>1, <3>2, <3>3
  <2> QED BY <2>1, <2>2, <1>1
<1>5. \A i \in 1..Len(u) : \/ i \in 1..Len(g) /\ u[i] = g[i]
                           \/ \E j \in 1..Len(t) : i = Len(g) + j /\ u[i] = t[j]
  BY <1>1
<1> QED BY <1>1, <1>3, <1>4, <1>5 DEF u

\* What the batch at the front completes comes after what was dispatched and
\* before what is still under way.
LEMMA FrontDispatched ==
    ASSUME NEW g \in Seq(GotRecord), NEW t \in Seq(GotRecord), NEW lanes, NEW bs \in Seq(GoodBatches),
           bs # <<>>, Ordered(g, lanes, bs),
           \A j \in 1..Len(t) : /\ ~bs[1].more /\ t[j].lane = bs[1].lane
                                /\ MsgOf(t[j].body) \in Msgs(bs[1])
    PROVE  Ordered(g \o t, lanes, Tail(bs)) /\ \A k : Below(Seen(g, k), Seen(t, k))
<1> DEFINE b == bs[1]
           u == g \o t
           v == Tail(bs)
<1>1. /\ Len(v) \in Nat /\ Len(bs) = Len(v) + 1
      /\ \A i \in 1..Len(v) : i + 1 \in 1..Len(bs) /\ v[i] = bs[i + 1]
      /\ 1 \in 1..Len(bs) /\ b.lane \in Lanes
  <2>1. /\ Len(v) \in Nat /\ Len(bs) = Len(v) + 1
        /\ \A i \in 1..Len(v) : i + 1 \in 1..Len(bs) /\ v[i] = bs[i + 1]
        /\ b \in GoodBatches
    BY TailFacts
  <2> HIDE DEF v, b
  <2> QED BY <2>1, GoodFields
<1>2. \A k, m : m \in Seen(t, k) => k = b.lane /\ m \in Msgs(b) /\ ~b.more
  BY DEF Seen
<1>3. \A k, m : m \in Seen(u, k) => m \in Seen(g, k) \/ (k = b.lane /\ m \in Msgs(b) /\ ~b.more)
  BY <1>2, DispatchMore
<1>4. /\ LanesOrdered(g, lanes) /\ LinkOrdered(bs) /\ \A j \in 1..Len(bs) : BatchOrdered(g, lanes, bs[j])
      /\ BatchOrdered(g, lanes, b)
  BY <1>1 DEF Ordered
<1>5. \A k : Below(Seen(g, k), Seen(t, k))
  BY <1>2, <1>4 DEF BatchOrdered, Below
<1> HIDE DEF u, v, b
<1>6. LanesOrdered(u, lanes)
  <2> SUFFICES ASSUME NEW k \in Lanes PROVE Rising(lanes[k].batch) /\ Below(Seen(u, k), MsgsIn(lanes[k].batch))
    BY DEF LanesOrdered
  <2>1. Rising(lanes[k].batch) /\ Below(Seen(g, k), MsgsIn(lanes[k].batch))
    BY <1>4 DEF LanesOrdered
  <2>2. Below(Msgs(b), MsgsIn(lanes[b.lane].batch))
    BY <1>4 DEF BatchOrdered
  <2> QED BY <2>1, <2>2, <1>3 DEF Below
<1>7. ASSUME NEW j \in 1..Len(v) PROVE BatchOrdered(u, lanes, v[j])
  <2>1. v[j] = bs[j + 1] /\ j + 1 \in 1..Len(bs) /\ 1 \in 1..(j + 1 - 1)
    BY <1>1
  <2>2. BatchOrdered(g, lanes, v[j])
    BY <2>1, <1>4
  <2>3. b.lane = v[j].lane /\ ~b.more => Below(Msgs(b), Msgs(v[j]))
    BY <2>1, <1>4 DEF LinkOrdered, b
  <2>4. Below(Seen(u, v[j].lane), Msgs(v[j]))
    BY <2>2, <2>3, <1>3 DEF BatchOrdered, Below
  <2> QED BY <2>2, <2>4 DEF BatchOrdered
<1>8. LinkOrdered(v)
  <2> SUFFICES ASSUME NEW j \in 1..Len(v), NEW i \in 1..(j-1), v[i].lane = v[j].lane, ~v[i].more
               PROVE  Below(Msgs(v[i]), Msgs(v[j]))
    BY DEF LinkOrdered
  <2>1. /\ v[j] = bs[j + 1] /\ v[i] = bs[i + 1] /\ j + 1 \in 1..Len(bs) /\ i + 1 \in 1..(j + 1 - 1)
    BY <1>1
  <2> QED BY <2>1, <1>4 DEF LinkOrdered
<1>9. Ordered(u, lanes, v)
  BY <1>6, <1>7, <1>8 DEF Ordered
<1> QED BY <1>5, <1>9 DEF u, v

\* What Receive leaves as it was, and what it takes the batch from.
LEMMA Taken ==
    ASSUME BodiesInv, faults \in Nat, NEW i \in 1..2, Receive(i)
    PROVE  /\ par' = par /\ sent' = sent /\ lane' = lane /\ par.batch # 0 /\ par \in ParType
           /\ net[i] \in GoodBatches /\ GoodPiece(sent, net[i]) /\ i \in 1..Len(net)
           /\ Fits(lane, net') /\ Pieces(sent, lane, net')
           /\ \A j \in 1..Len(net') : \E p \in 1..Len(net) : net'[j] = net[p]
           /\ faults' = 0 => /\ faults = 0 /\ i = 1 /\ net # <<>> /\ net' = Tail(net)
                             /\ Tiled(net) /\ Opened(sent, reasm, net)
                             /\ par.qos => Ordered(got, lane, net)
           /\ par.stream => faults' = 0
           /\ reasm \in [ReceiverLanes -> ReasmType] /\ got \in Seq(GotRecord)
           /\ gone \in Nat /\ gone' = gone + 1 /\ Len(net') \in Nat /\ Len(net) = Len(net') + 1
           /\ Lasting(net) => /\ par.qos /\ Bounded(lane, net)
                              /\ Numbered(lane, net) /\ Numbered(lane, net')
                              /\ Expecting(sent, reasm, lane, net) /\ Endings(sent, got)
<1> DEFINE G == GoodBatches
<1>1. /\ i \in 1..Len(net) /\ net' = Without(net, i) /\ par' = par /\ sent' = sent /\ lane' = lane
      /\ gone' = gone + 1
      /\ faults' = (IF i = 2 THEN faults + 1 ELSE faults) /\ (i = 2 => ~par.stream)
  BY DEF Receive
<1>2. /\ par \in ParType /\ GroupPar /\ gone \in Nat /\ reasm \in [ReceiverLanes -> ReasmType]
      /\ got \in Seq(GotRecord) /\ (par.stream => faults = 0)
      /\ Fits(lane, net) /\ Pieces(sent, lane, net)
      /\ faults = 0 => Tiled(net) /\ Opened(sent, reasm, net)
      /\ faults = 0 /\ par.qos => Ordered(got, lane, net)
      /\ Lasting(net) => /\ Bounded(lane, net) /\ Numbered(lane, net)
                         /\ Expecting(sent, reasm, lane, net) /\ Endings(sent, got)
  BY DEF BodiesInv, Around, Carried
<1>3. net \in Seq(G)
  BY <1>2 DEF Fits
<1> HIDE DEF G
<1>4. net # <<>> /\ net[i] \in G
  BY <1>1, <1>3
<1>5. /\ net' \in Seq(G) /\ (i = 1 => net' = Tail(net))
      /\ Len(net') \in Nat /\ Len(net) = Len(net') + 1
      /\ \A j \in 1..Len(net') : \E p \in 1..Len(net) : net'[j] = net[p]
  <2> DEFINE t == Without(net, i)
  <2>1. /\ t \in Seq(G) /\ (i = 1 => t = Tail(net))
        /\ Len(t) \in Nat /\ Len(net) = Len(t) + 1
        /\ \A j \in 1..Len(t) : \E p \in 1..Len(net) : t[j] = net[p]
    <3>1. i \in 1..2 /\ i \in 1..Len(net)
      BY <1>1
    <3> QED BY <3>1, <1>3, WithoutFacts
  <2>2. net' = t
    BY <1>1
  <2> HIDE DEF t
  <2> QED BY <2>1, <2>2
<1>6. Pieces(sent, lane, net') /\ (Numbered(lane, net) => Numbered(lane, net'))
  BY <1>2, <1>5, FewerCarried
<1>7. Fits(lane, net') /\ GoodPiece(sent, net[i])
  BY <1>1, <1>2, <1>5 DEF Fits, Pieces, G
<1>8. par.batch # 0
  BY <1>2, <1>4, NothingYet
<1>9. ASSUME faults' = 0 PROVE faults = 0 /\ i = 1
  BY <1>1, <1>9
<1>10. par.stream => faults' = 0
  BY <1>1, <1>2
<1>11. Lasting(net) => par.qos
  BY <1>2 DEF GroupPar, Lasting
<1> QED BY <1>1, <1>2, <1>4, <1>5, <1>6, <1>7, <1>8, <1>9, <1>10, <1>11 DEF G

\* A batch that leaves the link is counted as before.
LEMMA CountKept ==
    ASSUME par' = par, lane' = lane, gone \in Nat, gone' = gone + 1, Len(net') \in Nat,
           Len(net) = Len(net') + 1
    PROVE  (Lasting(net)' <=> Lasting(net)) /\ (Bounded(lane, net)' <=> Bounded(lane, net))
<1>1. gone' + Len(net') = gone + Len(net)
  OBVIOUS
<1> QED BY <1>1 DEF Lasting, Bounded

\* What is left to show of a step that takes a batch off the link.
LEMMA TakenBodies ==
    ASSUME BodiesInv, faults \in Nat, NEW i \in 1..2, Receive(i),
           (got \in Seq(GotRecord))', (reasm \in [ReceiverLanes -> ReasmType])',
           faults' = 0 => /\ Opened(sent, reasm', net')
                          /\ par.qos => Ordered(got', lane, net') /\ GotOrdered(sent, got')
                          /\ \A j \in 1..Len(got') : Whole(sent, got'[j].body),
           Lasting(net) => Expecting(sent, reasm', lane, net') /\ Endings(sent, got')
    PROVE  BodiesInv'
<1>1. /\ par' = par /\ sent' = sent /\ lane' = lane /\ par.batch # 0
      /\ Fits(lane, net') /\ Pieces(sent, lane, net')
      /\ faults' = 0 => net # <<>> /\ net' = Tail(net) /\ Tiled(net)
      /\ par.stream => faults' = 0
      /\ Lasting(net) => Bounded(lane, net) /\ Numbered(lane, net')
      /\ gone' \in Nat
  BY Taken
<1>a. (Lasting(net)' <=> Lasting(net)) /\ (Bounded(lane, net)' <=> Bounded(lane, net))
  BY Taken, CountKept
<1>2. /\ GroupPar' <=> GroupPar
      /\ Fits(lane, net)' <=> Fits(lane', net')
      /\ Tiled(net)' <=> Tiled(net')
      /\ Opened(sent, reasm, net)' <=> Opened(sent', reasm', net')
  BY <1>1, SameEnvironment
<1>3. /\ par \in ParType /\ GroupPar /\ sent \in Seq(SentRecord) /\ Len(sent) <= MaxMsgs
      /\ net \in Seq(GoodBatches)
  BY DEF BodiesInv, Around, Carried, Fits
<1>4. faults' = 0 => Tiled(net')
  BY <1>1, <1>3, TailTiled
<1>5. faults' = 0 => \A j \in 1..Len(got') : Cut(sent, got'[j].body)
  BY DEF Whole, Ending
<1>6. Around(sent, got, reasm)'
  <2>1. (par \in ParType)' /\ (sent \in Seq(SentRecord))' /\ (Len(sent) <= MaxMsgs)'
    BY <1>1, <1>3 DEF ParType, SentRecord
  <2> QED BY <2>1, <1>1, <1>2, <1>3, <1>5 DEF Around
<1>7. Carried(sent, got, reasm, lane, net)'
  BY <1>1, <1>2, <1>4, <1>a DEF Carried
<1>8. Dispatched(sent, got)'
  BY <1>1, <1>2 DEF Dispatched
<1>9. Untouched' /\ (par.stream => faults = 0)'
  BY <1>1 DEF Untouched
<1> QED BY <1>6, <1>7, <1>8, <1>9 DEF BodiesInv

\* processBatch of a FRAME.
LEMMA FrameBodies ==
    ASSUME BodiesInv, faults \in Nat, NEW i \in 1..2, Receive(i), net[i].kind = "frame"
    PROVE  BodiesInv'
<1> DEFINE b == net[i]
           k == VisibleLane(b.lane)
           t == [j \in 1..Len(b.body) |-> [lane |-> k, body |-> b.body[j]]]
<1>0. /\ par \in ParType /\ b \in GoodBatches /\ GoodPiece(sent, b)
      /\ \A j \in 1..Len(net') : \E p \in 1..Len(net) : net'[j] = net[p]
      /\ faults' = 0 => /\ faults = 0 /\ i = 1 /\ net # <<>> /\ net' = Tail(net)
                        /\ Tiled(net) /\ Opened(sent, reasm, net)
                        /\ par.qos => Ordered(got, lane, net)
      /\ reasm \in [ReceiverLanes -> ReasmType] /\ got \in Seq(GotRecord)
      /\ Lasting(net) => Expecting(sent, reasm, lane, net) /\ Endings(sent, got)
      /\ net \in Seq(GoodBatches) /\ i \in 1..Len(net)
  BY Taken DEF BodiesInv, Carried, Fits
<1>1. b.body \in Seq(Body) /\ b.lane \in Lanes
  BY <1>0 DEF GoodBatches, BatchType
<1>2. k \in ReceiverLanes /\ (par.qos => k = b.lane)
  BY <1>1 DEF VisibleLane, ReceiverLanes
<1>3. got' = got \o t /\ reasm' = reasm
  <2>1. DOMAIN b.body = 1..Len(b.body)
    BY <1>1
  <2> QED BY <2>1 DEF Receive, Process
<1>4. /\ t \in Seq(GotRecord) /\ Len(t) = Len(b.body)
      /\ \A j \in 1..Len(b.body) : t[j].lane = k /\ t[j].body = b.body[j]
  <2>1. \A j \in 1..Len(b.body) : [lane |-> k, body |-> b.body[j]] \in GotRecord
    BY <1>1, <1>2 DEF GotRecord
  <2>2. Len(b.body) \in Nat
    BY <1>1
  <2>3. t \in [1..Len(b.body) -> GotRecord]
    BY <2>1
  <2>4. \A j \in 1..Len(b.body) : t[j].lane = k /\ t[j].body = b.body[j]
    OBVIOUS
  <2> HIDE DEF t
  <2> QED BY <2>2, <2>3, <2>4
<1> HIDE DEF t, k, b
<1>5. ~b.more /\ \A j \in 1..Len(t) : /\ Whole(sent, t[j].body) /\ Ending(sent, t[j].body)
                                      /\ sent[MsgOf(t[j].body)].lane = b.lane
                                      /\ MsgOf(t[j].body) \in Msgs(b)
  BY <1>0, <1>4 DEF b, GoodPiece, GoodFrame, Whole, Msgs, MsgsIn
<1>6. /\ got \o t \in Seq(GotRecord)
      /\ \A j \in 1..Len(got \o t) : \/ j \in 1..Len(got) /\ (got \o t)[j] = got[j]
                                     \/ \E p \in 1..Len(t) : j = Len(got) + p /\ (got \o t)[j] = t[p]
      /\ \A s : /\ GotOrdered(s, got) /\ GotOrdered(s, t)
                /\ \A q : Below(Seen(got, q), Seen(t, q))
                => GotOrdered(s, got \o t)
  BY <1>0, <1>4, DispatchMore
<1>7. ASSUME faults' = 0
      PROVE  /\ Opened(sent, reasm', net')
             /\ par.qos => Ordered(got', lane, net') /\ GotOrdered(sent, got')
             /\ \A j \in 1..Len(got') : Whole(sent, got'[j].body)
  <2>1. /\ net # <<>> /\ b = net[1] /\ net' = Tail(net) /\ Tiled(net) /\ Opened(sent, reasm, net)
        /\ par.qos => Ordered(got, lane, net)
        /\ faults = 0
    BY <1>7, <1>0 DEF b
  <2>2. Opened(sent, reasm', net')
    <3>1. \A q \in ReceiverLanes : ~reasm[q].active
      BY <2>1 DEF Opened, Joins, b
    <3>2. net' # <<>> => Begins(net'[1])
      BY <2>1, <1>0, <1>5, TailTiled
    <3> QED BY <3>1, <3>2, <1>3 DEF Opened
  <2>3. \A j \in 1..Len(got') : Whole(sent, got'[j].body)
    <3>1. \A j \in 1..Len(got) : Whole(sent, got[j].body)
      BY <2>1 DEF BodiesInv, Dispatched
    <3> QED BY <3>1, <1>3, <1>5, <1>6
  <2>4. ASSUME par.qos PROVE Ordered(got', lane, net') /\ GotOrdered(sent, got')
    <3>1. \A j \in 1..Len(t) : /\ ~net[1].more /\ t[j].lane = net[1].lane
                               /\ MsgOf(t[j].body) \in Msgs(net[1])
      BY <2>1, <2>4, <1>2, <1>4, <1>5
    <3>2. Ordered(got \o t, lane, Tail(net)) /\ \A q : Below(Seen(got, q), Seen(t, q))
      BY <3>1, <2>1, <2>4, <1>0, <1>4, FrontDispatched
    <3>3. GotOrdered(sent, t)
      <4>1. BatchOrdered(got, lane, b)
        BY <2>1, <2>4, <1>0 DEF Ordered
      <4>2. Rising(b.body)
        BY <4>1 DEF BatchOrdered, b
      <4>3. \A j \in 1..Len(t) : sent[MsgOf(t[j].body)].lane = t[j].lane
        BY <2>4, <1>2, <1>4, <1>5
      <4>4. ASSUME NEW j \in 1..Len(t), NEW p \in 1..(j-1)
            PROVE  MsgOf(t[p].body) < MsgOf(t[j].body)
        <5>1. Len(t) \in Nat
          BY <1>4
        <5>2. j \in 1..Len(b.body) /\ p \in 1..Len(b.body) /\ p < j
          BY <5>1, <1>4
        <5> QED BY <5>2, <4>2, <1>4 DEF Rising
      <4> QED BY <4>3, <4>4 DEF GotOrdered
    <3>4. GotOrdered(sent, got)
      BY <2>1, <2>4 DEF BodiesInv, Dispatched
    <3> QED BY <3>2, <3>3, <3>4, <2>1, <1>3, <1>6
  <2> QED BY <2>2, <2>3, <2>4
<1>8. ASSUME Lasting(net)
      PROVE  Expecting(sent, reasm', lane, net') /\ Endings(sent, got')
  <2>1. Expecting(sent, reasm, lane, net')
    BY <1>8, <1>0, FewerCarried
  <2>2. \A j \in 1..Len(got) : Ending(sent, got[j].body)
    BY <1>0, <1>8 DEF Endings
  <2>3. \A j \in 1..Len(got') : Ending(sent, got'[j].body)
    BY <2>2, <1>3, <1>5, <1>6
  <2> QED BY <2>1, <2>3, <1>3 DEF Endings
<1>9. (got \in Seq(GotRecord))' /\ (reasm \in [ReceiverLanes -> ReasmType])'
  BY <1>0, <1>3, <1>6 DEF GotRecord, ReasmType, ReceiverLanes
<1> QED BY <1>7, <1>8, <1>9, TakenBodies

\* The reassembly that a FRAGMENT meets waits for it or finds a gap, unless SNs
\* come round on a lossy link.
LEMMA Waits ==
    ASSUME BodiesInv, faults \in Nat, NEW i \in 1..2, Receive(i), faults' = 0 \/ Lasting(net),
           NEW k, k = VisibleLane(net[i].lane), reasm[k].active, ~Gap(reasm[k], net[i].sn)
    PROVE  Cut(sent, reasm[k].buf) /\ Joins(reasm[k].buf, net[i])
<1>0. /\ net[i] \in GoodBatches /\ i \in 1..Len(net)
      /\ faults' = 0 => faults = 0 /\ i = 1 /\ Opened(sent, reasm, net)
      /\ Lasting(net) => par.qos /\ Expecting(sent, reasm, lane, net)
  BY Taken
<1>1. net[i].lane \in Lanes
  BY <1>0, GoodFields
<1>2. k \in ReceiverLanes /\ (par.qos => k = net[i].lane)
  BY <1>1 DEF VisibleLane, ReceiverLanes
<1>3. CASE faults' = 0
  BY <1>3, <1>0, <1>2 DEF Opened
<1>4. CASE Lasting(net)
  <2>1. k \in Lanes /\ net[i].lane = k /\ net[i].sn = reasm[k].expectedSN
    BY <1>0, <1>1, <1>2, <1>4 DEF Gap
  <2> QED BY <1>0, <1>4, <2>1 DEF Expecting
<1> QED BY <1>3, <1>4

\* processBatch of a FRAGMENT.
LEMMA FragmentBodies ==
    ASSUME BodiesInv, SizesFit, faults \in Nat, NEW i \in 1..2, Receive(i), net[i].kind # "frame"
    PROVE  BodiesInv'
<1> DEFINE b == net[i]
           k == VisibleLane(b.lane)
           st == reasm[k]
           p == Push(st, b.sn, b.more, b.body, par.mod, MaxMessageSize)
           B == Buffer(st, b)
           t == IF p.out = <<>> THEN <<>> ELSE <<[lane |-> k, body |-> p.out]>>
<1>0. /\ par \in ParType /\ b \in GoodBatches /\ GoodPiece(sent, b)
      /\ \A j \in 1..Len(net') : \E q \in 1..Len(net) : net'[j] = net[q]
      /\ faults' = 0 => /\ faults = 0 /\ i = 1 /\ net # <<>> /\ net' = Tail(net)
                        /\ Tiled(net) /\ Opened(sent, reasm, net)
                        /\ par.qos => Ordered(got, lane, net)
      /\ reasm \in [ReceiverLanes -> ReasmType] /\ got \in Seq(GotRecord)
      /\ Lasting(net) => /\ par.qos /\ Endings(sent, got)
                         /\ Numbered(lane, net) /\ Expecting(sent, reasm, lane, net)
      /\ net \in Seq(GoodBatches) /\ i \in 1..Len(net) /\ lane \in [Lanes -> GoodLanes]
      /\ sent \in Seq(SentRecord)
  BY Taken DEF BodiesInv, Carried, Fits, Around
<1>1. /\ b.body \in Body /\ b.lane \in Lanes /\ b.kind = "frag" /\ b.sn \in Nat /\ b.more \in BOOLEAN
  BY <1>0 DEF GoodBatches, BatchType
<1>2. k \in ReceiverLanes /\ (par.qos => k = b.lane) /\ st \in ReasmType /\ par.mod \in Nat \ {0}
  BY <1>0, <1>1 DEF VisibleLane, ReceiverLanes, ParType
<1>3. /\ reasm' = [reasm EXCEPT ![k] = p.st]
      /\ got' = IF p.out = <<>> THEN got ELSE Append(got, [lane |-> k, body |-> p.out])
  BY <1>1 DEF Receive, Process
<1>4. p.st \in ReasmType /\ p.out \in Body
  <2> HIDE DEF st, b, k
  <2> QED BY <1>1, <1>2, PushTypes
<1>5. Cut(sent, b.body) /\ sent[MsgOf(b.body)].lane = b.lane
      /\ (b.more <=> End(b.body) < sent[MsgOf(b.body)].size)
  BY <1>0, <1>1 DEF GoodPiece
<1>6. ASSUME faults' = 0 \/ Lasting(net)
      PROVE  /\ ~Gap(st, b.sn) =>
                   /\ Cut(sent, B) /\ MsgOf(B) = MsgOf(b.body) /\ End(B) = End(b.body)
                   /\ Start(B) = IF st.active THEN Start(st.buf) ELSE Start(b.body)
             /\ \/ /\ p.st = Cleared /\ p.out = <<>>
                   /\ Gap(st, b.sn) \/ Len(B) > MaxMessageSize
                \/ /\ ~Gap(st, b.sn) /\ b.more /\ p.out = <<>>
                   /\ p.st = [active |-> TRUE, expectedSN |-> NextSN(b.sn, par.mod), buf |-> B]
                \/ ~Gap(st, b.sn) /\ ~b.more /\ p.st = Cleared /\ p.out = B /\ B # <<>>
  <2>1. st.active /\ ~Gap(st, b.sn) => Cut(sent, st.buf) /\ Joins(st.buf, b)
    BY <1>6, Waits
  <2>2. MaxMessageSize \in Nat
    BY FramesAssumption
  <2> HIDE DEF st, b, k
  <2> QED BY <2>1, <2>2, <1>1, <1>2, <1>5, PushFacts
<1>7. t \in Seq(GotRecord) /\ got' = got \o t
  <2>1. CASE p.out = <<>>
    <3>1. t = <<>> /\ got' = got
      BY <2>1, <1>3
    <3> HIDE DEF t
    <3> QED BY <3>1, <1>0
  <2>2. CASE p.out # <<>>
    <3> DEFINE e == [lane |-> k, body |-> p.out]
    <3>1. e \in GotRecord
      BY <1>2, <1>4 DEF GotRecord
    <3>2. t = <<e>> /\ got' = Append(got, e)
      BY <2>2, <1>3
    <3> HIDE DEF e, t
    <3> QED BY <3>1, <3>2, <1>0
  <2> QED BY <2>1, <2>2
<1>8. \A j \in 1..Len(t) : Len(t) = 1 /\ j = 1 /\ p.out # <<>> /\ t[j].lane = k /\ t[j].body = p.out
  <2>1. CASE p.out = <<>>
    BY <2>1
  <2>2. CASE p.out # <<>>
    <3> DEFINE e == [lane |-> k, body |-> p.out]
    <3>2. t = <<e>> /\ e.lane = k /\ e.body = p.out
      BY <2>2
    <3> HIDE DEF e, t
    <3> QED BY <2>2, <3>2
  <2> QED BY <2>1, <2>2
<1>9. /\ \A q \in ReceiverLanes : q # k => reasm'[q] = reasm[q]
      /\ reasm'[k] = p.st /\ reasm' \in [ReceiverLanes -> ReasmType]
  BY <1>0, <1>2, <1>3, <1>4
<1> HIDE DEF t, k, b, p, B, st
<1>10. /\ got \o t \in Seq(GotRecord)
       /\ \A j \in 1..Len(got \o t) : \/ j \in 1..Len(got) /\ (got \o t)[j] = got[j]
                                      \/ \E q \in 1..Len(t) : j = Len(got) + q /\ (got \o t)[j] = t[q]
       /\ \A s : /\ GotOrdered(s, got) /\ GotOrdered(s, t)
                 /\ \A q : Below(Seen(got, q), Seen(t, q))
                 => GotOrdered(s, got \o t)
  BY <1>0, <1>7, DispatchMore
<1>11. ASSUME faults' = 0 \/ Lasting(net), p.out # <<>>
       PROVE  ~b.more /\ p.out = B /\ Ending(sent, B) /\ MsgOf(B) = MsgOf(b.body) /\ ~Gap(st, b.sn)
  <2>1. ~Gap(st, b.sn) /\ ~b.more /\ p.out = B
    BY <1>6, <1>11
  <2>2. Cut(sent, B) /\ MsgOf(B) = MsgOf(b.body) /\ End(B) = End(b.body)
    BY <1>6, <1>11, <2>1
  <2>3. End(B) \in Nat /\ End(B) <= sent[MsgOf(B)].size
    BY <2>2, CutParts DEF Cut
  <2>4. sent[MsgOf(B)].size \in Nat
    <3>1. MsgOf(B) \in 1..Len(sent)
      BY <2>2 DEF Cut
    <3>2. sent[MsgOf(B)] \in SentRecord
      BY <3>1, <1>0
    <3> QED BY <3>2, FramesAssumption DEF SentRecord
  <2>5. ~(End(B) < sent[MsgOf(B)].size)
    BY <2>1, <2>2, <1>5
  <2> QED BY <2>1, <2>2, <2>3, <2>4, <2>5 DEF Ending
<1>12. ASSUME faults' = 0
       PROVE  /\ ~Gap(st, b.sn) /\ Start(B) = 1
              /\ \/ b.more /\ p.out = <<>> /\ p.st = [active |-> TRUE, expectedSN |-> NextSN(b.sn, par.mod), buf |-> B]
                 \/ ~b.more /\ p.st = Cleared /\ p.out = B
              /\ \A q \in ReceiverLanes : q # k => ~reasm[q].active
  <2>1. /\ net # <<>> /\ b = net[1] /\ Opened(sent, reasm, net) /\ VisibleLane(b.lane) = k
    BY <1>12, <1>0 DEF b, k
  <2>2. \A q \in ReceiverLanes : q # k => ~reasm[q].active
    BY <2>1 DEF Opened
  <2>3. ~Gap(st, b.sn)
    BY <2>1, <1>2 DEF Opened, Gap, st
  <2>4. Start(B) = 1
    <3>1. Begins(b) \/ st.active
      BY <2>1 DEF Opened, st
    <3>2. st.active => Start(st.buf) = 1
      BY <2>1, <1>2 DEF Opened, st
    <3>3. Start(B) = IF st.active THEN Start(st.buf) ELSE Start(b.body)
      BY <1>6, <1>12, <2>3
    <3> QED BY <3>1, <3>2, <3>3, <1>1 DEF Begins
  <2>5. ~(Len(B) > MaxMessageSize)
    <3>1. Cut(sent, B)
      BY <1>6, <1>12, <2>3
    <3>2. MsgOf(B) \in 1..Len(sent) /\ End(B) <= sent[MsgOf(B)].size /\ End(B) \in Nat
          /\ Len(B) = End(B) - Start(B) + 1
      BY <3>1, CutParts DEF Cut
    <3>3. sent[MsgOf(B)] \in SentRecord
      BY <3>2, <1>0
    <3>4. sent[MsgOf(B)].size \in Nat /\ sent[MsgOf(B)].size <= MaxMessageSize
      BY <3>3, FramesAssumption DEF SentRecord, SizesFit
    <3> QED BY <3>2, <3>4, <2>4, FramesAssumption
  <2> QED BY <2>2, <2>3, <2>4, <2>5, <1>6, <1>12
<1>13. ASSUME faults' = 0
       PROVE  /\ Opened(sent, reasm', net')
              /\ par.qos => Ordered(got', lane, net') /\ GotOrdered(sent, got')
              /\ \A j \in 1..Len(got') : Whole(sent, got'[j].body)
  <2>1. /\ net # <<>> /\ b = net[1] /\ net' = Tail(net) /\ Tiled(net)
        /\ par.qos => Ordered(got, lane, net)
        /\ faults = 0
    BY <1>13, <1>0 DEF b
  <2>t. /\ net' # <<>> => Begins(net'[1]) \/ b.more
        /\ b.more => net' # <<>> /\ Continues(b, net'[1])
    BY <2>1, <1>0, TailTiled
  <2>2. Opened(sent, reasm', net')
    <3>1. CASE b.more
      <4>1. /\ reasm'[k].active /\ reasm'[k].expectedSN = NextSN(b.sn, par.mod) /\ reasm'[k].buf = B
            /\ Cut(sent, B) /\ Start(B) = 1 /\ MsgOf(B) = MsgOf(b.body) /\ End(B) = End(b.body)
        BY <1>6, <1>9, <1>12, <1>13, <3>1
      <4>2. \A q \in ReceiverLanes : q # k => ~reasm'[q].active
        BY <1>9, <1>12, <1>13
      <4>3. /\ net' # <<>> /\ Joins(B, net'[1]) /\ net'[1].lane = b.lane /\ net'[1].sn = NextSN(b.sn, par.mod)
        BY <3>1, <2>t, <4>1 DEF Continues, Joins
      <4>4. VisibleLane(net'[1].lane) = k
        BY <4>3 DEF k
      <4> QED BY <4>1, <4>2, <4>3, <4>4 DEF Opened
    <3>2. CASE ~b.more
      <4>1. \A q \in ReceiverLanes : ~reasm'[q].active
        BY <3>2, <1>9, <1>12, <1>13 DEF Cleared
      <4> QED BY <3>2, <4>1, <2>t DEF Opened
    <3> QED BY <3>1, <3>2
  <2>3. \A j \in 1..Len(t) : Whole(sent, t[j].body) /\ MsgOf(t[j].body) = MsgOf(b.body) /\ ~b.more
    BY <1>8, <1>11, <1>12, <1>13 DEF Whole
  <2>4. \A j \in 1..Len(got') : Whole(sent, got'[j].body)
    <3>1. \A j \in 1..Len(got) : Whole(sent, got[j].body)
      BY <2>1 DEF BodiesInv, Dispatched
    <3> QED BY <3>1, <2>3, <1>7, <1>10
  <2>5. ASSUME par.qos PROVE Ordered(got', lane, net') /\ GotOrdered(sent, got')
    <3>1. \A j \in 1..Len(t) : /\ ~net[1].more /\ t[j].lane = net[1].lane
                               /\ MsgOf(t[j].body) \in Msgs(net[1])
      BY <2>1, <2>3, <2>5, <1>1, <1>2, <1>8 DEF Msgs
    <3>2. Ordered(got \o t, lane, Tail(net)) /\ \A q : Below(Seen(got, q), Seen(t, q))
      BY <3>1, <2>1, <2>5, <1>0, <1>7, FrontDispatched
    <3>3. GotOrdered(sent, t)
      <4>1. \A j \in 1..Len(t) : sent[MsgOf(t[j].body)].lane = t[j].lane
        BY <2>3, <2>5, <1>2, <1>5, <1>8
      <4>2. \A j \in 1..Len(t) : 1..(j-1) = {}
        BY <1>8
      <4> QED BY <4>1, <4>2 DEF GotOrdered
    <3>4. GotOrdered(sent, got)
      BY <2>1, <2>5 DEF BodiesInv, Dispatched
    <3> QED BY <3>2, <3>3, <3>4, <2>1, <1>7, <1>10
  <2> QED BY <2>2, <2>4, <2>5
<1>14. ASSUME Lasting(net)
       PROVE  Expecting(sent, reasm', lane, net') /\ Endings(sent, got')
  <2>1. k \in Lanes /\ k = b.lane
    BY <1>14, <1>0, <1>1, <1>2
  <2>2. ASSUME NEW q \in Lanes, reasm'[q].active
        PROVE  /\ Cut(sent, reasm'[q].buf) /\ reasm'[q].expectedSN < lane[q].seqNum
               /\ \A j \in 1..Len(net') : net'[j].lane = q /\ net'[j].sn = reasm'[q].expectedSN =>
                     Joins(reasm'[q].buf, net'[j])
    <3>1. CASE q # k
      <4>1. reasm'[q] = reasm[q]
        BY <3>1, <1>9 DEF ReceiverLanes
      <4>2. Expecting(sent, reasm, lane, net')
        BY <1>0, <1>14, FewerCarried
      <4> QED BY <4>1, <4>2, <2>2 DEF Expecting
    <3>2. CASE q = k
      <4>1. /\ ~Gap(st, b.sn) /\ b.more
            /\ reasm'[q].expectedSN = NextSN(b.sn, par.mod) /\ reasm'[q].buf = B
        BY <3>2, <2>2, <1>6, <1>9, <1>14 DEF Cleared
      <4>2. Cut(sent, B) /\ MsgOf(B) = MsgOf(b.body) /\ End(B) = End(b.body)
        BY <4>1, <1>6, <1>14
      <4>3. /\ b.sn + 1 < lane[b.lane].seqNum
            /\ \A j \in 1..Len(net) : net[j].lane = b.lane /\ net[j].sn = b.sn + 1 => Joins(b.body, net[j])
        BY <4>1, <1>0, <1>14 DEF Numbered, b
      <4>4. NextSN(b.sn, par.mod) = b.sn + 1
        <5>1. lane[b.lane].seqNum \in Nat /\ lane[b.lane].seqNum < par.mod
          BY <1>0, <1>1, GoodFields
        <5>2. b.sn + 1 \in Nat /\ b.sn + 1 < par.mod
          BY <5>1, <4>3, <1>1, <1>2
        <5> QED BY <5>2, <1>2, ModSmall DEF NextSN
      <4>5. \A j \in 1..Len(net') : net'[j].lane = q /\ net'[j].sn = b.sn + 1 => Joins(B, net'[j])
        <5> SUFFICES ASSUME NEW j \in 1..Len(net'), net'[j].lane = q, net'[j].sn = b.sn + 1
                     PROVE  Joins(B, net'[j])
          OBVIOUS
        <5>1. PICK x \in 1..Len(net) : net'[j] = net[x]
          BY <1>0
        <5>2. Joins(b.body, net'[j])
          BY <5>1, <4>3, <3>2, <2>1
        <5> QED BY <5>2, <4>2 DEF Joins
      <4> QED BY <4>1, <4>2, <4>3, <4>4, <4>5, <3>2, <2>1
    <3> QED BY <3>1, <3>2
  <2>3. Expecting(sent, reasm', lane, net')
    BY <2>2 DEF Expecting
  <2>4. \A j \in 1..Len(got) : Ending(sent, got[j].body)
    BY <1>0, <1>14 DEF Endings
  <2>5. \A j \in 1..Len(t) : Ending(sent, t[j].body)
    BY <1>8, <1>11, <1>14
  <2>6. \A j \in 1..Len(got') : Ending(sent, got'[j].body)
    BY <2>4, <2>5, <1>7, <1>10
  <2> QED BY <2>3, <2>6 DEF Endings
<1>15. (got \in Seq(GotRecord))' /\ (reasm \in [ReceiverLanes -> ReasmType])'
  BY <1>7, <1>9, <1>10 DEF GotRecord, ReasmType, ReceiverLanes
<1> QED BY <1>13, <1>14, <1>15, TakenBodies

\* processBatch.
LEMMA ReceiveBodies ==
    ASSUME BodiesInv, SizesFit, faults \in Nat, NEW i \in 1..2, Receive(i)
    PROVE  BodiesInv'
<1>1. CASE net[i].kind = "frame"
  BY <1>1, FrameBodies
<1>2. CASE net[i].kind # "frame"
  BY <1>2, FragmentBodies
<1> QED BY <1>1, <1>2

\* A lost batch.
LEMMA LoseBodies ==
    ASSUME BodiesInv, faults \in Nat, LoseBatch
    PROVE  BodiesInv'
<1> DEFINE G == GoodBatches
<1>1. /\ net # <<>> /\ ~par.stream /\ net' = Tail(net) /\ faults' = faults + 1
      /\ par' = par /\ sent' = sent /\ lane' = lane /\ reasm' = reasm /\ got' = got
      /\ gone' = gone + 1
  BY DEF LoseBatch
<1>2. /\ par \in ParType /\ GroupPar /\ gone \in Nat /\ reasm \in [ReceiverLanes -> ReasmType]
      /\ sent \in Seq(SentRecord) /\ Len(sent) <= MaxMsgs
      /\ got \in Seq(GotRecord)
      /\ Fits(lane, net) /\ Pieces(sent, lane, net)
      /\ Lasting(net) => /\ Bounded(lane, net) /\ Numbered(lane, net)
                         /\ Expecting(sent, reasm, lane, net) /\ Endings(sent, got)
  BY DEF BodiesInv, Around, Carried
<1>3. net \in Seq(G)
  BY <1>2 DEF Fits
<1> HIDE DEF G
<1>4. /\ net' \in Seq(G) /\ \A j \in 1..Len(net') : \E i \in 1..Len(net) : net'[j] = net[i]
      /\ Len(net') \in Nat /\ Len(net) = Len(net') + 1
  <2> DEFINE t == Tail(net)
  <2>1. /\ t \in Seq(G) /\ \A j \in 1..Len(t) : j + 1 \in 1..Len(net) /\ t[j] = net[j + 1]
        /\ Len(t) \in Nat /\ Len(net) = Len(t) + 1
    BY <1>1, <1>3, TailFacts
  <2>2. net' = t
    BY <1>1
  <2> HIDE DEF t
  <2> QED BY <2>1, <2>2
<1>5. /\ Pieces(sent, lane, net')
      /\ Lasting(net) => Numbered(lane, net') /\ Expecting(sent, reasm, lane, net')
  BY <1>2, <1>4, FewerCarried
<1>6. Fits(lane, net')
  BY <1>2, <1>4 DEF Fits, G
<1>7. /\ GroupPar' <=> GroupPar
      /\ Fits(lane, net)' <=> Fits(lane', net')
  BY <1>1, SameEnvironment
<1>a. (Lasting(net)' <=> Lasting(net)) /\ (Bounded(lane, net)' <=> Bounded(lane, net))
  BY <1>1, <1>2, <1>4, CountKept
<1>8. faults' # 0
  BY <1>1
<1>9. par.batch # 0
  BY <1>1, <1>2, NothingYet
<1>10. Around(sent, got, reasm)'
  <2>1. /\ (par \in ParType)' /\ (sent \in Seq(SentRecord))' /\ (Len(sent) <= MaxMsgs)'
        /\ (reasm \in [ReceiverLanes -> ReasmType])' /\ (gone \in Nat)'
    BY <1>1, <1>2 DEF ParType, SentRecord, ReceiverLanes, ReasmType
  <2> QED BY <2>1, <1>2, <1>7, <1>8 DEF Around
<1>11. Carried(sent, got, reasm, lane, net)'
  BY <1>1, <1>2, <1>5, <1>6, <1>7, <1>8, <1>a DEF Carried
<1>12. Dispatched(sent, got)'
  BY <1>1, <1>7, <1>8 DEF BodiesInv, Dispatched
<1>13. Untouched' /\ (par.stream => faults = 0)' /\ (got \in Seq(GotRecord))'
  BY <1>1, <1>2, <1>9 DEF Untouched, GotRecord, ReceiverLanes
<1> QED BY <1>10, <1>11, <1>12, <1>13 DEF BodiesInv

\* A Batcher just made, and a Reassembler that was given nothing.
Fresh ==
    /\ par \in ParType /\ GroupPar /\ gone \in Nat /\ Fits(lane, net)
    /\ sent = <<>> /\ net = <<>> /\ got = <<>> /\ faults = 0
    /\ reasm \in [ReceiverLanes -> ReasmType] /\ \A k \in ReceiverLanes : ~reasm[k].active
    /\ \A k \in Lanes : lane[k].batch = <<>> /\ (~par.stream => lane[k].seqNum = 0)

\* They satisfy the invariant.
LEMMA FreshBodies == Fresh => BodiesInv
<1> SUFFICES ASSUME Fresh PROVE BodiesInv
  OBVIOUS
<1> USE DEF Fresh
<1>0. Len(sent) = 0 /\ Len(net) = 0 /\ Len(got) = 0 /\ 1..0 = {} /\ 2..0 = {}
  OBVIOUS
<1>1. Around(sent, got, reasm)
  BY <1>0, FramesAssumption DEF Around
<1>2. \A k \in Lanes : k \in ReceiverLanes
  BY DEF ReceiverLanes
<1>3. Pieces(sent, lane, net)
  <2>1. \A k \in Lanes : Len(lane[k].batch) = 0
    OBVIOUS
  <2> QED BY <1>0, <2>1 DEF Pieces, GoodFrame
<1>4. Tiled(net) /\ Opened(sent, reasm, net)
  BY <1>0 DEF Tiled, Opened
<1>5. Ordered(got, lane, net)
  <2>1. \A k \in Lanes : Len(lane[k].batch) = 0
    OBVIOUS
  <2>2. \A k : Seen(got, k) = {}
    BY <1>0 DEF Seen
  <2>3. LanesOrdered(got, lane)
    BY <1>0, <2>1, <2>2 DEF LanesOrdered, Rising, Below
  <2> QED BY <1>0, <2>3 DEF Ordered, LinkOrdered
<1>6. ASSUME Lasting(net)
      PROVE  /\ Bounded(lane, net) /\ Numbered(lane, net) /\ Expecting(sent, reasm, lane, net)
             /\ Endings(sent, got)
  <2>2. Bounded(lane, net)
    BY <1>0, <1>6 DEF Bounded, Lasting
  <2> QED BY <2>2, <1>0, <1>2 DEF Numbered, Expecting, Endings
<1>7. Carried(sent, got, reasm, lane, net)
  BY <1>3, <1>4, <1>5, <1>6 DEF Carried
<1>8. Dispatched(sent, got)
  BY <1>0 DEF Dispatched, GotOrdered
<1>9. Untouched /\ got \in Seq(GotRecord)
  BY DEF Untouched
<1> QED BY <1>1, <1>7, <1>8, <1>9 DEF BodiesInv

\* NewBatcher and NewReassembler, of a stream or of a group.
LEMMA StartBodies ==
    ASSUME BodiesInv, FramesInv', par.batch = 0, NEW p, FramesStart(p),
           p.stream \/ (p.qos /\ p.seed = 0)
    PROVE  BodiesInv'
<1>1. /\ par' = p /\ lane' = [k \in Lanes |-> [seqNum |-> p.seed, batch |-> <<>>]]
      /\ sent' = sent /\ net' = net /\ reasm' = reasm /\ got' = got /\ faults' = faults
      /\ gone' = gone
  BY DEF FramesStart
<1>2. /\ sent = <<>> /\ got = <<>> /\ faults = 0 /\ \A k \in ReceiverLanes : ~reasm[k].active
      /\ reasm \in [ReceiverLanes -> ReasmType] /\ net = <<>> /\ gone \in Nat
  BY NothingYet DEF BodiesInv, Untouched, Around, Carried
<1>3. (par \in ParType)' /\ Fits(lane, net)'
  BY DEF FramesInv
<1>5. GroupPar'
  BY <1>1 DEF GroupPar
<1>6. \A k \in Lanes : lane'[k].batch = <<>> /\ (~par'.stream => lane'[k].seqNum = 0)
  BY <1>1
<1>7. (reasm \in [ReceiverLanes -> ReasmType] /\ \A k \in ReceiverLanes : ~reasm[k].active)'
  BY <1>1, <1>2 DEF ReceiverLanes, ReasmType
<1>8. Fresh'
  BY <1>1, <1>2, <1>3, <1>5, <1>6, <1>7 DEF Fresh
<1> QED BY <1>8, FreshBodies, PTL

\* The bodies of the whole link.
LEMMA BodiesInvariant ==
    ASSUME SizesFit
    PROVE  Spec => []BodiesInv
<1>1. Init => BodiesInv
  <2> SUFFICES ASSUME Init PROVE Fresh
    BY FreshBodies
  <2>1. /\ par = [batch |-> 0, mod |-> 1, seed |-> 0, qos |-> FALSE, stream |-> TRUE]
        /\ sent = <<>> /\ net = <<>> /\ faults = 0 /\ got = <<>>
        /\ lane = [k \in Lanes |-> [seqNum |-> 0, batch |-> <<>>]]
        /\ reasm = [k \in ReceiverLanes |-> Cleared] /\ gone = 0
    BY DEF Init, FramesInit
  <2>2. par \in ParType /\ par.stream
    BY <2>1 DEF ParType
  <2>3. [seqNum |-> 0, batch |-> <<>>] \in LaneType
    BY DEF LaneType
  <2>4. [seqNum |-> 0, batch |-> <<>>] \in GoodLanes
    BY <2>1, <2>3 DEF GoodLanes
  <2>5. Fits(lane, net)
    BY <2>1, <2>4 DEF Fits
  <2>6. reasm \in [ReceiverLanes -> ReasmType] /\ \A k \in ReceiverLanes : ~reasm[k].active
    BY <2>1 DEF Cleared, ReasmType, Body
  <2> QED BY <2>1, <2>2, <2>5, <2>6 DEF Fresh, GroupPar
<1>2. LinkInv /\ LinkInv' /\ BodiesInv /\ [Next]_vars => BodiesInv'
  <2> SUFFICES ASSUME LinkInv, LinkInv', BodiesInv, [Next]_vars PROVE BodiesInv'
    OBVIOUS
  <2>0. FramesInv /\ FramesInv' /\ HsInv /\ faults \in Nat
    BY DEF LinkInv, FramesInv
  <2>1. CASE UNCHANGED frameVars
    <3>1. /\ par' = par /\ sent' = sent /\ lane' = lane /\ net' = net /\ reasm' = reasm /\ got' = got
          /\ faults' = faults /\ gone' = gone
      BY <2>1 DEF frameVars
    <3>2. Around(sent, got, reasm)' /\ Carried(sent, got, reasm, lane, net)' /\ Dispatched(sent, got)'
      BY <3>1, SameFaults DEF BodiesInv
    <3>3. (got \in Seq(GotRecord))' /\ Untouched' /\ (par.stream => faults = 0)'
      BY <3>1 DEF BodiesInv, Untouched, GotRecord, ReceiverLanes
    <3> QED BY <3>2, <3>3 DEF BodiesInv
  <2>2. CASE StartRuntimes
    <3> DEFINE p == [batch |-> hs["i"].batch, mod |-> Modulus(hs["i"].res),
                     seed |-> hs["i"].mySN, qos |-> hs["i"].qos, stream |-> TRUE]
    <3>1. par.batch = 0 /\ FramesStart(p) /\ p.stream
      BY <2>2 DEF StartRuntimes
    <3> HIDE DEF p
    <3> QED BY <3>1, <2>0, StartBodies
  <2>3. CASE StartGroup
    <3> DEFINE p == [batch |-> cfg["i"].batch, mod |-> Modulus(cfg["i"].res),
                     seed |-> 0, qos |-> TRUE, stream |-> FALSE]
    <3>1. /\ hpc["i"] = "start" /\ FramesStart(p) /\ p.qos /\ p.seed = 0
          /\ p.mod = Modulus(cfg["i"].res)
      BY <2>3 DEF StartGroup
    <3>2. par.batch = 0
      <4>1. par.batch \in Nat
        BY <2>0 DEF FramesInv, ParType
      <4> QED BY <3>1, <4>1, <2>0 DEF FramesInv, MadeFromAgreement
    <3> HIDE DEF p
    <3> QED BY <3>1, <3>2, <2>0, StartBodies
  <2>4. ASSUME NEW k \in Lanes, NEW n \in Sizes, NEW x \in BOOLEAN, EnqueueMsg(k, n, x)
        PROVE  BodiesInv'
    BY <2>4, EnqueueBodies
  <2>5. CASE FlushAll
    BY <2>5, FlushAllBodies
  <2>6. ASSUME NEW i \in 1..2, Receive(i) PROVE BodiesInv'
    BY <2>6, <2>0, ReceiveBodies
  <2>7. CASE LoseBatch
    BY <2>7, <2>0, LoseBodies
  <2> QED BY <2>1, <2>2, <2>3, <2>4, <2>5, <2>6, <2>7 DEF Next, FramesNext, vars
<1> QED BY <1>1, <1>2, LinkInvariant, PTL DEF Spec

\* What BodiesInv says of the bodies dispatched.
LEMMA BodiesFromInv ==
    ASSUME BodiesInv
    PROVE  BodiesGenuine
<1>1. got \in Seq(GotRecord) /\ Dispatched(sent, got) /\ (par.stream => faults = 0)
  BY DEF BodiesInv
<1>2. ASSUME NEW i \in DOMAIN got, faults = 0 \/ ~CameRound
      PROVE  TailOfOne(got[i].body)
  <2>1. i \in 1..Len(got)
    BY <1>1
  <2>2. CASE faults = 0
    <3>1. Ending(sent, got[i].body)
      BY <1>1, <2>1, <2>2 DEF Dispatched, Whole
    <3> QED BY <3>1, EndingIs DEF TailOfOne, MsgOf, Start
  <2>3. CASE faults # 0 /\ ~CameRound
    <3>1. Lasting(net)
      <4>1. gone + Len(net) \in Int /\ par.mod \in Int
        BY DEF BodiesInv, Around, Carried, Fits, ParType
      <4> QED BY <4>1, <1>1, <2>3 DEF CameRound, Lasting
    <3>2. Ending(sent, got[i].body)
      BY <3>1, <2>1 DEF BodiesInv, Carried, Endings
    <3> QED BY <3>2, EndingIs DEF TailOfOne, MsgOf, Start
  <2> QED BY <1>2, <2>2, <2>3
<1>3. ASSUME NEW i \in DOMAIN got, faults = 0
      PROVE  /\ Start(got[i].body) = 1
             /\ par.qos => /\ sent[MsgOf(got[i].body)].lane = got[i].lane
                           /\ \A j \in 1..(i-1) : got[j].lane = got[i].lane =>
                                                     MsgOf(got[j].body) < MsgOf(got[i].body)
  <2>1. i \in 1..Len(got)
    BY <1>1
  <2> QED BY <1>1, <1>3, <2>1 DEF Dispatched, Whole, GotOrdered
<1> QED BY <1>2, <1>3 DEF BodiesGenuine, MsgOf, Start

\* For any lanes, batch sizes, resolutions, losses and overtakings, and any
\* number of messages within the receiver's limit: while nothing was lost or
\* overtaken, and so on every stream link, Dispatch is given whole messages, and
\* with QoS each lane's in the order of Enqueue and none twice, the sequence
\* numbers wrapping as often as they like; after a fault it is given messages and
\* tails of messages, never parts of two, until as many batches were sent as
\* there are sequence numbers (Batcher.Enqueue, FlushAll, Reassembler.Push,
\* processBatch).
THEOREM BodiesGenuineHolds ==
    ASSUME SizesFit
    PROVE  Spec => []BodiesGenuine
<1>1. BodiesInv => BodiesGenuine
  BY BodiesFromInv
<1> QED BY <1>1, BodiesInvariant, PTL
=============================================================================

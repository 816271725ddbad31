-------------------------------- MODULE Wire --------------------------------
(***************************************************************************)
(* The messages of internal/wire, an encoder and a decoder each, and the   *)
(* readers that take a batch or a datagram apart.  Nothing on the wire     *)
(* says where a message ends: each decoder has to stop where its encoder   *)
(* did, or everything after it in the batch is lost.                       *)
(***************************************************************************)
EXTENDS Codec

More(exts) == exts # <<>>
Result(m, r) == [v |-> m, r |-> r]

------------------------------------------------------------------------------
(* Data: PUT, DEL, QUERY, REPLY, ERR.                                      *)

EncodePut(p) ==
    PackHeader(1, p.ts # <<>>, p.enc # <<>>, More(p.exts))
    \o Given(p.ts, EncodeTimestamp) \o Given(p.enc, EncodeEncoding)
    \o EncodeExtensions(p.exts) \o Bytes(p.payload)
DecodePut(r, h) ==
    Then(Maybe(r, h.f1, DecodeTimestamp), LAMBDA ts :
    Then(Maybe(ts.r, h.f2, DecodeEncoding), LAMBDA enc :
    Then(Extensions(enc.r, h), LAMBDA x :
    Then(ReadBytes(ReadZ32(x.r)), LAMBDA b :
        Result([t |-> "PUT", ts |-> ts.v, enc |-> enc.v, exts |-> x.v, payload |-> b.v], b.r)))))

EncodeDel(d) ==
    PackHeader(2, d.ts # <<>>, FALSE, More(d.exts))
    \o Given(d.ts, EncodeTimestamp) \o EncodeExtensions(d.exts)
DecodeDel(r, h) ==
    Then(Maybe(r, h.f1, DecodeTimestamp), LAMBDA ts :
    Then(Extensions(ts.r, h), LAMBDA x :
        Result([t |-> "DEL", ts |-> ts.v, exts |-> x.v], x.r)))

EncodePushBody(b) == IF b.t = "PUT" THEN EncodePut(b) ELSE EncodeDel(b)
DecodePushBody(r) ==
    LET h == ReadHeader(r)
    IN  CASE h.v.id = 1 -> DecodePut(h.r, h.v)
          [] h.v.id = 2 -> DecodeDel(h.r, h.v)
          [] OTHER -> V!Failed(<<>>)

Byte(b) == <<b>>
EncodeQuery(q) ==
    PackHeader(3, q.cons # <<>>, q.params # <<>>, More(q.exts))
    \o Given(q.cons, Byte) \o (IF q.params # <<>> THEN Bytes(q.params) ELSE <<>>)
    \o EncodeExtensions(q.exts)
DecodeQuery(r) ==
    Then(ReadHeader(r), LAMBDA h :
    Then(Maybe(h.r, h.v.f1, V!ReadByte), LAMBDA c :
    Then(MaybeBytes(c.r, h.v.f2, ReadZ16), LAMBDA p :
    Then(Extensions(p.r, h.v), LAMBDA x :
        IF h.v.id # 3 THEN V!Failed(<<>>)
        ELSE Result([t |-> "QUERY", cons |-> c.v, params |-> p.v, exts |-> x.v], x.r)))))

EncodeReply(b) ==
    PackHeader(4, b.cons # <<>>, FALSE, More(b.exts))
    \o Given(b.cons, Byte) \o EncodeExtensions(b.exts) \o EncodePushBody(b.inner)
DecodeReply(r, h) ==
    Then(Maybe(r, h.f1, V!ReadByte), LAMBDA c :
    Then(Extensions(c.r, h), LAMBDA x :
    Then(DecodePushBody(x.r), LAMBDA b :
        Result([t |-> "REPLY", cons |-> c.v, exts |-> x.v, inner |-> b.v], b.r))))

EncodeErr(e) ==
    PackHeader(5, FALSE, e.enc # <<>>, More(e.exts))
    \o Given(e.enc, EncodeEncoding) \o EncodeExtensions(e.exts) \o Bytes(e.payload)
\* Mutant of DecodeErr: the encoding is looked for behind the wrong flag.
DecodeErrF1(r, h) ==
    Then(Maybe(r, h.f1, DecodeEncoding), LAMBDA enc :
    Then(Extensions(enc.r, h), LAMBDA x :
    Then(ReadBytes(ReadZ32(x.r)), LAMBDA b :
        Result([t |-> "ERR", enc |-> enc.v, exts |-> x.v, payload |-> b.v], b.r))))
DecodeErr(r, h) ==
    Then(Maybe(r, h.f2, DecodeEncoding), LAMBDA enc :
    Then(Extensions(enc.r, h), LAMBDA x :
    Then(ReadBytes(ReadZ32(x.r)), LAMBDA b :
        Result([t |-> "ERR", enc |-> enc.v, exts |-> x.v, payload |-> b.v], b.r))))

------------------------------------------------------------------------------
(* Declarations.                                                           *)

EncodeDeclareKeyExpr(d) ==
    PackHeader(0, d.suffix # <<>>, FALSE, More(d.exts))
    \o Z(d.id) \o Z(d.scope) \o (IF d.suffix # <<>> THEN Bytes(d.suffix) ELSE <<>>)
    \o EncodeExtensions(d.exts)
DecodeDeclareKeyExpr(r, h) ==
    Then(ReadZ16(r), LAMBDA i :
    Then(ReadZ16(i.r), LAMBDA s :
    Then(MaybeBytes(s.r, h.f1, ReadZ16), LAMBDA n :
    Then(Extensions(n.r, h), LAMBDA x :
        Result([t |-> "D_KEYEXPR", id |-> i.v, scope |-> s.v, suffix |-> n.v, exts |-> x.v], x.r)))))

EncodeUndeclareKeyExpr(d) ==
    PackHeader(1, FALSE, FALSE, More(d.exts)) \o Z(d.id) \o EncodeExtensions(d.exts)
DecodeUndeclareKeyExpr(r, h) ==
    Then(ReadZ16(r), LAMBDA i :
    Then(Extensions(i.r, h), LAMBDA x :
        Result([t |-> "U_KEYEXPR", id |-> i.v, exts |-> x.v], x.r)))

\* D_SUBSCRIBER, D_QUERYABLE, D_TOKEN: kind is 2, 4 or 6
EncodeDeclareEntity(d) ==
    PackHeader(d.kind, Named(d.ke), d.ke.mapping, More(d.exts))
    \o Z(d.id) \o EncodeScope(d.ke) \o EncodeExtensions(d.exts)
DecodeDeclareEntity(r, h) ==
    Then(ReadZ32(r), LAMBDA i :
    Then(DecodeWireExpr(i.r, h.f1, h.f2), LAMBDA k :
    Then(Extensions(k.r, h), LAMBDA x :
        Result([t |-> "D_ENTITY", kind |-> h.id, id |-> i.v, ke |-> k.v, exts |-> x.v], x.r))))

\* The key expression of an undeclaration is in the mandatory extension 0x0F,
\* whose body has flags of its own and a suffix without a length.
encodeWireExprExtension(k) ==
    [id |-> 15, mand |-> TRUE, enc |-> 2, z |-> 0,
     buf |-> <<Bit(Named(k), 0) + Bit(k.mapping, 1)>> \o Z(k.scope) \o k.suffix]
decodeWireExprExtensionBody(b) ==
    Then(V!ReadByte([in |-> b, ok |-> TRUE]), LAMBDA f :
    Then(ReadZ16(f.r), LAMBDA s :
        Result([scope |-> s.v, suffix |-> IF Has(f.v, 0) THEN s.r.in ELSE <<>>, mapping |-> Has(f.v, 1)], s.r)))
IsWireExpr(e) == e.id = 15 /\ e.enc = 2
IsOther(e) == ~IsWireExpr(e)

EncodeUndeclareEntity(d) ==
    PackHeader(d.kind, FALSE, FALSE, TRUE) \o Z(d.id)
    \o EncodeExtension(encodeWireExprExtension(d.ke), More(d.exts)) \o EncodeExtensions(d.exts)
DecodeUndeclareEntity(r, h) ==
    Then(ReadZ32(r), LAMBDA i :
    Then(Extensions(i.r, h), LAMBDA x :
    Then(SelectSeq(x.v, IsWireExpr), LAMBDA ks :
    Then(IF ks = <<>> THEN Result([scope |-> 0, suffix |-> <<>>, mapping |-> FALSE], x.r)
          ELSE decodeWireExprExtensionBody(Last(ks).buf), LAMBDA k :
        IF ~k.r.ok THEN V!Failed(<<>>)
        ELSE Result([t |-> "U_ENTITY", kind |-> h.id, id |-> i.v, ke |-> k.v,
                     exts |-> SelectSeq(x.v, IsOther)], x.r)))))

EncodeDeclareFinal(d) == PackHeader(26, FALSE, FALSE, More(d.exts)) \o EncodeExtensions(d.exts)
DecodeDeclareFinal(r, h) ==
    LET x == Extensions(r, h) IN Result([t |-> "D_FINAL", exts |-> x.v], x.r)

EncodeDeclareBody(d) ==
    CASE d.t = "D_KEYEXPR" -> EncodeDeclareKeyExpr(d)
      [] d.t = "U_KEYEXPR" -> EncodeUndeclareKeyExpr(d)
      [] d.t = "D_ENTITY" -> EncodeDeclareEntity(d)
      [] d.t = "U_ENTITY" -> EncodeUndeclareEntity(d)
      [] d.t = "D_FINAL" -> EncodeDeclareFinal(d)
DecodeDeclareBody(r) ==
    LET h == ReadHeader(r)
    IN  CASE h.v.id = 0 -> DecodeDeclareKeyExpr(h.r, h.v)
          [] h.v.id = 1 -> DecodeUndeclareKeyExpr(h.r, h.v)
          [] h.v.id \in {2, 4, 6} -> DecodeDeclareEntity(h.r, h.v)
          [] h.v.id \in {3, 5, 7} -> DecodeUndeclareEntity(h.r, h.v)
          [] h.v.id = 26 -> DecodeDeclareFinal(h.r, h.v)
          [] OTHER -> V!Failed(<<>>)

------------------------------------------------------------------------------
(* Network messages.                                                       *)

EncodeDeclare(m) ==
    PackHeader(30, m.interest # <<>>, FALSE, More(m.exts))
    \o Given(m.interest, Z) \o EncodeExtensions(m.exts) \o EncodeDeclareBody(m.body)
DecodeDeclare(r, h) ==
    Then(Maybe(r, h.f1, ReadZ32), LAMBDA i :
    Then(Extensions(i.r, h), LAMBDA x :
    Then(DecodeDeclareBody(x.r), LAMBDA b :
        Result([t |-> "DECLARE", interest |-> i.v, exts |-> x.v, body |-> b.v], b.r))))

EncodePush(m) ==
    PackHeader(29, Named(m.ke), m.ke.mapping, More(m.exts))
    \o EncodeScope(m.ke) \o EncodeExtensions(m.exts) \o EncodePushBody(m.body)
DecodePush(r, h) ==
    Then(DecodeWireExpr(r, h.f1, h.f2), LAMBDA k :
    Then(Extensions(k.r, h), LAMBDA x :
    Then(DecodePushBody(x.r), LAMBDA b :
        Result([t |-> "PUSH", ke |-> k.v, exts |-> x.v, body |-> b.v], b.r))))

EncodeRequest(m) ==
    PackHeader(28, Named(m.ke), m.ke.mapping, More(m.exts))
    \o Z(m.id) \o EncodeScope(m.ke) \o EncodeExtensions(m.exts) \o EncodeQuery(m.body)
DecodeRequest(r, h) ==
    Then(ReadZ32(r), LAMBDA i :
    Then(DecodeWireExpr(i.r, h.f1, h.f2), LAMBDA k :
    Then(Extensions(k.r, h), LAMBDA x :
    Then(DecodeQuery(x.r), LAMBDA b :
        Result([t |-> "REQUEST", id |-> i.v, ke |-> k.v, exts |-> x.v, body |-> b.v], b.r)))))

EncodeResponse(m) ==
    PackHeader(27, Named(m.ke), m.ke.mapping, More(m.exts))
    \o Z(m.id) \o EncodeScope(m.ke) \o EncodeExtensions(m.exts)
    \o (IF m.body.t = "REPLY" THEN EncodeReply(m.body) ELSE EncodeErr(m.body))
DecodeResponseBody(r) ==
    LET h == ReadHeader(r)
    IN  CASE h.v.id = 4 -> DecodeReply(h.r, h.v)
          [] h.v.id = 5 -> DecodeErr(h.r, h.v)
          [] OTHER -> V!Failed(<<>>)
DecodeResponse(r, h) ==
    Then(ReadZ32(r), LAMBDA i :
    Then(DecodeWireExpr(i.r, h.f1, h.f2), LAMBDA k :
    Then(Extensions(k.r, h), LAMBDA x :
    Then(DecodeResponseBody(x.r), LAMBDA b :
        Result([t |-> "RESPONSE", id |-> i.v, ke |-> k.v, exts |-> x.v, body |-> b.v], b.r)))))

EncodeResponseFinal(m) == PackHeader(26, FALSE, FALSE, More(m.exts)) \o Z(m.id) \o EncodeExtensions(m.exts)
DecodeResponseFinal(r, h) ==
    Then(ReadZ32(r), LAMBDA i :
    Then(Extensions(i.r, h), LAMBDA x :
        Result([t |-> "RESPONSE_FINAL", id |-> i.v, exts |-> x.v], x.r)))

\* Mode is split over F1 and F2; an INTEREST of mode Final ends after its id.
\* Filter holds the bits of KeyExprs, Subscribers, Queryables, Tokens, Aggregate.
EncodeInterest(m) ==
    LET k == m.ke[1]
        named == m.ke # <<>> /\ Named(k)
        mapped == m.ke # <<>> /\ k.mapping
    IN  PackHeader(25, Has(m.mode, 0), Has(m.mode, 1), More(m.exts)) \o Z(m.id)
        \o (IF m.mode = 0 THEN <<>>
            ELSE <<m.filter + Bit(m.ke # <<>>, 4) + Bit(named, 5) + Bit(mapped, 6)>>
                 \o Given(m.ke, EncodeScope))
        \o EncodeExtensions(m.exts)
DecodeInterest(r, h) ==
    Then(Bit(h.f1, 0) + Bit(h.f2, 1), LAMBDA mode :
    Then(ReadZ32(r), LAMBDA i :
    Then(IF mode # 0 THEN V!ReadByte(i.r) ELSE [v |-> 0, r |-> i.r], LAMBDA o :
    Then(Maybe(o.r, Has(o.v, 4), LAMBDA q : DecodeWireExpr(q, Has(o.v, 5), Has(o.v, 6))), LAMBDA k :
    Then(Extensions(k.r, h), LAMBDA x :
        Result([t |-> "INTEREST", mode |-> mode, id |-> i.v, ke |-> k.v,
                filter |-> (o.v % 16) + Bit(Has(o.v, 7), 7), exts |-> x.v], x.r))))))

------------------------------------------------------------------------------
(* Transport messages.                                                     *)

EncodeSizes(s) == <<s.res>> \o U16LE(s.batch)
ReadSizes(r) ==
    Then(V!ReadByte(r), LAMBDA a :
    Then(ReadU16LE(a.r), LAMBDA b :
        Result([res |-> a.v, batch |-> b.v], b.r)))

EncodeInit(m) ==
    PackHeader(1, m.ack, m.sizes # <<>>, More(m.exts)) \o <<m.version>>
    \o EncodeZID(m.zid, m.role) \o Given(m.sizes, EncodeSizes)
    \o (IF m.ack THEN Bytes(m.cookie) ELSE <<>>) \o EncodeExtensions(m.exts)
DecodeInit(r, h) ==
    Then(V!ReadByte(r), LAMBDA ver :
    Then(DecodeZID(ver.r), LAMBDA z :
    Then(Maybe(z.r, h.f2, ReadSizes), LAMBDA s :
    Then(MaybeBytes(s.r, h.f1, ReadZ16), LAMBDA c :
    Then(Extensions(c.r, h), LAMBDA x :
        Result([t |-> "INIT", ack |-> h.f1, version |-> ver.v, zid |-> z.v, role |-> z.role,
                sizes |-> s.v, cookie |-> c.v, exts |-> x.v], x.r))))))

EncodeOpen(m) ==
    PackHeader(2, m.ack, m.seconds, More(m.exts)) \o Z(m.lease) \o Z(m.sn)
    \o (IF m.ack THEN <<>> ELSE Bytes(m.cookie)) \o EncodeExtensions(m.exts)
DecodeOpen(r, h) ==
    Then(ReadZ64(r), LAMBDA l :
    Then(ReadZ64(l.r), LAMBDA n :
    Then(MaybeBytes(n.r, ~h.f1, ReadZ16), LAMBDA c :
    Then(Extensions(c.r, h), LAMBDA x :
        Result([t |-> "OPEN", ack |-> h.f1, seconds |-> h.f2, lease |-> l.v, sn |-> n.v,
                cookie |-> c.v, exts |-> x.v], x.r)))))

EncodeClose(m) == PackHeader(3, m.session, FALSE, More(m.exts)) \o <<m.reason>> \o EncodeExtensions(m.exts)
DecodeClose(r, h) ==
    Then(V!ReadByte(r), LAMBDA b :
    Then(Extensions(b.r, h), LAMBDA x :
        Result([t |-> "CLOSE", session |-> h.f1, reason |-> b.v, exts |-> x.v], x.r)))

EncodeKeepAlive(m) == PackHeader(4, FALSE, FALSE, More(m.exts)) \o EncodeExtensions(m.exts)
DecodeKeepAlive(r, h) == LET x == Extensions(r, h) IN Result([t |-> "KEEPALIVE", exts |-> x.v], x.r)

\* The messages of a FRAME follow it in the batch.
EncodeFrame(m) == PackHeader(5, m.reliable, FALSE, More(m.exts)) \o Z(m.sn) \o EncodeExtensions(m.exts)
DecodeFrame(r, h) ==
    Then(ReadZ64(r), LAMBDA n :
    Then(Extensions(n.r, h), LAMBDA x :
        Result([t |-> "FRAME", reliable |-> h.f1, sn |-> n.v, exts |-> x.v], x.r)))

\* The body of a FRAGMENT is what is left of the batch.
EncodeFragment(m) ==
    PackHeader(6, m.reliable, m.more, More(m.exts)) \o Z(m.sn) \o EncodeExtensions(m.exts) \o m.body
DecodeFragment(r, h) ==
    Then(ReadZ64(r), LAMBDA n :
    Then(Extensions(n.r, h), LAMBDA x :
        Result([t |-> "FRAGMENT", reliable |-> h.f1, more |-> h.f2, sn |-> n.v, exts |-> x.v,
                body |-> x.r.in], [x.r EXCEPT !.in = <<>>])))

\* AttachLaneSNs: two SNs a priority in one mandatory extension
LaneSNs(sns) == [id |-> 1, mand |-> TRUE, enc |-> 2, z |-> 0,
                 buf |-> FlattenSeq([i \in 1..Len(sns) |-> Z(sns[i][1]) \o Z(sns[i][2])])]
EncodeJoin(m) ==
    PackHeader(7, m.seconds, m.sizes # <<>>, More(m.exts)) \o <<m.version>>
    \o EncodeZID(m.zid, m.role) \o Given(m.sizes, EncodeSizes)
    \o Z(m.lease) \o Z(m.snRel) \o Z(m.snBE) \o EncodeExtensions(m.exts)
DecodeJoin(r, h) ==
    Then(V!ReadByte(r), LAMBDA ver :
    Then(DecodeZID(ver.r), LAMBDA z :
    Then(Maybe(z.r, h.f2, ReadSizes), LAMBDA s :
    Then(ReadZ64(s.r), LAMBDA l :
    Then(ReadZ64(l.r), LAMBDA a :
    Then(ReadZ64(a.r), LAMBDA b :
    Then(Extensions(b.r, h), LAMBDA x :
        Result([t |-> "JOIN", seconds |-> h.f1, version |-> ver.v, zid |-> z.v, role |-> z.role,
                sizes |-> s.v, lease |-> l.v, snRel |-> a.v, snBE |-> b.v, exts |-> x.v], x.r))))))))

------------------------------------------------------------------------------
(* Scouting messages.                                                      *)

\* The ZenohID of a SCOUT is optional; its length shares a byte with the matcher.
EncodeScout(m) ==
    PackHeader(1, FALSE, FALSE, More(m.exts)) \o <<m.version>>
    \o <<m.matcher + (IF m.zid # <<>> THEN 8 + 16 * (Len(m.zid) - 1) ELSE 0)>> \o m.zid
    \o EncodeExtensions(m.exts)
DecodeScout(r, h) ==
    Then(V!ReadByte(r), LAMBDA ver :
    Then(V!ReadByte(ver.r), LAMBDA p :
    Then(IF Has(p.v, 3) THEN ReadN(p.r, p.v \div 16 + 1) ELSE [v |-> <<>>, r |-> p.r], LAMBDA z :
    Then(Extensions(z.r, h), LAMBDA x :
        Result([t |-> "SCOUT", version |-> ver.v, matcher |-> p.v % 8, zid |-> z.v, exts |-> x.v], x.r)))))

EncodeHello(m) ==
    PackHeader(2, m.locs # <<>>, FALSE, More(m.exts)) \o <<m.version>> \o EncodeZID(m.zid, m.role)
    \o (IF m.locs # <<>> THEN Z(Len(m.locs)) \o FlattenSeq([i \in 1..Len(m.locs) |-> Bytes(m.locs[i])])
        ELSE <<>>)
    \o EncodeExtensions(m.exts)
RECURSIVE ReadLocators(_, _)
ReadLocators(r, n) ==
    IF n = 0 THEN Result(<<>>, r)
    ELSE LET l == ReadBytes(ReadZ8(r))
             rest == ReadLocators(l.r, n - 1)
         IN  Result(<<l.v>> \o rest.v, rest.r)
DecodeHello(r, h) ==
    Then(V!ReadByte(r), LAMBDA ver :
    Then(DecodeZID(ver.r), LAMBDA z :
    Then(IF h.f1 THEN ReadZ8(z.r) ELSE Result(0, z.r), LAMBDA n :
    Then(ReadLocators(n.r, n.v), LAMBDA l :
    Then(Extensions(l.r, h), LAMBDA x :
        Result([t |-> "HELLO", version |-> ver.v, zid |-> z.v, role |-> z.role,
                locs |-> l.v, exts |-> x.v], x.r))))))

------------------------------------------------------------------------------
(* Taking apart what was sent.                                             *)

CONSTANTS Batches,   \* the pairs <<layer, messages>> that may be sent
          Integers8  \* values of the scaled-down integers
SmallDigit == 4
SmallBytes == 3
Small == INSTANCE Vle WITH Digit <- SmallDigit, MaxZ64Bytes <- SmallBytes
NarrowLimit == 9     \* of the scaled-down narrow integer, in at most 2 bytes

VARIABLES layer,   \* "stream", "datagram", "handshake", "scouting"; "z64", "narrow"
          sent,    \* the messages of the batch, or one integer
          rd,      \* the reader on its bytes
          inFrame, \* in dispatchFrameMessages
          got      \* the messages handed on
wireVars == <<layer, sent, rd, inFrame, got>>

EncodeMessage(m) ==
    CASE m.t = "PUSH" -> EncodePush(m)
      [] m.t = "DECLARE" -> EncodeDeclare(m)
      [] m.t = "REQUEST" -> EncodeRequest(m)
      [] m.t = "RESPONSE" -> EncodeResponse(m)
      [] m.t = "RESPONSE_FINAL" -> EncodeResponseFinal(m)
      [] m.t = "INTEREST" -> EncodeInterest(m)
      [] m.t = "INIT" -> EncodeInit(m)
      [] m.t = "OPEN" -> EncodeOpen(m)
      [] m.t = "CLOSE" -> EncodeClose(m)
      [] m.t = "KEEPALIVE" -> EncodeKeepAlive(m)
      [] m.t = "FRAME" -> EncodeFrame(m)
      [] m.t = "FRAGMENT" -> EncodeFragment(m)
      [] m.t = "JOIN" -> EncodeJoin(m)
      [] m.t = "SCOUT" -> EncodeScout(m)
      [] m.t = "HELLO" -> EncodeHello(m)

WireInit ==
    /\ inFrame = FALSE /\ got = <<>>
    /\ \/ \E b \in Batches :
             /\ layer = b[1] /\ sent = b[2]
             /\ rd = [in |-> FlattenSeq([i \in 1..Len(b[2]) |-> EncodeMessage(b[2][i])]), ok |-> TRUE]
       \/ \E v \in Integers8, w \in {"z64", "narrow"} :
             /\ layer = w /\ sent = <<v>>
             /\ rd = [in |-> Small!EncodeZ64(v), ok |-> TRUE]

Reading(l) == layer = l /\ rd.ok /\ rd.in # <<>>

\* What was decoded is handed on; an error ends the batch.
HandOn(d) == /\ got' = IF d.r.ok THEN Append(got, d.v) ELSE got
             /\ rd' = d.r
             /\ UNCHANGED <<layer, sent>>

\* One transport message of a batch; the messages of a FRAME follow it.
Transport(id, d) ==
    /\ ~inFrame /\ HandOn(d) /\ inFrame' = (id = 5 /\ d.r.ok)

\* processBatch: a CLOSE ends the batch, anything else is an error.
ReadTransport ==
    LET h == ReadHeader(rd)
        id == h.v.id
    IN  /\ Reading("stream")
        /\ Transport(id, CASE id = 4 -> DecodeKeepAlive(h.r, h.v)
                           [] id = 3 -> [DecodeClose(h.r, h.v) EXCEPT !.r.in = <<>>]
                           [] id = 5 -> DecodeFrame(h.r, h.v)
                           [] id = 6 -> DecodeFragment(h.r, h.v)
                           [] OTHER -> V!Failed(<<>>))

\* handleDatagram of a multicast member, which knows JOIN and not CLOSE; from a
\* source in its table.
ReadDatagram ==
    LET h == ReadHeader(rd)
        id == h.v.id
    IN  /\ Reading("datagram")
        /\ Transport(id, CASE id = 7 -> DecodeJoin(h.r, h.v)
                           [] id = 4 -> DecodeKeepAlive(h.r, h.v)
                           [] id = 5 -> DecodeFrame(h.r, h.v)
                           [] id = 6 -> DecodeFragment(h.r, h.v)
                           [] OTHER -> V!Failed(<<>>))

InFrame == inFrame /\ (Reading("stream") \/ Reading("datagram"))
IsNetworkMessageID(id) == id >= 25 /\ id <= 31
\* An OAM has no length, and queries and interests are no business of a multicast
\* group: the rest of the batch is skipped with them.
Skipped(id) == id = 31 \/ (layer = "datagram" /\ id \in 25..28)
\* dispatchFrameMessages, dispatchMulticastFrameMessages and their dispatchers: up to
\* the first header that is not a network message's.
ReadNetwork ==
    LET h == ReadHeader(rd)
        id == h.v.id
    IN  /\ InFrame /\ IsNetworkMessageID(id)
        /\ HandOn(CASE Skipped(id) -> Result([t |-> "SKIPPED"], [h.r EXCEPT !.in = <<>>])
                    [] id = 29 -> DecodePush(h.r, h.v)
                    [] id = 30 -> DecodeDeclare(h.r, h.v)
                    [] id = 28 -> DecodeRequest(h.r, h.v)
                    [] id = 27 -> DecodeResponse(h.r, h.v)
                    [] id = 26 -> DecodeResponseFinal(h.r, h.v)
                    [] id = 25 -> DecodeInterest(h.r, h.v))
        /\ UNCHANGED inFrame
FrameEnds ==
    /\ InFrame /\ ~IsNetworkMessageID(ReadHeader(rd).v.id)
    /\ inFrame' = FALSE /\ UNCHANGED <<layer, sent, rd, got>>

\* readInitSyn, ReceiveInitAck, readOpenSyn, ReceiveOpenAck: one message a batch
ReadHandshake ==
    LET h == ReadHeader(rd)
    IN  /\ Reading("handshake")
        /\ HandOn(CASE h.v.id = 1 -> DecodeInit(h.r, h.v)
                    [] h.v.id = 2 -> DecodeOpen(h.r, h.v)
                    [] h.v.id = 3 -> DecodeClose(h.r, h.v)
                    [] OTHER -> V!Failed(<<>>))
        /\ UNCHANGED inFrame

\* decodeHello, and the SCOUT that other nodes read
ReadScouting ==
    LET h == ReadHeader(rd)
    IN  /\ Reading("scouting")
        /\ HandOn(CASE h.v.id = 1 -> DecodeScout(h.r, h.v)
                    [] h.v.id = 2 -> DecodeHello(h.r, h.v)
                    [] OTHER -> V!Failed(<<>>))
        /\ UNCHANGED inFrame

ReadInteger ==
    /\ \/ Reading("z64") /\ HandOn(Small!DecodeZ64(rd))
       \/ Reading("narrow") /\ HandOn(Small!DecodeNarrow(rd, 2, NarrowLimit))
    /\ UNCHANGED inFrame

WireNext == ReadTransport \/ ReadDatagram \/ ReadNetwork \/ FrameEnds \/ ReadHandshake \/ ReadScouting \/ ReadInteger

------------------------------------------------------------------------------
(* Properties.                                                             *)

\* What is read from a batch is what was put into it, whatever options,
\* extensions and key expressions each message has, and the reader is then at
\* the first byte of the next message or at the end: every decoder stops where
\* its encoder did and a FRAME ends where the next transport message begins
\* (reader.go:92-155, multicast_peer.go:385-455, ids.go:55-63).  An integer survives at every width, in the
\* bytes SizeZ64 announces, and one too large for its type is an error.
SentIsReceived ==
    IF layer = "narrow" /\ sent[1] > NarrowLimit
    THEN got = <<>>
    ELSE /\ rd.ok
         /\ got = SubSeq(sent, 1, Len(got))
         /\ rd.in = <<>> => got = sent
         /\ layer = "z64" /\ got = <<>> => Len(rd.in) = Small!SizeZ64(sent[1])
=============================================================================

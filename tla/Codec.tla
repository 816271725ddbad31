-------------------------------- MODULE Codec --------------------------------
(***************************************************************************)
(* What messages are made of (internal/codec and the value types of        *)
(* internal/wire): integers, byte strings, header bytes, extension chains, *)
(* key expressions, ZenohIDs, timestamps and encodings, byte by byte.      *)
(*                                                                         *)
(* Bytes, strings and ZenohIDs are sequences of bytes; an optional field   *)
(* is a sequence of at most one value.                                     *)
(***************************************************************************)
EXTENDS Naturals, Sequences, SequencesExt

V == INSTANCE Vle WITH Digit <- 128, MaxZ64Bytes <- 9

Bit(b, i) == IF b THEN 2 ^ i ELSE 0
Has(n, i) == (n \div 2 ^ i) % 2 = 1

------------------------------------------------------------------------------
(* Primitives.                                                             *)

Z(v) == V!EncodeZ64(v)
Bytes(b) == Z(Len(b)) \o b
U16LE(v) == <<v % 256, v \div 256>>

ReadZ64(r) == V!DecodeZ64(r)
\* The limit of a z32, 2^32 - 1, is beyond TLC's integers and no value here nears it.
ReadZ32(r) == V!DecodeNarrow(r, 5, 2147483647)
ReadZ16(r) == V!DecodeNarrow(r, 3, 65535)
ReadZ8(r) == V!DecodeNarrow(r, 2, 255)
ReadN(r, n) ==
    IF r.ok /\ n <= Len(r.in)
    THEN [v |-> SubSeq(r.in, 1, n), r |-> [r EXCEPT !.in = SubSeq(@, n + 1, Len(@))]]
    ELSE V!Failed(<<>>)
ReadU16LE(r) == LET b == ReadN(r, 2)
                IN  [v |-> IF b.r.ok THEN b.v[1] + 256 * b.v[2] ELSE 0, r |-> b.r]
\* n: what reading the length gave.
ReadBytes(n) == ReadN(n.r, n.v)

\* One read after another: what a read gave is named and passed on.
Then(d, Continue(_)) == Continue(d)

\* A field behind a flag.
Maybe(r, flag, Read(_)) ==
    IF flag THEN LET d == Read(r) IN [v |-> <<d.v>>, r |-> d.r] ELSE [v |-> <<>>, r |-> r]
MaybeBytes(r, flag, Length(_)) ==
    IF flag THEN ReadBytes(Length(r)) ELSE [v |-> <<>>, r |-> r]
Given(opt, Encode(_)) == IF opt = <<>> THEN <<>> ELSE Encode(opt[1])

------------------------------------------------------------------------------
(* Headers and extension chains.                                           *)

PackHeader(id, f1, f2, z) == <<(id % 32) + Bit(f1, 5) + Bit(f2, 6) + Bit(z, 7)>>
ReadHeader(r) ==
    LET b == V!ReadByte(r)
    IN  [v |-> [id |-> b.v % 32, f1 |-> Has(b.v, 5), f2 |-> Has(b.v, 6), z |-> Has(b.v, 7)], r |-> b.r]

EncodeExtension(e, more) ==
    <<e.id + Bit(e.mand, 4) + 32 * e.enc + Bit(more, 7)>>
    \o (CASE e.enc = 0 -> <<>> [] e.enc = 1 -> Z(e.z) [] e.enc = 2 -> Bytes(e.buf))
EncodeExtensions(exts) ==
    FlattenSeq([i \in 1..Len(exts) |-> EncodeExtension(exts[i], i < Len(exts))])

ReadExtension(r) ==
    Then(V!ReadByte(r), LAMBDA b :
    Then((b.v \div 32) % 4, LAMBDA enc :
    Then(IF enc = 1 THEN ReadZ64(b.r) ELSE [v |-> 0, r |-> b.r], LAMBDA z :
    Then(MaybeBytes(z.r, enc = 2, ReadZ32), LAMBDA buf :
        IF enc = 3 THEN V!Failed([id |-> 0, more |-> FALSE])
        ELSE [v |-> [id |-> b.v % 16, mand |-> Has(b.v, 4), enc |-> enc, z |-> z.v, buf |-> buf.v],
              r |-> buf.r, more |-> Has(b.v, 7)]))))
RECURSIVE ReadExtensions(_)
ReadExtensions(r) ==
    LET e == ReadExtension(r)
    IN  IF ~e.r.ok THEN V!Failed(<<>>)
        ELSE IF ~e.more THEN [v |-> <<e.v>>, r |-> e.r]
        ELSE LET rest == ReadExtensions(e.r) IN [v |-> <<e.v>> \o rest.v, r |-> rest.r]
Extensions(r, h) == IF h.z THEN ReadExtensions(r) ELSE [v |-> <<>>, r |-> r]

------------------------------------------------------------------------------
(* Building blocks.                                                        *)

Named(k) == k.suffix # <<>>
EncodeScope(k) == Z(k.scope) \o IF Named(k) THEN Bytes(k.suffix) ELSE <<>>
DecodeWireExpr(r, named, mapping) ==
    Then(ReadZ16(r), LAMBDA s :
    Then(MaybeBytes(s.r, named, ReadZ16), LAMBDA x :
        [v |-> [scope |-> s.v, suffix |-> x.v, mapping |-> mapping], r |-> x.r]))

\* The ZenohID's length shares a byte with the role.
EncodeZID(zid, role) == <<(Len(zid) - 1) * 16 + role>> \o zid
DecodeZID(r) ==
    Then(V!ReadByte(r), LAMBDA b :
    Then(ReadN(b.r, b.v \div 16 + 1), LAMBDA z :
        [v |-> z.v, role |-> b.v % 4, r |-> z.r]))

EncodeTimestamp(t) == Z(t.ntp) \o Z(Len(t.zid)) \o t.zid
DecodeTimestamp(r) ==
    Then(ReadZ64(r), LAMBDA n :
    Then(ReadBytes(ReadZ8(n.r)), LAMBDA z :
        [v |-> [ntp |-> n.v, zid |-> z.v], r |-> z.r]))

EncodeEncoding(e) == Z(2 * e.id + IF e.schema # <<>> THEN 1 ELSE 0)
                     \o IF e.schema # <<>> THEN Bytes(e.schema) ELSE <<>>
DecodeEncoding(r) ==
    Then(ReadZ32(r), LAMBDA i :
    Then(MaybeBytes(i.r, i.v % 2 = 1, ReadZ8), LAMBDA s :
        [v |-> [id |-> i.v \div 2, schema |-> s.v], r |-> s.r]))
=============================================================================

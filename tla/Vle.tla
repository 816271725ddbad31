-------------------------------- MODULE Vle --------------------------------
(***************************************************************************)
(* Variable-length integers (internal/codec/vle.go).  A byte carries Digit *)
(* values and a continuation bit; the last of MaxZ64Bytes carries 2 Digit  *)
(* values and no continuation bit.  The code has Digit = 128 and           *)
(* MaxZ64Bytes = 9; the narrow types allow fewer bytes and check a limit.  *)
(*                                                                         *)
(* A reader is [in, ok]: the unread bytes, and whether no read has failed. *)
(* A read gives [v, r], the value and the reader after it; after a failure *)
(* it gives a zero value, as the error path of every decoder does.         *)
(***************************************************************************)
EXTENDS Naturals, Sequences
CONSTANTS Digit, MaxZ64Bytes

Failed(zero) == [v |-> zero, r |-> [in |-> <<>>, ok |-> FALSE]]

ReadByte(r) ==
    IF r.ok /\ r.in # <<>> THEN [v |-> Head(r.in), r |-> [r EXCEPT !.in = Tail(@)]]
    ELSE Failed(0)

RECURSIVE EncodeFrom(_, _)
EncodeFrom(v, left) ==
    IF left = 1 \/ v < Digit THEN <<v>>
    ELSE <<Digit + (v % Digit)>> \o EncodeFrom(v \div Digit, left - 1)
EncodeZ64(v) == EncodeFrom(v, MaxZ64Bytes)

SizeZ64(v) == CHOOSE n \in 1..MaxZ64Bytes :
                  /\ n = MaxZ64Bytes \/ v < Digit ^ n
                  /\ n = 1 \/ v >= Digit ^ (n - 1)

\* decodeVLE's loop at byte i; the byte at the type's own limit must be the
\* last, but the ninth byte is taken whole.
RECURSIVE DecodeFrom(_, _, _, _)
DecodeFrom(r, i, maxBytes, value) ==
    LET b == ReadByte(r)
    IN  IF ~b.r.ok THEN Failed(0)
        ELSE IF i = MaxZ64Bytes - 1 THEN [v |-> value + b.v * Digit ^ i, r |-> b.r]
        ELSE IF i = maxBytes - 1 /\ b.v >= Digit THEN Failed(0)
        ELSE IF b.v < Digit THEN [v |-> value + b.v * Digit ^ i, r |-> b.r]
        ELSE DecodeFrom(b.r, i + 1, maxBytes, value + (b.v % Digit) * Digit ^ i)

DecodeZ64(r) == DecodeFrom(r, 0, MaxZ64Bytes, 0)

\* DecodeZ32, DecodeZ16, DecodeZ8
DecodeNarrow(r, maxBytes, limit) ==
    LET d == DecodeFrom(r, 0, maxBytes, 0) IN IF d.v > limit THEN Failed(0) ELSE d
=============================================================================

---------------------------- MODULE Consolidation ----------------------------
(***************************************************************************)
(* What the reply translator of a Get keeps: runMonotonicTranslator and    *)
(* runLatestTranslator of zenoh/get.go, fed with the same replies.         *)
(*                                                                         *)
(* A reply is [key, ts]: ts is its timestamp, 0 when it has none. An error *)
(* reply has the key NoKey.                                                *)
(***************************************************************************)
EXTENDS Naturals, Sequences, FiniteSets

CONSTANTS
    Keys,         \* keys of data replies
    NoKey,        \* marks an error reply
    MaxTs,        \* timestamps are 1 .. MaxTs
    MaxArrived    \* bound: replies of one Get

ASSUME ConsolidationAssumption ==
    NoKey \notin Keys /\ MaxTs \in Nat /\ MaxArrived \in Nat

Replies == [key : Keys, ts : 0 .. MaxTs] \cup [key : {NoKey}, ts : {0}]

VARIABLES
    arrived,      \* history: the replies, in order of arrival
    marks,        \* Monotonic: latest timestamp seen of each key, 0 for none
    passed,       \* Monotonic: arrival numbers of the replies forwarded
    buf,          \* Latest: arrival number of the reply kept per key, 0 for none
    order,        \* Latest: keys by first insertion
    errs          \* Latest: arrival numbers of the error replies

consolidationVars == <<arrived, marks, passed, buf, order, errs>>

ConsolidationInit ==
    /\ arrived = <<>>
    /\ marks = [k \in Keys |-> 0] /\ passed = <<>>
    /\ buf = [k \in Keys |-> 0] /\ order = <<>> /\ errs = <<>>

-----------------------------------------------------------------------------
IsError(r) == r.key = NoKey
Stamped(r) == ~IsError(r) /\ r.ts > 0

\* Mutant of MonotonicDrops: a reply with an equal timestamp is forwarded.
MonotonicDropsOlder(r) == Stamped(r) /\ marks[r.key] > 0 /\ r.ts < marks[r.key]

\* decide of runMonotonicTranslator refuses the reply.
MonotonicDrops(r) == Stamped(r) /\ marks[r.key] > 0 /\ r.ts <= marks[r.key]

Monotonic(r, n) ==
    /\ passed' = IF MonotonicDrops(r) THEN passed ELSE Append(passed, n)
    /\ marks' = IF Stamped(r) /\ ~MonotonicDrops(r)
                THEN [marks EXCEPT ![r.key] = r.ts] ELSE marks

\* take of runLatestTranslator keeps the reply it has: both carry timestamps
\* and the new one is not newer.
LatestDrops(r) ==
    /\ buf[r.key] > 0
    /\ Stamped(r) /\ Stamped(arrived[buf[r.key]])
    /\ r.ts <= arrived[buf[r.key]].ts

Latest(r, n) ==
    IF IsError(r)
    THEN errs' = Append(errs, n) /\ UNCHANGED <<buf, order>>
    ELSE /\ buf' = IF LatestDrops(r) THEN buf ELSE [buf EXCEPT ![r.key] = n]
         /\ order' = IF buf[r.key] = 0 THEN Append(order, r.key) ELSE order
         /\ UNCHANGED errs

\* Both translators take the next reply.
Take(r) ==
    /\ Len(arrived) < MaxArrived
    /\ arrived' = Append(arrived, r)
    /\ Monotonic(r, Len(arrived) + 1)
    /\ Latest(r, Len(arrived) + 1)

\* What runLatestTranslator emits once the source is closed.
Flush == errs \o [i \in 1 .. Len(order) |-> buf[order[i]]]

ConsolidationNext == \E r \in Replies : Take(r)

ConsolidationSpec == ConsolidationInit /\ [][ConsolidationNext]_consolidationVars

-----------------------------------------------------------------------------
(* Properties.                                                             *)

Positions == 1 .. Len(arrived)

\* "per key, drop replies whose timestamp is <= the newest one already emitted
\* for that key", by definition: a reply is forwarded unless an earlier one of
\* its key was at least as new. Order is that of arrival; replies without
\* timestamp and errors always pass and never count.
MonotonicReference ==
    LET kept == {n \in Positions :
                   \A m \in 1 .. n - 1 :
                      ~(/\ Stamped(arrived[n]) /\ Stamped(arrived[m])
                        /\ arrived[m].key = arrived[n].key
                        /\ arrived[n].ts <= arrived[m].ts)}
    IN  /\ {passed[i] : i \in 1 .. Len(passed)} = kept
        /\ \A i, j \in 1 .. Len(passed) : i < j => passed[i] < passed[j]

OfKey(k) == {n \in Positions : arrived[n].key = k}

\* Latest emits every error, then one reply of each key that was answered,
\* keys in the order they were first answered.
LatestShape ==
    LET flushed == Flush
        nErr == Cardinality(OfKey(NoKey))
    IN  /\ \A i \in 1 .. Len(flushed) : (i <= nErr) <=> IsError(arrived[flushed[i]])
        /\ \A i, j \in 1 .. nErr : i < j => flushed[i] < flushed[j]
        /\ Len(flushed) = nErr + Cardinality({k \in Keys : OfKey(k) # {}})
        /\ \A i, j \in nErr + 1 .. Len(flushed) :
              i < j => \E m \in OfKey(arrived[flushed[i]].key) :
                          \A n \in OfKey(arrived[flushed[j]].key) : m < n

\* The newest reply of a key whose replies all have timestamps: the largest
\* timestamp, the first to arrive with it; the last to arrive if none has one.
IsNewest(k, n) ==
    \/ /\ \A m \in OfKey(k) : Stamped(arrived[m])
       /\ \A m \in OfKey(k) : arrived[m].ts < arrived[n].ts
                              \/ (arrived[m].ts = arrived[n].ts /\ n <= m)
    \/ /\ \A m \in OfKey(k) : ~Stamped(arrived[m])
       /\ \A m \in OfKey(k) : m <= n

\* A key whose replies are all stamped, or all unstamped, keeps its newest.
LatestReference ==
    \A k \in Keys :
        (\/ \A m \in OfKey(k) : Stamped(arrived[m])
         \/ \A m \in OfKey(k) : ~Stamped(arrived[m]))
            => buf[k] = 0 \/ IsNewest(k, buf[k])

\* Both modes of consolidation of zenoh/get.go keep what their definitions over
\* the whole sequence of replies say, whatever the order of arrival.
Consolidates == MonotonicReference /\ LatestShape /\ LatestReference
=============================================================================

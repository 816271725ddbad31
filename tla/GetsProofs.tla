----------------------------- MODULE GetsProofs -----------------------------
(***************************************************************************)
(* Proofs about Gets, for any number of calls, replies, links and any      *)
(* channel capacity: no reply is sent on a closed channel, and what the    *)
(* caller is given of a Get is accounted for (budget, order, nothing lost).*)
(* And about Consolidation, for any keys, timestamps and number of replies:*)
(* what each mode passes on is what the replies that arrived call for.     *)
(***************************************************************************)
EXTENDS Gets, Consolidation, SequenceTheorems, FiniteSetTheorems, TLAPS

CallPlaces == {"new", "register", "lookup", "send", "fail", "spawn", "failed", "returned"}
Causes == {"none", "failed", "final", "cancel", "link"}

\* The types of the variables the arguments are about.
GetsShape ==
    /\ holding \subseteq Calls /\ reg \subseteq Calls
    /\ gpc \in [Calls -> CallPlaces] /\ opt \in [Calls -> CallOptions]
    /\ ctxDone \in [Calls -> BOOLEAN]
    /\ closes \in [Calls -> Nat] /\ endedBy \in [Calls -> Causes]
    /\ sent \in [Calls -> Nat] /\ final \in [Calls -> BOOLEAN]
    /\ bpc \in [Calls -> {"none", "recv", "send", "exited"}]
    /\ tpc \in [Calls -> {"none", "recv", "emit", "done"}]
    /\ bhold \in [Calls -> Nat] /\ count \in [Calls -> Nat]
    /\ inCh \in [Calls -> Seq(Nat)] /\ dst \in [Calls -> Seq(Nat)]
    /\ thold \in [Calls -> Seq(Nat)]
    /\ out \in [Calls -> Seq(Nat)] /\ got \in [Calls -> Seq(Nat)]

\* The call has not registered its collector yet.
Unregistered(g) == gpc[g] \in {"new", "register"}

\* The reader holds the lock only for a registered Get, a Get registers once,
\* and the channel of a registered Get is open.
RegistryInv ==
    /\ ~panicked
    /\ holding \subseteq reg /\ \A g, h \in holding : g = h
    /\ \A g \in reg : closes[g] = 0 /\ endedBy[g] = "none" /\ ~Unregistered(g)
    /\ \A g \in Calls : Unregistered(g) =>
           closes[g] = 0 /\ endedBy[g] = "none" /\ bpc[g] = "none" /\ count[g] = 0
    /\ \A g \in Calls : endedBy[g] = "final" => final[g] /\ closes[g] > 0

\* The source of the translator is closed and drained.
SourceOver(g) == Source(g) = <<>> /\ SourceClosed(g)

\* Where budgetLimit and the translator are, against what their channels hold.
PipelineOf(g) ==
    /\ opt[g].budget = 0 => dst[g] = <<>> /\ bpc[g] = "none"
    /\ opt[g].budget > 0 =>
           /\ count[g] = Len(got[g]) + Len(out[g]) + Len(thold[g]) + Len(dst[g])
           /\ count[g] <= opt[g].budget
           /\ bpc[g] \in {"recv", "send"} => count[g] < opt[g].budget
           /\ bpc[g] = "exited" /\ ~ctxDone[g] =>
                  count[g] = opt[g].budget \/ (inCh[g] = <<>> /\ ChanClosed(g))
    /\ gpc[g] # "returned" => tpc[g] = "none" /\ thold[g] = <<>>
    /\ opt[g].stream /\ tpc[g] = "recv" => thold[g] = <<>>
    /\ opt[g].stream /\ tpc[g] = "emit" => thold[g] # <<>>
    /\ ~opt[g].stream /\ tpc[g] = "emit" => SourceOver(g)
    /\ tpc[g] = "done" /\ ~ctxDone[g] => thold[g] = <<>> /\ SourceOver(g)

\* The reply budgetLimit has taken and not passed on.
Held(g) == IF bpc[g] = "send" THEN <<bhold[g]>> ELSE <<>>

\* Every reply on its way to the caller, the oldest first.
Chain(g) == got[g] \o (out[g] \o (thold[g] \o (dst[g] \o (Held(g) \o inCh[g]))))

\* Replies the reader has put into the channel or dropped.
Delivered(g) == IF g \in holding THEN sent[g] - 1 ELSE sent[g]

\* s is in the router's order, and holds none after the n-th reply.
Ordered(s, n) ==
    /\ \A i, j \in 1 .. Len(s) : i < j => s[i] < s[j]
    /\ \A i \in 1 .. Len(s) : s[i] <= n

OrderOf(g) == Ordered(Chain(g), Delivered(g))

\* The Get takes replies, or RESPONSE_FINAL has ended it; none was dropped and
\* the context is not cancelled.
Counted(g) ==
    /\ g \in reg \/ Unregistered(g) \/ endedBy[g] = "final"
    /\ g \notin overflow /\ ~ctxDone[g]

\* Then every reply is in the chain.
CountOf(g) == Counted(g) => Len(Chain(g)) = Delivered(g)

GetsInv ==
    /\ GetsShape /\ RegistryInv
    /\ \A g \in Calls : PipelineOf(g) /\ OrderOf(g) /\ CountOf(g)

-----------------------------------------------------------------------------
(* Sequences of replies.                                                   *)

\* Concatenation is associative.
LEMMA ConcatAssoc ==
    ASSUME NEW a \in Seq(Nat), NEW b \in Seq(Nat), NEW c \in Seq(Nat)
    PROVE  (a \o b) \o c = a \o (b \o c)
<1> DEFINE s == (a \o b) \o c
<1> DEFINE t == a \o (b \o c)
<1>1. a \o b \in Seq(Nat) /\ b \o c \in Seq(Nat)
  BY ConcatProperties
<1>2. s \in Seq(Nat) /\ t \in Seq(Nat)
  BY <1>1, ConcatProperties
<1>3. /\ Len(a) \in Nat /\ Len(b) \in Nat /\ Len(c) \in Nat
      /\ Len(a \o b) = Len(a) + Len(b) /\ Len(b \o c) = Len(b) + Len(c)
      /\ Len(s) = Len(a) + Len(b) + Len(c) /\ Len(t) = Len(a) + Len(b) + Len(c)
  BY <1>1, ConcatProperties, LenProperties
<1>4. ASSUME NEW i \in 1 .. Len(s) PROVE s[i] = t[i]
  BY <1>1, <1>3, ConcatProperties
<1> HIDE DEF s, t
<1>5. s = t
  BY <1>2, <1>3, <1>4, SeqEqual
<1>6. QED
  BY <1>5 DEF s, t

\* Taking the head of c to the end of a leaves a \o c as it was.
LEMMA Pass ==
    ASSUME NEW a \in Seq(Nat), NEW c \in Seq(Nat), c # <<>>
    PROVE  Append(a, Head(c)) \o Tail(c) = a \o c
<1>1. Append(a, Head(c)) \in Seq(Nat) /\ Tail(c) \in Seq(Nat)
  BY HeadTailProperties, AppendProperties
<1>2. Len(Append(a, Head(c)) \o Tail(c)) = Len(a \o c)
  BY <1>1, HeadTailProperties, AppendProperties, ConcatProperties, LenProperties
<1>3. ASSUME NEW i \in 1 .. Len(a \o c)
      PROVE  (Append(a, Head(c)) \o Tail(c))[i] = (a \o c)[i]
  BY <1>1, HeadTailProperties, AppendProperties, ConcatProperties, LenProperties
<1>4. Append(a, Head(c)) \o Tail(c) \in Seq(Nat) /\ a \o c \in Seq(Nat)
  BY <1>1, ConcatProperties
<1>5. QED
  BY <1>2, <1>3, <1>4, SeqEqual

\* The same in the middle of a chain.
LEMMA PassWithin ==
    ASSUME NEW a \in Seq(Nat), NEW c \in Seq(Nat), NEW r \in Seq(Nat), c # <<>>
    PROVE  Append(a, Head(c)) \o (Tail(c) \o r) = a \o (c \o r)
<1>1. Append(a, Head(c)) \in Seq(Nat) /\ Tail(c) \in Seq(Nat)
  BY HeadTailProperties, AppendProperties
<1>2. Append(a, Head(c)) \o (Tail(c) \o r) = (Append(a, Head(c)) \o Tail(c)) \o r
  BY <1>1, ConcatAssoc, SMTT(40)
<1>3. (a \o c) \o r = a \o (c \o r)
  BY ConcatAssoc
<1>4. QED
  BY <1>2, <1>3, Pass

\* Appending to the last of a chain appends to the chain.
LEMMA ConcatAppend ==
    ASSUME NEW a \in Seq(Nat), NEW c \in Seq(Nat), NEW x \in Nat
    PROVE  a \o Append(c, x) = Append(a \o c, x)
<1>1. Append(c, x) = c \o <<x>> /\ <<x>> \in Seq(Nat)
  BY AppendIsConcat
<1>2. a \o c \in Seq(Nat) /\ Append(a \o c, x) = (a \o c) \o <<x>>
  BY ConcatProperties, AppendIsConcat
<1>3. QED
  BY <1>1, <1>2, ConcatAssoc

\* A newer reply at the end keeps the order.
LEMMA OrderedAppend ==
    ASSUME NEW s \in Seq(Nat), NEW n \in Int, NEW m \in Nat, n < m, Ordered(s, n)
    PROVE  Ordered(Append(s, m), m)
<1>1. /\ Len(Append(s, m)) = Len(s) + 1 /\ Len(s) \in Nat
      /\ Append(s, m)[Len(s) + 1] = m
      /\ \A i \in 1 .. Len(s) : Append(s, m)[i] = s[i] /\ s[i] \in Nat
  BY AppendProperties, LenProperties, ElementOfSeq
<1>2. QED
  BY <1>1 DEF Ordered

\* A reply taken out of the middle keeps the order.
LEMMA OrderedDrop ==
    ASSUME NEW a \in Seq(Nat), NEW b \in Seq(Nat), NEW x \in Nat, NEW n \in Int,
           Ordered(a \o (<<x>> \o b), n)
    PROVE  Ordered(a \o b, n)
<1> DEFINE s == a \o (<<x>> \o b)
<1> DEFINE at(i) == IF i <= Len(a) THEN i ELSE i + 1
<1>1. /\ Len(a) \in Nat /\ Len(b) \in Nat /\ <<x>> \in Seq(Nat) /\ Len(<<x>>) = 1
      /\ <<x>> \o b \in Seq(Nat)
  BY LenProperties, ConcatProperties
<1>2. Len(s) = Len(a) + Len(b) + 1 /\ Len(a \o b) = Len(a) + Len(b)
  BY <1>1, ConcatProperties
<1>3. \A i \in 1 .. Len(a \o b) : (a \o b)[i] = s[at(i)] /\ at(i) \in 1 .. Len(s)
  BY <1>1, <1>2, ConcatProperties
<1>4. \A i, j \in 1 .. Len(a \o b) : i < j => at(i) < at(j)
  BY <1>1, <1>2
<1> HIDE DEF s, at
<1>5. QED
  BY <1>3, <1>4 DEF Ordered, s

\* The beginning of an ordered chain is ordered.
LEMMA OrderedPrefix ==
    ASSUME NEW a \in Seq(Nat), NEW b \in Seq(Nat), NEW n, Ordered(a \o b, n)
    PROVE  Ordered(a, n)
<1>1. /\ Len(a) \in Nat /\ Len(b) \in Nat /\ Len(a \o b) = Len(a) + Len(b)
      /\ \A i \in 1 .. Len(a) : (a \o b)[i] = a[i] /\ i \in 1 .. Len(a \o b)
  BY LenProperties, ConcatProperties
<1>2. QED
  BY <1>1 DEF Ordered

-----------------------------------------------------------------------------
(* Types.                                                                  *)

\* Closing collectors keeps the types of the registry.
LEMMA FinaliseShape ==
    ASSUME GetsShape, NEW gs, NEW why \in Causes, Finalise(gs, why)
    PROVE  /\ reg' \subseteq Calls /\ closes' \in [Calls -> Nat]
           /\ endedBy' \in [Calls -> Causes]
  BY DEF GetsShape, Finalise, Causes

\* Every step keeps the types.
LEMMA ShapeStep == GetsShape /\ [Next]_vars => GetsShape'
<1> SUFFICES ASSUME GetsShape, [Next]_vars PROVE GetsShape'
  OBVIOUS
<1> USE DEF linkVars, routerVars, regVars, readVars, callVars, budgetVars, transVars,
            CallUnchanged, ReadUnchanged, BudgetUnchanged, TransUnchanged, WatchUnchanged,
            LinkUnchanged, CallPlaces, Causes
<1>1. ASSUME NEW g \in Calls, Call(g) PROVE GetsShape'
  <2>1. CASE Get(g)
    BY <2>1 DEF Get, GetsShape, CallGoto
  <2>2. CASE Register(g)
    BY <2>2 DEF Register, GetsShape, CallGoto
  <2>3. CASE Lookup(g)
    BY <2>3 DEF Lookup, GetsShape, CallGoto
  <2>4. CASE Send(g)
    BY <2>4 DEF Send, GetsShape, CallGoto
  <2>5. CASE Fail(g)
    BY <2>5, FinaliseShape DEF Fail, GetsShape, CallGoto
  <2>6. CASE Spawn(g)
    BY <2>6 DEF Spawn, GetsShape, CallGoto
  <2>7. QED
    BY <1>1, <2>1, <2>2, <2>3, <2>4, <2>5, <2>6 DEF Call
<1>2. ASSUME NEW g \in Calls, CancelContext(g) PROVE GetsShape'
  BY <1>2 DEF CancelContext, GetsShape
<1>3. ASSUME NEW g \in Calls, Reader(g) PROVE GetsShape'
  <2>1. CASE DeliverLookup(g)
    BY <2>1, SMTT(40) DEF DeliverLookup, GetsShape
  <2>2. CASE DeliverSend(g)
    <3>1. Append(inCh[g], sent[g]) \in Seq(Nat)
      BY AppendProperties DEF GetsShape
    <3>2. QED
      BY <2>2, <3>1 DEF DeliverSend, GetsShape
  <2>3. CASE ReceiveFinal(g)
    BY <2>3, FinaliseShape DEF ReceiveFinal, GetsShape
  <2>4. QED
    BY <1>3, <2>1, <2>2, <2>3 DEF Reader
<1>4. ASSUME NEW g \in Calls, BudgetLimit(g) PROVE GetsShape'
  <2>1. CASE BudgetReceive(g)
    <3>1. inCh[g] # <<>> => Head(inCh[g]) \in Nat /\ Tail(inCh[g]) \in Seq(Nat)
      BY HeadTailProperties DEF GetsShape
    <3>2. QED
      <4>1. bpc' \in [Calls -> {"none", "recv", "send", "exited"}]
        <5>1. BudgetGoto(g, "recv", "send") \/ BudgetGoto(g, "recv", "exited")
          BY <2>1 DEF BudgetReceive
        <5>2. QED
          BY <5>1, ZenonT(40) DEF BudgetGoto, GetsShape
      <4>2. inCh' \in [Calls -> Seq(Nat)] /\ bhold' \in [Calls -> Nat]
        BY <2>1, <3>1, ZenonT(40) DEF BudgetReceive, GetsShape
      <4>3. QED
        BY <2>1, <4>1, <4>2 DEF BudgetReceive, GetsShape
  <2>2. CASE BudgetSend(g)
    <3>1. Append(dst[g], bhold[g]) \in Seq(Nat)
      BY AppendProperties DEF GetsShape
    <3>2. QED
      <4>1. bpc' \in [Calls -> {"none", "recv", "send", "exited"}]
        <5>1. BudgetGoto(g, "send", "recv") \/ BudgetGoto(g, "send", "exited")
          BY <2>2 DEF BudgetSend
        <5>2. QED
          BY <5>1, ZenonT(40) DEF BudgetGoto, GetsShape
      <4>2. dst' \in [Calls -> Seq(Nat)] /\ count' \in [Calls -> Nat]
        <5>1. dst' = [dst EXCEPT ![g] = Append(@, bhold[g])] \/ dst' = dst
          BY <2>2 DEF BudgetSend
        <5>2. count' = [count EXCEPT ![g] = @ + 1] \/ count' = count
          BY <2>2 DEF BudgetSend
        <5>3. dst' \in [Calls -> Seq(Nat)]
          BY <3>1, <5>1, ZenonT(40) DEF GetsShape
        <5>4. count' \in [Calls -> Nat]
          <6>1. count[g] + 1 \in Nat
            BY DEF GetsShape
          <6>2. QED
            BY <5>2, <6>1 DEF GetsShape
        <5>5. QED
          BY <5>3, <5>4
      <4>3. QED
        BY <2>2, <4>1, <4>2 DEF BudgetSend, GetsShape
  <2>3. QED
    BY <1>4, <2>1, <2>2 DEF BudgetLimit
<1>5. ASSUME NEW g \in Calls, Translator(g) PROVE GetsShape'
  <2>1. CASE TransReceive(g)
    <3>1. Source(g) \in Seq(Nat) /\ thold[g] \in Seq(Nat) /\ Source(g) # <<>>
      BY <2>1 DEF TransReceive, Source, GetsShape
    <3>2. Append(thold[g], Head(Source(g))) \in Seq(Nat) /\ Tail(Source(g)) \in Seq(Nat)
      BY <3>1, HeadTailProperties, AppendProperties
    <3>3. thold' \in [Calls -> Seq(Nat)] /\ tpc' \in [Calls -> {"none", "recv", "emit", "done"}]
      BY <2>1, <3>2 DEF TransReceive, TransGoto, GetsShape
    <3>4. inCh' \in [Calls -> Seq(Nat)] /\ dst' \in [Calls -> Seq(Nat)]
      BY <2>1, <3>2 DEF TransReceive, TakeSource, Source, GetsShape
    <3>5. QED
      BY <2>1, <3>3, <3>4 DEF TransReceive, GetsShape
  <2>2. CASE TransEmit(g)
    BY <2>2, HeadTailProperties, AppendProperties DEF TransEmit, TransGoto, AfterEmit, GetsShape
  <2>3. CASE TransClosed(g) \/ TransNothingToFlush(g) \/ TransCancelled(g)
    BY <2>3 DEF TransClosed, TransNothingToFlush, TransCancelled, TransGoto, GetsShape
  <2>4. QED
    BY <1>5, <2>1, <2>2, <2>3 DEF Translator
<1>6. ASSUME NEW g \in Calls, Consume(g) PROVE GetsShape'
  BY <1>6, HeadTailProperties, AppendProperties DEF Consume, GetsShape
<1>7. ASSUME NEW g \in Calls, Watcher(g) PROVE GetsShape'
  BY <1>7, FinaliseShape DEF Watcher, WatchCancels, WatchExited, GetsShape
<1>8. CASE LinkLost \/ CloseSession
  BY <1>8 DEF LinkLost, CloseSession, GetsShape
<1>9. CASE Orchestrator
  BY <1>9, FinaliseShape DEF Orchestrator, CancelAllGets, ListQueries, CancelQuery,
        RuntimeDone, Uninstall, Reconnect, GetsShape
<1>10. CASE UNCHANGED vars
  BY <1>10 DEF vars, GetsShape
<1>11. QED
  BY <1>1, <1>2, <1>3, <1>4, <1>5, <1>6, <1>7, <1>8, <1>9, <1>10 DEF Next

-----------------------------------------------------------------------------
(* The registry.                                                           *)

\* What closing collectors does to a Get, and that it waits for the reader.
LEMMA FinaliseOf ==
    ASSUME GetsShape, RegistryInv, NEW gs, NEW why \in Causes, Finalise(gs, why)
    PROVE  /\ holding = {} /\ reg' \subseteq reg
           /\ \A h \in reg' : closes'[h] = 0 /\ endedBy'[h] = "none"
           /\ \A h \in Calls : ChanClosed(h) => ChanClosed(h)'
           /\ \A h \in Calls : h \notin reg =>
                  closes'[h] = closes[h] /\ endedBy'[h] = endedBy[h]
           /\ \A h \in Calls : endedBy'[h] = "final" =>
                  ChanClosed(h)' /\ (endedBy[h] = "final" \/ (h \in reg \cap gs /\ why = "final"))
  BY SMTT(40) DEF GetsShape, RegistryInv, Finalise, ChanClosed

\* Closing collectors keeps the registry's invariant.
LEMMA FinaliseRegistry ==
    ASSUME GetsShape, RegistryInv, NEW gs, NEW why \in Causes, Finalise(gs, why),
           UNCHANGED <<holding, panicked, bpc, count>>,
           \A h \in Calls : Unregistered(h)' => Unregistered(h),
           \A h \in Calls : final[h] => final'[h],
           why = "final" => \A h \in gs \cap Calls : final'[h]
    PROVE  RegistryInv'
<1>1. ~panicked' /\ holding' \subseteq reg' /\ \A g, h \in holding' : g = h
  BY FinaliseOf DEF RegistryInv
<1>2. reg' \subseteq reg /\ reg \subseteq Calls
  BY FinaliseOf DEF GetsShape
<1>3. ASSUME NEW h \in reg'
      PROVE  closes'[h] = 0 /\ endedBy'[h] = "none" /\ ~Unregistered(h)'
  <2>1. closes'[h] = 0 /\ endedBy'[h] = "none"
    BY FinaliseOf
  <2>2. ~Unregistered(h)
    BY <1>2 DEF RegistryInv
  <2>3. QED
    BY <1>2, <2>1, <2>2
<1>4. ASSUME NEW h \in Calls, Unregistered(h)'
      PROVE  closes'[h] = 0 /\ endedBy'[h] = "none" /\ bpc'[h] = "none" /\ count'[h] = 0
  <2>1. Unregistered(h) /\ h \notin reg
    BY <1>4 DEF RegistryInv
  <2>2. closes'[h] = closes[h] /\ endedBy'[h] = endedBy[h]
    BY <2>1, FinaliseOf
  <2>3. QED
    BY <2>1, <2>2 DEF RegistryInv
<1>5. ASSUME NEW h \in Calls, endedBy'[h] = "final" PROVE final'[h] /\ closes'[h] > 0
  <2>1. ChanClosed(h)' /\ (endedBy[h] = "final" \/ (h \in reg \cap gs /\ why = "final"))
    BY <1>5, FinaliseOf
  <2>2. QED
    BY <2>1 DEF RegistryInv, ChanClosed
<1>6. QED
  BY <1>1, <1>3, <1>4, <1>5 DEF RegistryInv

\* Every step keeps the registry's invariant.
LEMMA RegistryStep == GetsShape /\ RegistryInv /\ [Next]_vars => RegistryInv'
<1> SUFFICES ASSUME GetsShape, RegistryInv, [Next]_vars PROVE RegistryInv'
  OBVIOUS
<1> USE DEF linkVars, routerVars, regVars, readVars, callVars, budgetVars, transVars,
            CallUnchanged, ReadUnchanged, BudgetUnchanged, TransUnchanged, WatchUnchanged,
            LinkUnchanged
<1>1. ASSUME NEW g \in Calls, Call(g) PROVE RegistryInv'
  <2>1. CASE Get(g)
    BY <2>1, SMTT(40) DEF Get, GetsShape, RegistryInv, Unregistered, CallGoto
  <2>2. CASE Register(g)
    BY <2>2 DEF Register, GetsShape, RegistryInv, Unregistered, CallGoto
  <2>3. CASE Lookup(g) \/ Send(g) \/ Spawn(g)
    <3>1. PICK p \in CallPlaces \ {"new", "register"} :
              gpc' = [gpc EXCEPT ![g] = p] /\ ~Unregistered(g)
      BY <2>3 DEF Lookup, Send, Spawn, CallGoto, CallPlaces, Unregistered
    <3>2. UNCHANGED <<panicked, holding, reg, closes, endedBy, bpc, count, final>>
      BY <2>3 DEF Lookup, Send, Spawn
    <3>3. \A h \in Calls : Unregistered(h)' <=> Unregistered(h)
      BY <3>1 DEF GetsShape, Unregistered
    <3>4. QED
      BY <3>2, <3>3 DEF RegistryInv, GetsShape
  <2>4. CASE Fail(g)
    <3>1. \A h \in Calls : Unregistered(h)' => Unregistered(h)
      BY <2>4 DEF Fail, CallGoto, GetsShape, Unregistered
    <3>2. QED
      BY <2>4, <3>1, FinaliseRegistry DEF Fail, Causes
  <2>5. QED
    BY <1>1, <2>1, <2>2, <2>3, <2>4 DEF Call
<1>2. ASSUME NEW g \in Calls, Reader(g) PROVE RegistryInv'
  <2>1. CASE DeliverLookup(g)
    BY <2>1 DEF DeliverLookup, RegistryInv, Unregistered
  <2>2. CASE DeliverSend(g)
    <3>1. ~ChanClosed(g) /\ ~panicked
      BY <2>2 DEF DeliverSend, RegistryInv, ChanClosed
    <3>2. ~panicked' /\ holding' = {}
      BY <2>2, <3>1 DEF DeliverSend
    <3>3. QED
      BY <2>2, <3>2 DEF DeliverSend, RegistryInv, Unregistered
  <2>3. CASE ReceiveFinal(g)
    <3>1. \A h \in Calls : (Unregistered(h)' => Unregistered(h)) /\ (final[h] => final'[h])
      BY <2>3 DEF ReceiveFinal, GetsShape, Unregistered
    <3>2. final'[g]
      BY <2>3 DEF ReceiveFinal, GetsShape
    <3>3. QED
      BY <2>3, <3>1, <3>2, FinaliseRegistry DEF ReceiveFinal, Causes
  <2>4. QED
    BY <1>2, <2>1, <2>2, <2>3 DEF Reader
<1>3. ASSUME NEW g \in Calls, BudgetLimit(g) PROVE RegistryInv'
  <2>1. bpc[g] # "none" /\ ~Unregistered(g)
    BY <1>3 DEF BudgetLimit, BudgetReceive, BudgetSend, BudgetGoto, RegistryInv
  <2>2. \A h \in Calls : h # g => bpc'[h] = bpc[h] /\ count'[h] = count[h]
    BY <1>3 DEF BudgetLimit, BudgetReceive, BudgetSend, BudgetGoto, GetsShape
  <2>3. UNCHANGED <<panicked, holding, reg, closes, endedBy, gpc, final>>
    BY <1>3 DEF BudgetLimit, BudgetReceive, BudgetSend
  <2>4. QED
    BY <2>1, <2>2, <2>3 DEF RegistryInv, Unregistered
<1>4. ASSUME NEW g \in Calls, Translator(g) \/ Consume(g) \/ CancelContext(g) PROVE RegistryInv'
  BY <1>4 DEF Translator, TransReceive, TransEmit, TransClosed, TransNothingToFlush, TransCancelled,
              Consume, CancelContext, RegistryInv, Unregistered
<1>5. ASSUME NEW g \in Calls, Watcher(g) PROVE RegistryInv'
  <2>1. CASE WatchCancels(g)
    BY <2>1, FinaliseRegistry DEF WatchCancels, Unregistered, Causes
  <2>2. CASE WatchExited(g)
    BY <2>2 DEF WatchExited, RegistryInv, Unregistered
  <2>3. QED
    BY <1>5, <2>1, <2>2 DEF Watcher
<1>6. CASE LinkLost \/ CloseSession
  BY <1>6 DEF LinkLost, CloseSession, RegistryInv, Unregistered
<1>7. CASE Orchestrator
  <2>1. CASE CancelAllGets
    BY <2>1, FinaliseRegistry DEF CancelAllGets, Unregistered, Causes
  <2>2. ASSUME NEW g \in Calls, CancelQuery(g) PROVE RegistryInv'
    BY <2>2, FinaliseRegistry DEF CancelQuery, Unregistered, Causes
  <2>3. CASE ListQueries \/ RuntimeDone \/ Uninstall \/ Reconnect
    BY <2>3 DEF ListQueries, RuntimeDone, Uninstall, Reconnect, RegistryInv, Unregistered
  <2>4. QED
    BY <1>7, <2>1, <2>2, <2>3 DEF Orchestrator
<1>8. CASE UNCHANGED vars
  BY <1>8 DEF vars, RegistryInv, Unregistered
<1>9. QED
  BY <1>1, <1>2, <1>3, <1>4, <1>5, <1>6, <1>7, <1>8 DEF Next

-----------------------------------------------------------------------------
(* Which steps touch the replies of a Get.                                 *)

\* The goroutines of h and their channels are where they were; h may have been
\* cancelled or closed, and a reply to it may have come.
Kept(h) ==
    /\ opt'[h] = opt[h] /\ got'[h] = got[h] /\ out'[h] = out[h] /\ thold'[h] = thold[h]
    /\ dst'[h] = dst[h] /\ count'[h] = count[h] /\ bpc'[h] = bpc[h] /\ bhold'[h] = bhold[h]
    /\ tpc'[h] = tpc[h] /\ inCh'[h] = inCh[h]
    /\ (gpc'[h] = "returned") <=> (gpc[h] = "returned")
    /\ ChanClosed(h) => ChanClosed(h)'
    /\ ctxDone[h] => ctxDone'[h]
    /\ Delivered(h)' >= Delivered(h)
    /\ Counted(h)' => Counted(h) /\ Delivered(h)' = Delivered(h)

\* Closing collectors keeps what is on its way.
LEMMA FinaliseKeeps ==
    ASSUME GetsShape, RegistryInv, NEW h \in Calls, NEW gs, NEW why \in Causes,
           Finalise(gs, why),
           UNCHANGED <<opt, got, out, thold, budgetVars, tpc, inCh, holding, sent, overflow, ctxDone>>,
           (gpc'[h] = "returned") <=> (gpc[h] = "returned"),
           Unregistered(h)' => Unregistered(h)
    PROVE  Kept(h)
<1>1. Delivered(h)' = Delivered(h) /\ Delivered(h) \in Int
  BY DEF Delivered, GetsShape
<1>2. Counted(h)' => Counted(h)
  BY FinaliseOf DEF Counted
<1>3. ChanClosed(h) => ChanClosed(h)'
  BY FinaliseOf
<1>4. QED
  BY <1>1, <1>2, <1>3 DEF Kept, budgetVars

\* A step leaves the replies of h alone, or is one of the actions that move them.
LEMMA Lanes ==
    ASSUME GetsShape, RegistryInv, [Next]_vars, NEW h \in Calls
    PROVE  \/ Kept(h)
           \/ Register(h) \/ Spawn(h) \/ DeliverSend(h) \/ BudgetLimit(h)
           \/ Translator(h) \/ Consume(h)
<1> USE DEF linkVars, routerVars, regVars, readVars, callVars, budgetVars, transVars,
            CallUnchanged, ReadUnchanged, BudgetUnchanged, TransUnchanged, WatchUnchanged,
            LinkUnchanged
<1>1. Delivered(h) \in Int
  BY DEF Delivered, GetsShape
<1>2. ASSUME NEW g \in Calls, Get(g) \/ Lookup(g) \/ Send(g)
      PROVE  Kept(h)
  <2>1. /\ Unregistered(h)' => Unregistered(h)
        /\ (gpc'[h] = "returned") <=> (gpc[h] = "returned")
    BY <1>2 DEF Get, Lookup, Send, CallGoto, Unregistered, GetsShape
  <2>2. UNCHANGED <<opt, got, out, thold, bpc, bhold, count, dst, tpc, inCh, holding, sent, overflow,
                    ctxDone, reg, closes, endedBy>>
    BY <1>2 DEF Get, Lookup, Send
  <2>3. QED
    BY <1>1, <2>1, <2>2 DEF Kept, Delivered, Counted, ChanClosed
<1>3. ASSUME NEW g \in Calls, Register(g) \/ Spawn(g), g # h
      PROVE  Kept(h)
  <2>1. gpc'[h] = gpc[h] /\ bpc'[h] = bpc[h] /\ tpc'[h] = tpc[h]
    BY <1>3 DEF Register, Spawn, CallGoto, GetsShape
  <2>2. /\ UNCHANGED <<opt, got, out, thold, bhold, count, dst, inCh, holding, sent, overflow,
                       ctxDone, closes, endedBy>>
        /\ reg' = reg \/ reg' = reg \cup {g}
    BY <1>3 DEF Register, Spawn
  <2>3. QED
    BY <1>1, <1>3, <2>1, <2>2 DEF Kept, Delivered, Counted, ChanClosed, Unregistered
<1>4. ASSUME NEW g \in Calls, Fail(g) PROVE Kept(h)
  <2>1. /\ Unregistered(h)' => Unregistered(h)
        /\ (gpc'[h] = "returned") <=> (gpc[h] = "returned")
    BY <1>4 DEF Fail, CallGoto, Unregistered, GetsShape
  <2>2. QED
    BY <1>4, <2>1, FinaliseKeeps DEF Fail, Causes
<1>5. ASSUME NEW g \in Calls, CancelContext(g) PROVE Kept(h)
  <2>1. ctxDone[h] => ctxDone'[h]
    BY <1>5 DEF CancelContext, GetsShape
  <2>2. QED
    BY <1>1, <1>5, <2>1 DEF CancelContext, Kept, Delivered, Counted, ChanClosed, Unregistered
<1>6. ASSUME NEW g \in Calls, DeliverLookup(g) PROVE Kept(h)
  <2>1. UNCHANGED <<opt, got, out, thold, bpc, bhold, count, dst, tpc, inCh, overflow, gpc,
                    ctxDone, reg, closes, endedBy>>
    BY <1>6 DEF DeliverLookup
  <2>2. Counted(h)' <=> Counted(h)
    BY <2>1 DEF Counted, Unregistered
  <2>3. CASE g # h
    <3>1. Delivered(h)' = Delivered(h)
      BY <1>6, <2>3 DEF DeliverLookup, Delivered, GetsShape
    <3>2. QED
      BY <1>1, <2>1, <2>2, <3>1 DEF Kept, ChanClosed
  <2>4. CASE g = h
    <3>1. CASE h \in reg
      <4>1. Delivered(h)' = Delivered(h)
        BY <1>6, <2>4, <3>1 DEF DeliverLookup, Delivered, GetsShape
      <4>2. QED
        BY <1>1, <2>1, <2>2, <4>1 DEF Kept, ChanClosed
    <3>2. CASE h \notin reg
      <4>1. ~Counted(h)
        BY <1>6, <2>4, <3>2 DEF DeliverLookup, Answering, Counted, Unregistered, RegistryInv
      <4>2. Delivered(h)' = Delivered(h) + 1
        BY <1>6, <2>4, <3>2 DEF DeliverLookup, Delivered, GetsShape
      <4>3. QED
        BY <1>1, <2>1, <2>2, <4>1, <4>2 DEF Kept, ChanClosed
    <3>3. QED
      BY <3>1, <3>2
  <2>5. QED
    BY <2>3, <2>4
<1>7. ASSUME NEW g \in Calls, DeliverSend(g), g # h PROVE Kept(h)
  <2>1. h \notin holding /\ h \notin holding'
    BY <1>7 DEF DeliverSend, RegistryInv
  <2>2. inCh'[h] = inCh[h] /\ (h \in overflow' <=> h \in overflow)
    BY <1>7 DEF DeliverSend, GetsShape
  <2>3. QED
    BY <1>1, <1>7, <2>1, <2>2 DEF DeliverSend, Kept, Delivered, Counted, ChanClosed, Unregistered
<1>8. ASSUME NEW g \in Calls, ReceiveFinal(g) PROVE Kept(h)
  BY <1>8, FinaliseKeeps DEF ReceiveFinal, Causes, Unregistered
<1>9. ASSUME NEW g \in Calls, Watcher(g) PROVE Kept(h)
  <2>1. CASE WatchCancels(g)
    BY <2>1, FinaliseKeeps DEF WatchCancels, Causes, Unregistered
  <2>2. CASE WatchExited(g)
    BY <1>1, <2>2 DEF WatchExited, Kept, Delivered, Counted, ChanClosed, Unregistered
  <2>3. QED
    BY <1>9, <2>1, <2>2 DEF Watcher
<1>10. ASSUME NEW g \in Calls, BudgetLimit(g) \/ Translator(g) \/ Consume(g), g # h PROVE Kept(h)
  <2>1. /\ got'[h] = got[h] /\ out'[h] = out[h] /\ thold'[h] = thold[h]
        /\ dst'[h] = dst[h] /\ count'[h] = count[h] /\ bpc'[h] = bpc[h] /\ bhold'[h] = bhold[h]
        /\ tpc'[h] = tpc[h] /\ inCh'[h] = inCh[h]
    <3>1. CASE BudgetLimit(g)
      BY <1>10, <3>1 DEF BudgetLimit, BudgetReceive, BudgetSend, BudgetGoto, GetsShape
    <3>2. CASE Translator(g)
      <4>1. CASE TransReceive(g)
        BY <1>10, <4>1 DEF TransReceive, TransGoto, TakeSource, GetsShape
      <4>2. CASE TransEmit(g)
        BY <1>10, <4>2 DEF TransEmit, TransGoto, GetsShape
      <4>3. CASE TransClosed(g) \/ TransNothingToFlush(g) \/ TransCancelled(g)
        BY <1>10, <4>3 DEF TransClosed, TransNothingToFlush, TransCancelled, TransGoto, GetsShape
      <4>4. QED
        BY <3>2, <4>1, <4>2, <4>3 DEF Translator
    <3>3. CASE Consume(g)
      BY <1>10, <3>3 DEF Consume, GetsShape
    <3>4. QED
      BY <1>10, <3>1, <3>2, <3>3
  <2>2. UNCHANGED <<opt, gpc, holding, sent, overflow, ctxDone, reg, closes, endedBy>>
    BY <1>10 DEF BudgetLimit, BudgetReceive, BudgetSend, Translator, TransReceive, TransEmit, TransClosed,
                 TransNothingToFlush, TransCancelled, Consume
  <2>3. QED
    BY <1>1, <2>1, <2>2 DEF Kept, Delivered, Counted, ChanClosed, Unregistered
<1>11. CASE LinkLost \/ CloseSession \/ UNCHANGED vars
  BY <1>1, <1>11 DEF LinkLost, CloseSession, vars, Kept, Delivered, Counted, ChanClosed, Unregistered
<1>12. CASE Orchestrator
  <2>1. CASE CancelAllGets
    BY <2>1, FinaliseKeeps DEF CancelAllGets, Causes, Unregistered
  <2>2. ASSUME NEW g \in Calls, CancelQuery(g) PROVE Kept(h)
    BY <2>2, FinaliseKeeps DEF CancelQuery, Causes, Unregistered
  <2>3. CASE ListQueries \/ RuntimeDone \/ Uninstall \/ Reconnect
    BY <1>1, <2>3 DEF ListQueries, RuntimeDone, Uninstall, Reconnect,
                      Kept, Delivered, Counted, ChanClosed, Unregistered
  <2>4. QED
    BY <1>12, <2>1, <2>2, <2>3 DEF Orchestrator
<1>13. QED
  BY <1>2, <1>3, <1>4, <1>5, <1>6, <1>7, <1>8, <1>9, <1>10, <1>11, <1>12 DEF Next, Call, Reader

-----------------------------------------------------------------------------
(* The order and the number of the replies.                                *)

\* What a step can do to the replies of h that are on their way.
ChainMoves(h) ==
    \/ /\ Chain(h)' = Chain(h) /\ Delivered(h)' >= Delivered(h)
       /\ Counted(h)' => Counted(h) /\ Delivered(h)' = Delivered(h)
    \/ /\ Chain(h)' = Append(Chain(h), sent[h])
       /\ Delivered(h) = sent[h] - 1 /\ Delivered(h)' = sent[h]
       /\ Counted(h)' => Counted(h)
    \/ \E a, b \in Seq(Nat), x \in Nat :
           /\ Chain(h) = a \o (<<x>> \o b) /\ Chain(h)' = a \o b
           /\ Delivered(h)' = Delivered(h) /\ ~Counted(h)'

\* The parts of a chain are sequences of replies.
LEMMA ChainShape ==
    ASSUME GetsShape, NEW h \in Calls
    PROVE  /\ got[h] \in Seq(Nat) /\ out[h] \in Seq(Nat) /\ thold[h] \in Seq(Nat)
           /\ dst[h] \in Seq(Nat) /\ Held(h) \in Seq(Nat) /\ inCh[h] \in Seq(Nat)
           /\ Held(h) \o inCh[h] \in Seq(Nat)
           /\ dst[h] \o (Held(h) \o inCh[h]) \in Seq(Nat)
           /\ thold[h] \o (dst[h] \o (Held(h) \o inCh[h])) \in Seq(Nat)
           /\ out[h] \o (thold[h] \o (dst[h] \o (Held(h) \o inCh[h]))) \in Seq(Nat)
           /\ Chain(h) \in Seq(Nat)
<1>1. /\ got[h] \in Seq(Nat) /\ out[h] \in Seq(Nat) /\ thold[h] \in Seq(Nat)
      /\ dst[h] \in Seq(Nat) /\ Held(h) \in Seq(Nat) /\ inCh[h] \in Seq(Nat)
  BY DEF GetsShape, Held
<1>2. Held(h) \o inCh[h] \in Seq(Nat)
  BY <1>1, ConcatProperties
<1>3. dst[h] \o (Held(h) \o inCh[h]) \in Seq(Nat)
  BY <1>1, <1>2, ConcatProperties
<1>4. thold[h] \o (dst[h] \o (Held(h) \o inCh[h])) \in Seq(Nat)
  BY <1>1, <1>3, ConcatProperties
<1>5. out[h] \o (thold[h] \o (dst[h] \o (Held(h) \o inCh[h]))) \in Seq(Nat)
  BY <1>1, <1>4, ConcatProperties
<1>6. Chain(h) \in Seq(Nat)
  BY <1>1, <1>5, ConcatProperties DEF Chain
<1>7. QED
  BY <1>1, <1>2, <1>3, <1>4, <1>5, <1>6

\* What has passed budgetLimit, and the rest.
LEMMA ChainSplit ==
    ASSUME GetsShape, NEW h \in Calls, NEW r \in Seq(Nat)
    PROVE  /\ got[h] \o (out[h] \o (thold[h] \o dst[h])) \in Seq(Nat)
           /\ got[h] \o (out[h] \o (thold[h] \o (dst[h] \o r)))
                  = (got[h] \o (out[h] \o (thold[h] \o dst[h]))) \o r
<1>1. thold[h] \in Seq(Nat) /\ dst[h] \in Seq(Nat)
  BY DEF GetsShape
<1>2. thold[h] \o (dst[h] \o r) = (thold[h] \o dst[h]) \o r
  BY <1>1, ConcatAssoc
<1>3. thold[h] \o dst[h] \in Seq(Nat) /\ out[h] \in Seq(Nat)
  BY <1>1, ConcatProperties DEF GetsShape
<1>4. out[h] \o ((thold[h] \o dst[h]) \o r) = (out[h] \o (thold[h] \o dst[h])) \o r
  BY <1>3, ConcatAssoc
<1>5. out[h] \o (thold[h] \o dst[h]) \in Seq(Nat) /\ got[h] \in Seq(Nat)
  BY <1>3, ConcatProperties DEF GetsShape
<1>6. got[h] \o ((out[h] \o (thold[h] \o dst[h])) \o r)
          = (got[h] \o (out[h] \o (thold[h] \o dst[h]))) \o r
  BY <1>5, ConcatAssoc
<1>7. got[h] \o (out[h] \o (thold[h] \o dst[h])) \in Seq(Nat)
  BY <1>5, ConcatProperties
<1>8. QED
  BY <1>2, <1>4, <1>6, <1>7

\* Every step keeps the replies in their order, adds the newest at the end, or
\* drops the one budgetLimit held when the context was cancelled.
LEMMA ChainStep ==
    ASSUME GetsShape, RegistryInv, [Next]_vars, NEW h \in Calls, PipelineOf(h)
    PROVE  ChainMoves(h)
<1> USE DEF linkVars, routerVars, regVars, readVars, callVars, budgetVars, transVars,
            CallUnchanged, ReadUnchanged, BudgetUnchanged, TransUnchanged
<1>0. /\ got[h] \in Seq(Nat) /\ out[h] \in Seq(Nat) /\ thold[h] \in Seq(Nat)
      /\ dst[h] \in Seq(Nat) /\ inCh[h] \in Seq(Nat)
  BY ChainShape
<1>1. Delivered(h) \in Int
  BY DEF Delivered, GetsShape
<1>2. CASE Kept(h)
  <2>1. Chain(h)' = Chain(h)
    BY <1>2 DEF Kept, Chain, Held
  <2>2. QED
    BY <1>2, <2>1 DEF Kept, ChainMoves
<1>3. CASE Register(h) \/ Spawn(h)
  <2>1. /\ UNCHANGED <<got, out, thold, dst, inCh, bhold, holding, sent, overflow, ctxDone, endedBy>>
        /\ (bpc'[h] = "send") <=> (bpc[h] = "send")
    BY <1>3 DEF Register, Spawn, CallGoto, RegistryInv, Unregistered, GetsShape
  <2>2. Chain(h)' = Chain(h) /\ Delivered(h)' = Delivered(h)
    BY <2>1 DEF Chain, Held, Delivered
  <2>3. h \in reg \/ Unregistered(h) \/ (h \notin reg' /\ ~Unregistered(h)')
    BY <1>3 DEF Register, Spawn, CallGoto, Unregistered, GetsShape
  <2>4. QED
    BY <1>1, <2>1, <2>2, <2>3 DEF ChainMoves, Counted
<1>4. CASE DeliverSend(h)
  <2>1. /\ UNCHANGED <<got, out, thold, dst, bpc, bhold, sent, reg, endedBy, gpc, ctxDone>>
        /\ h \in holding /\ h \notin holding'
    BY <1>4 DEF DeliverSend
  <2>2. Delivered(h) = sent[h] - 1 /\ Delivered(h)' = sent[h] /\ sent[h] \in Nat
    BY <2>1 DEF Delivered, GetsShape
  <2>3. CASE Len(inCh[h]) < Buffer
    <3>1. inCh'[h] = Append(inCh[h], sent[h]) /\ overflow' = overflow
      BY <1>4, <2>3 DEF DeliverSend, GetsShape
    <3>2. /\ Held(h) \o Append(inCh[h], sent[h]) = Append(Held(h) \o inCh[h], sent[h])
          /\ Append(Held(h) \o inCh[h], sent[h]) \in Seq(Nat)
      BY <2>2, ChainShape, ConcatAppend, AppendProperties, SMTT(40)
    <3>3. /\ Chain(h)' = got[h] \o (out[h] \o (thold[h] \o (dst[h] \o
                             (Append(Held(h) \o inCh[h], sent[h])))))
      BY <2>1, <3>1, <3>2 DEF Chain, Held
    <3>4. Chain(h)' = Append(Chain(h), sent[h])
      <4>1. dst[h] \o Append(Held(h) \o inCh[h], sent[h])
                = Append(dst[h] \o (Held(h) \o inCh[h]), sent[h])
        BY <2>2, ChainShape, ConcatAppend
      <4>2. thold[h] \o Append(dst[h] \o (Held(h) \o inCh[h]), sent[h])
                = Append(thold[h] \o (dst[h] \o (Held(h) \o inCh[h])), sent[h])
        BY <2>2, ChainShape, ConcatAppend
      <4>3. out[h] \o Append(thold[h] \o (dst[h] \o (Held(h) \o inCh[h])), sent[h])
                = Append(out[h] \o (thold[h] \o (dst[h] \o (Held(h) \o inCh[h]))), sent[h])
        BY <2>2, ChainShape, ConcatAppend
      <4>4. got[h] \o Append(out[h] \o (thold[h] \o (dst[h] \o (Held(h) \o inCh[h]))), sent[h])
                = Append(Chain(h), sent[h])
        BY <2>2, ChainShape, ConcatAppend DEF Chain
      <4>5. QED
        BY <3>3, <4>1, <4>2, <4>3, <4>4
    <3>5. Counted(h)' => Counted(h)
      BY <2>1, <3>1 DEF Counted, Unregistered
    <3>6. QED
      BY <2>2, <3>4, <3>5 DEF ChainMoves
  <2>4. CASE ~(Len(inCh[h]) < Buffer)
    <3>1. inCh' = inCh /\ h \in overflow'
      BY <1>4, <2>4 DEF DeliverSend
    <3>2. Chain(h)' = Chain(h) /\ ~Counted(h)'
      BY <2>1, <3>1 DEF Chain, Held, Counted
    <3>3. QED
      BY <2>2, <3>2 DEF ChainMoves
  <2>5. QED
    BY <2>3, <2>4
<1>5. ASSUME UNCHANGED <<holding, sent, reg, endedBy, gpc, ctxDone, overflow>>, Chain(h)' = Chain(h)
      PROVE  ChainMoves(h)
  BY <1>1, <1>5 DEF ChainMoves, Counted, Delivered, Unregistered
<1>6. CASE BudgetReceive(h)
  <2>1. UNCHANGED <<got, out, thold, dst, holding, sent, reg, endedBy, gpc, ctxDone, overflow>>
    BY <1>6 DEF BudgetReceive
  <2>2. CASE BudgetGoto(h, "recv", "send")
    <3>1. /\ inCh[h] # <<>> /\ bhold'[h] = Head(inCh[h]) /\ inCh'[h] = Tail(inCh[h])
          /\ bpc[h] = "recv" /\ bpc'[h] = "send"
      BY <1>6, <2>2 DEF BudgetReceive, BudgetGoto, GetsShape
    <3>2. Held(h) = <<>> /\ Held(h)' = <<Head(inCh[h])>>
      BY <3>1 DEF Held
    <3>3. <<Head(inCh[h])>> = Append(<<>>, Head(inCh[h])) /\ <<>> \in Seq(Nat)
      BY ChainShape, <3>1, HeadTailProperties
    <3>4. Held(h)' \o inCh'[h] = Held(h) \o inCh[h]
      BY <3>1, <3>2, <3>3, ChainShape, Pass
    <3>5. QED
      BY <1>5, <2>1, <3>4 DEF Chain
  <2>3. CASE BudgetGoto(h, "recv", "exited")
    <3>1. bpc[h] = "recv" /\ bpc'[h] = "exited" /\ inCh' = inCh
      BY <1>6, <2>3 DEF BudgetReceive, BudgetGoto, GetsShape
    <3>2. QED
      BY <1>5, <2>1, <3>1 DEF Chain, Held
  <2>4. QED
    BY <1>6, <2>2, <2>3 DEF BudgetReceive
<1>7. CASE BudgetSend(h)
  <2>1. /\ UNCHANGED <<got, out, thold, inCh, holding, sent, reg, endedBy, gpc, ctxDone, overflow>>
        /\ bpc[h] = "send" /\ bpc'[h] # "send" /\ bhold[h] \in Nat
    BY <1>7 DEF BudgetSend, BudgetGoto, GetsShape
  <2>2. Held(h) = <<bhold[h]>> /\ Held(h)' = <<>>
    BY <2>1 DEF Held
  <2>3. <<>> \o inCh[h] = inCh[h]
    BY ChainShape, ConcatEmptySeq
  <2>4. CASE ctxDone[h] /\ dst' = dst
    <3>1. ctxDone[h]
      BY <2>4
    <3>2. ~Counted(h)' /\ Delivered(h)' = Delivered(h)
      BY <2>1, <3>1 DEF Counted, Delivered
    <3>3. /\ Chain(h)' = got[h] \o (out[h] \o (thold[h] \o (dst[h] \o inCh[h])))
          /\ Chain(h) = got[h] \o (out[h] \o (thold[h] \o (dst[h] \o (<<bhold[h]>> \o inCh[h]))))
      BY <2>1, <2>2, <2>3, <2>4 DEF Chain
    <3>4. /\ got[h] \o (out[h] \o (thold[h] \o dst[h])) \in Seq(Nat)
          /\ Chain(h)' = (got[h] \o (out[h] \o (thold[h] \o dst[h]))) \o inCh[h]
          /\ Chain(h) = (got[h] \o (out[h] \o (thold[h] \o dst[h]))) \o (<<bhold[h]>> \o inCh[h])
      <4>1. PICK r \in Seq(Nat) : r = <<bhold[h]>> \o inCh[h]
        BY <2>2, ChainShape
      <4>2. QED
        BY <1>0, <3>3, <4>1, ChainSplit
    <3>5. QED
      BY <2>1, <3>2, <3>4, ChainShape DEF ChainMoves
  <2>5. CASE dst' = [dst EXCEPT ![h] = Append(@, bhold[h])]
    <3>1. dst'[h] = Append(dst[h], bhold[h])
      BY <2>5 DEF GetsShape
    <3>2. PICK c \in Seq(Nat) :
              c = <<bhold[h]>> /\ c # <<>> /\ Head(c) = bhold[h] /\ Tail(c) = <<>>
      <4>1. <<bhold[h]>> \in Seq(Nat) /\ <<bhold[h]>> # <<>>
        BY <2>1
      <4>2. Head(<<bhold[h]>>) = bhold[h] /\ Tail(<<bhold[h]>>) = <<>>
        BY <2>1
      <4>3. QED
        BY <4>1, <4>2
    <3>3. Append(dst[h], bhold[h]) \o (<<>> \o inCh[h]) = dst[h] \o (<<bhold[h]>> \o inCh[h])
      <4>1. Append(dst[h], Head(c)) \o (Tail(c) \o inCh[h]) = dst[h] \o (c \o inCh[h])
        BY <3>2, <1>0, PassWithin, ZenonT(40)
      <4>2. QED
        BY <3>2, <4>1
    <3>4. Chain(h)' = Chain(h)
      BY <2>1, <2>2, <3>1, <3>3 DEF Chain
    <3>5. QED
      BY <1>5, <2>1, <3>4
  <2>6. QED
    BY <1>7, <2>4, <2>5 DEF BudgetSend
<1>8. CASE Consume(h)
  <2>1. /\ out[h] # <<>> /\ got'[h] = Append(got[h], Head(out[h])) /\ out'[h] = Tail(out[h])
        /\ UNCHANGED <<thold, dst, bpc, bhold, inCh, holding, sent, reg, endedBy, gpc, ctxDone, overflow>>
    BY <1>8 DEF Consume, GetsShape
  <2>2. Chain(h)' = Chain(h)
    <3>1. PICK r \in Seq(Nat) : r = thold[h] \o (dst[h] \o (Held(h) \o inCh[h]))
      BY ChainShape
    <3>2. Append(got[h], Head(out[h])) \o (Tail(out[h]) \o r) = got[h] \o (out[h] \o r)
      BY <2>1, <1>0, PassWithin, ZenonT(40)
    <3>3. QED
      BY <2>1, <3>1, <3>2 DEF Chain, Held
  <2>3. QED
    BY <1>5, <2>1, <2>2
<1>9. CASE Translator(h)
  <2>1. UNCHANGED <<got, bpc, bhold, holding, sent, reg, endedBy, gpc, ctxDone, overflow>>
    BY <1>9 DEF Translator, TransReceive, TransEmit, TransClosed, TransNothingToFlush, TransCancelled
  <2>2. CASE TransReceive(h)
    <3>1. CASE opt[h].budget > 0
      <4>1. /\ dst[h] # <<>> /\ thold'[h] = Append(thold[h], Head(dst[h])) /\ dst'[h] = Tail(dst[h])
            /\ UNCHANGED <<out, inCh>>
        BY <2>2, <3>1 DEF TransReceive, Source, TakeSource, GetsShape
      <4>2. Append(thold[h], Head(dst[h])) \o (Tail(dst[h]) \o (Held(h) \o inCh[h]))
                = thold[h] \o (dst[h] \o (Held(h) \o inCh[h]))
        <5>1. PICK r \in Seq(Nat) : r = Held(h) \o inCh[h]
          BY ChainShape
        <5>2. Append(thold[h], Head(dst[h])) \o (Tail(dst[h]) \o r) = thold[h] \o (dst[h] \o r)
          BY <4>1, <1>0, PassWithin, ZenonT(40)
        <5>3. QED
          BY <5>1, <5>2
      <4>3. Chain(h)' = Chain(h)
        BY <2>1, <4>1, <4>2 DEF Chain, Held
      <4>4. QED
        BY <1>5, <2>1, <4>3
    <3>2. CASE ~(opt[h].budget > 0)
      <4>1. /\ inCh[h] # <<>> /\ thold'[h] = Append(thold[h], Head(inCh[h])) /\ inCh'[h] = Tail(inCh[h])
            /\ UNCHANGED <<out, dst>>
        BY <2>2, <3>2 DEF TransReceive, Source, TakeSource, GetsShape
      <4>2. opt[h].budget = 0
        BY <3>2 DEF GetsShape, CallOptions
      <4>3. dst[h] = <<>> /\ Held(h) = <<>> /\ Held(h)' = <<>>
        BY <2>1, <4>2 DEF PipelineOf, Held
      <4>4. Tail(inCh[h]) \in Seq(Nat)
        BY <4>1, ChainShape, HeadTailProperties
      <4>5. /\ <<>> \o (<<>> \o inCh[h]) = inCh[h]
            /\ <<>> \o (<<>> \o Tail(inCh[h])) = Tail(inCh[h])
        BY <4>4, ChainShape, ConcatEmptySeq
      <4>6. Append(thold[h], Head(inCh[h])) \o Tail(inCh[h]) = thold[h] \o inCh[h]
        BY <4>1, ChainShape, Pass
      <4>7. Chain(h)' = Chain(h)
        BY <2>1, <4>1, <4>3, <4>5, <4>6 DEF Chain
      <4>8. QED
        BY <1>5, <2>1, <4>7
    <3>3. QED
      BY <3>1, <3>2
  <2>3. CASE TransEmit(h)
    <3>1. /\ thold[h] # <<>> /\ out'[h] = Append(out[h], Head(thold[h])) /\ thold'[h] = Tail(thold[h])
          /\ UNCHANGED <<inCh, dst>>
      BY <2>3 DEF TransEmit, GetsShape
    <3>2. Append(out[h], Head(thold[h])) \o (Tail(thold[h]) \o (dst[h] \o (Held(h) \o inCh[h])))
              = out[h] \o (thold[h] \o (dst[h] \o (Held(h) \o inCh[h])))
      <4>1. PICK r \in Seq(Nat) : r = dst[h] \o (Held(h) \o inCh[h])
        BY ChainShape
      <4>2. Append(out[h], Head(thold[h])) \o (Tail(thold[h]) \o r) = out[h] \o (thold[h] \o r)
        BY <3>1, <1>0, PassWithin, ZenonT(40)
      <4>3. QED
        BY <4>1, <4>2
    <3>3. Chain(h)' = Chain(h)
      BY <2>1, <3>1, <3>2 DEF Chain, Held
    <3>4. QED
      BY <1>5, <2>1, <3>3
  <2>4. CASE TransClosed(h) \/ TransNothingToFlush(h) \/ TransCancelled(h)
    <3>1. UNCHANGED <<thold, inCh, dst, out>>
      BY <2>4 DEF TransClosed, TransNothingToFlush, TransCancelled
    <3>2. QED
      BY <1>5, <2>1, <3>1 DEF Chain, Held
  <2>5. QED
    BY <1>9, <2>2, <2>3, <2>4 DEF Translator
<1>10. QED
  BY <1>2, <1>3, <1>4, <1>6, <1>7, <1>8, <1>9, Lanes DEF BudgetLimit

\* Every step keeps the replies of h in the router's order.
LEMMA OrderStep ==
    ASSUME GetsShape, RegistryInv, [Next]_vars, NEW h \in Calls, PipelineOf(h), OrderOf(h)
    PROVE  OrderOf(h)'
<1>1. Chain(h) \in Seq(Nat) /\ Delivered(h) \in Int /\ sent[h] \in Nat
  <2>1. Chain(h) \in Seq(Nat)
    BY ChainShape
  <2>2. sent[h] \in Nat
    BY DEF GetsShape
  <2>3. QED
    BY <2>1, <2>2 DEF Delivered
<1>2. Delivered(h)' \in Int
  BY ShapeStep, SMTT(40) DEF Delivered, GetsShape
<1>3. CASE Chain(h)' = Chain(h) /\ Delivered(h)' >= Delivered(h)
  <2>1. \A i \in 1 .. Len(Chain(h)) : Chain(h)[i] \in Nat
    BY <1>1, ElementOfSeq
  <2>2. QED
    BY <1>1, <1>2, <1>3, <2>1 DEF OrderOf, Ordered
<1>4. CASE /\ Chain(h)' = Append(Chain(h), sent[h])
           /\ Delivered(h) = sent[h] - 1 /\ Delivered(h)' = sent[h]
  <2>1. Delivered(h) < sent[h]
    BY <1>1, <1>4
  <2>2. Ordered(Append(Chain(h), sent[h]), sent[h])
    BY <1>1, <2>1, OrderedAppend DEF OrderOf
  <2>3. QED
    BY <1>4, <2>2 DEF OrderOf
<1>5. ASSUME NEW a \in Seq(Nat), NEW b \in Seq(Nat), NEW x \in Nat,
             Chain(h) = a \o (<<x>> \o b), Chain(h)' = a \o b, Delivered(h)' = Delivered(h)
      PROVE  OrderOf(h)'
  BY <1>1, <1>5, OrderedDrop DEF OrderOf
<1>6. QED
  BY <1>3, <1>4, <1>5, ChainStep DEF ChainMoves

\* Every step keeps the count of the replies of h.
LEMMA CountStep ==
    ASSUME GetsShape, RegistryInv, [Next]_vars, NEW h \in Calls, PipelineOf(h), CountOf(h)
    PROVE  CountOf(h)'
<1>1. Chain(h) \in Seq(Nat) /\ sent[h] \in Nat
  BY ChainShape DEF GetsShape
<1>2. Len(Append(Chain(h), sent[h])) = Len(Chain(h)) + 1 /\ Len(Chain(h)) \in Nat
  BY <1>1, AppendProperties, LenProperties
<1>3. CASE /\ Chain(h)' = Append(Chain(h), sent[h])
           /\ Delivered(h) = sent[h] - 1 /\ Delivered(h)' = sent[h]
           /\ Counted(h)' => Counted(h)
  BY <1>1, <1>2, <1>3 DEF CountOf
<1>4. QED
  BY <1>3, ChainStep DEF ChainMoves, CountOf

-----------------------------------------------------------------------------
(* budgetLimit and the translator.                                         *)

\* Every step keeps what the places of the goroutines say of their channels.
LEMMA PipelineStep ==
    ASSUME GetsShape, RegistryInv, [Next]_vars, NEW h \in Calls, PipelineOf(h)
    PROVE  PipelineOf(h)'
<1> USE DEF linkVars, routerVars, regVars, readVars, callVars, budgetVars, transVars,
            CallUnchanged, ReadUnchanged, BudgetUnchanged, TransUnchanged
<1>1. /\ Len(got[h]) \in Nat /\ Len(out[h]) \in Nat /\ Len(thold[h]) \in Nat
      /\ Len(dst[h]) \in Nat /\ Len(inCh[h]) \in Nat
      /\ count[h] \in Nat /\ opt[h].budget \in Nat /\ opt[h].stream \in BOOLEAN
  BY LenProperties DEF GetsShape, CallOptions
<1>0. /\ got \in [Calls -> Seq(Nat)] /\ out \in [Calls -> Seq(Nat)]
      /\ thold \in [Calls -> Seq(Nat)] /\ dst \in [Calls -> Seq(Nat)]
      /\ count \in [Calls -> Nat]
  BY DEF GetsShape
<1>0a. /\ got' \in [Calls -> Seq(Nat)] /\ out' \in [Calls -> Seq(Nat)]
       /\ thold' \in [Calls -> Seq(Nat)] /\ dst' \in [Calls -> Seq(Nat)]
       /\ count' \in [Calls -> Nat]
  BY ShapeStep DEF GetsShape
<1>2. CASE Kept(h)
  BY <1>1, <1>2 DEF Kept, PipelineOf, SourceOver, Source, SourceClosed
<1>3. CASE Register(h)
  <2>1. /\ UNCHANGED <<opt, got, out, thold, dst, count, tpc, inCh, closes, ctxDone>>
        /\ gpc[h] = "register" /\ gpc'[h] = "lookup"
        /\ bpc'[h] = IF opt[h].budget > 0 THEN "recv" ELSE "none"
    BY <1>3 DEF Register, CallGoto, GetsShape
  <2>2. count[h] = 0
    BY <2>1 DEF RegistryInv, Unregistered
  <2>3. tpc[h] = "none"
    BY <2>1 DEF PipelineOf
  <2>4. opt[h].budget > 0 => count[h] = Len(got[h]) + Len(out[h]) + Len(thold[h]) + Len(dst[h])
    BY DEF PipelineOf
  <2>5. /\ opt[h].budget > 0 => bpc'[h] = "recv" /\ count[h] < opt[h].budget
        /\ opt[h].budget = 0 => bpc'[h] = "none" /\ dst[h] = <<>>
    BY <1>1, <2>1, <2>2 DEF PipelineOf
  <2>6. gpc[h] # "returned" => thold[h] = <<>>
    BY DEF PipelineOf
  <2>7. QED
    BY <1>1, <2>1, <2>2, <2>3, <2>4, <2>5, <2>6 DEF PipelineOf
<1>4. CASE Spawn(h)
  <2>1. /\ UNCHANGED <<opt, got, out, thold, dst, count, bpc, inCh, closes, ctxDone>>
        /\ gpc[h] = "spawn" /\ gpc'[h] = "returned" /\ tpc'[h] = "recv"
    BY <1>4 DEF Spawn, CallGoto, GetsShape
  <2>2. QED
    BY <1>1, <2>1 DEF PipelineOf, ChanClosed
<1>5. CASE DeliverSend(h)
  <2>1. ~ChanClosed(h)
    BY <1>5 DEF DeliverSend, RegistryInv, ChanClosed
  <2>2. UNCHANGED <<opt, got, out, thold, dst, count, bpc, tpc, gpc, closes, ctxDone>>
    BY <1>5 DEF DeliverSend
  <2>3. QED
    BY <1>1, <2>1, <2>2 DEF PipelineOf, SourceOver, Source, SourceClosed, ChanClosed
<1>6. CASE BudgetReceive(h)
  <2>1. UNCHANGED <<opt, got, out, thold, dst, count, tpc, gpc, closes, ctxDone>> /\ bpc[h] = "recv"
    BY <1>6 DEF BudgetReceive, BudgetGoto
  <2>2. \/ bpc'[h] = "send"
        \/ /\ bpc'[h] = "exited" /\ inCh' = inCh
           /\ (inCh[h] = <<>> /\ ChanClosed(h)) \/ ctxDone[h]
    BY <1>6 DEF BudgetReceive, BudgetGoto, GetsShape
  <2>3. opt[h].budget > 0
    BY <1>1, <2>1 DEF PipelineOf
  <2>4. QED
    BY <1>1, <2>1, <2>2, <2>3 DEF PipelineOf, SourceOver, Source, SourceClosed, ChanClosed
<1>7. CASE BudgetSend(h)
  <2>1. UNCHANGED <<opt, got, out, thold, inCh, tpc, gpc, closes, ctxDone>> /\ bpc[h] = "send"
    BY <1>7 DEF BudgetSend, BudgetGoto
  <2>2. opt[h].budget > 0
    BY <1>1, <2>1 DEF PipelineOf
  <2>3. CASE ctxDone[h] /\ BudgetGoto(h, "send", "exited") /\ UNCHANGED <<count, dst>>
    <3>1. bpc'[h] = "exited"
      BY <2>3 DEF BudgetGoto, GetsShape
    <3>2. QED
      BY <1>1, <2>1, <2>2, <2>3, <3>1 DEF PipelineOf, SourceOver, Source, SourceClosed
  <2>4. CASE /\ dst' = [dst EXCEPT ![h] = Append(@, bhold[h])]
             /\ count' = [count EXCEPT ![h] = @ + 1]
             /\ BudgetGoto(h, "send", IF count[h] + 1 < opt[h].budget THEN "recv" ELSE "exited")
    <3>1. /\ count'[h] = count[h] + 1
          /\ bpc'[h] = IF count[h] + 1 < opt[h].budget THEN "recv" ELSE "exited"
      BY <2>4 DEF BudgetGoto, GetsShape
    <3>2. Len(dst'[h]) = Len(dst[h]) + 1
      BY <2>4, AppendProperties DEF GetsShape
    <3>3. count[h] < opt[h].budget
      BY <2>1, <2>2 DEF PipelineOf
    <3>4. /\ count'[h] = Len(got[h]) + Len(out[h]) + Len(thold[h]) + Len(dst'[h])
          /\ count'[h] <= opt[h].budget
          /\ bpc'[h] \in {"recv", "send"} => count'[h] < opt[h].budget
          /\ bpc'[h] = "exited" => count'[h] = opt[h].budget
      <4>1. count[h] = Len(got[h]) + Len(out[h]) + Len(thold[h]) + Len(dst[h])
        BY <2>2 DEF PipelineOf
      <4>2. QED
        BY <1>0, <1>0a, <1>1, <3>1, <3>2, <3>3, <4>1, SMTT(40)
    <3>5. ~SourceOver(h)
      BY <2>1, <2>2 DEF SourceOver, SourceClosed
    <3>6. QED
      BY <1>1, <2>1, <2>2, <3>1, <3>4, <3>5 DEF PipelineOf
  <2>5. QED
    BY <1>7, <2>3, <2>4 DEF BudgetSend
<1>8. CASE Consume(h)
  <2>1. /\ UNCHANGED <<opt, thold, dst, count, bpc, tpc, inCh, gpc, closes, ctxDone>>
        /\ out[h] # <<>> /\ got'[h] = Append(got[h], Head(out[h])) /\ out'[h] = Tail(out[h])
    BY <1>8 DEF Consume, GetsShape
  <2>2. Len(got'[h]) = Len(got[h]) + 1 /\ Len(out'[h]) = Len(out[h]) - 1
    BY <2>1, AppendProperties, HeadTailProperties DEF GetsShape
  <2>3. opt[h].budget > 0 =>
            count[h] = Len(got'[h]) + Len(out'[h]) + Len(thold[h]) + Len(dst[h])
    <3>1. opt[h].budget > 0 => count[h] = Len(got[h]) + Len(out[h]) + Len(thold[h]) + Len(dst[h])
      BY DEF PipelineOf
    <3>2. QED
      BY <1>0, <1>0a, <2>2, <3>1
  <2>4. SourceOver(h)' <=> SourceOver(h)
    BY <2>1 DEF SourceOver, Source, SourceClosed, ChanClosed
  <2>5. QED
    BY <2>1, <2>3, <2>4 DEF PipelineOf, ChanClosed
<1>9. CASE TransReceive(h)
  <2>1. /\ UNCHANGED <<opt, got, out, count, bpc, gpc, closes, ctxDone>>
        /\ tpc[h] = "recv" /\ tpc'[h] = IF opt[h].stream THEN "emit" ELSE "recv"
        /\ Source(h) # <<>> /\ thold'[h] = Append(thold[h], Head(Source(h)))
    BY <1>9 DEF TransReceive, TransGoto, GetsShape
  <2>2. Source(h) \in Seq(Nat) /\ thold[h] \in Seq(Nat)
    BY DEF GetsShape, Source
  <2>3. /\ Len(thold'[h]) = Len(thold[h]) + 1 /\ thold'[h] # <<>>
        /\ Len(Tail(Source(h))) = Len(Source(h)) - 1
    <3>1. Head(Source(h)) \in Nat /\ Len(Tail(Source(h))) = Len(Source(h)) - 1
      BY <2>1, <2>2, HeadTailProperties
    <3>2. PICK t \in Seq(Nat), n \in Nat : t = thold[h] /\ n = Head(Source(h)) /\ thold'[h] = Append(t, n)
      BY <2>1, <2>2, <3>1
    <3>3. Len(Append(t, n)) = Len(t) + 1 /\ Append(t, n) # <<>>
      BY AppendProperties
    <3>4. QED
      BY <3>1, <3>2, <3>3
  <2>4. gpc[h] = "returned"
    BY <2>1 DEF PipelineOf
  <2>5. CASE opt[h].budget > 0
    <3>1. inCh' = inCh /\ Len(dst'[h]) = Len(dst[h]) - 1
      BY <1>9, <2>3, <2>5 DEF TransReceive, TakeSource, Source, GetsShape
    <3>2. count[h] = Len(got[h]) + Len(out[h]) + Len(thold'[h]) + Len(dst'[h])
      <4>1. count[h] = Len(got[h]) + Len(out[h]) + Len(thold[h]) + Len(dst[h])
        BY <2>5 DEF PipelineOf
      <4>2. QED
        BY <1>0, <1>0a, <2>3, <3>1, <4>1
    <3>3. tpc'[h] \in {"emit", "recv"} /\ (opt[h].stream <=> tpc'[h] = "emit")
      BY <1>1, <2>1
    <3>4. opt'[h].budget # 0 /\ opt'[h].budget > 0
      BY <1>1, <2>1, <2>5
    <3>5. /\ count'[h] = (Len(got[h]) + Len(out[h]) + Len(thold[h]) + Len(dst[h]))'
          /\ count'[h] <= opt'[h].budget
          /\ bpc'[h] \in {"recv", "send"} => count'[h] < opt'[h].budget
          /\ bpc'[h] = "exited" /\ ~ctxDone'[h] =>
                 count'[h] = opt'[h].budget \/ (inCh'[h] = <<>> /\ ChanClosed(h)')
      BY <2>1, <2>5, <3>1, <3>2 DEF PipelineOf, ChanClosed
    <3>6. QED
      BY <2>1, <2>3, <2>4, <3>3, <3>4, <3>5 DEF PipelineOf
  <2>6. CASE ~(opt[h].budget > 0)
    <3>1. dst' = dst
      BY <1>9, <2>6 DEF TransReceive, TakeSource
    <3>2. QED
      BY <1>1, <2>1, <2>3, <2>4, <2>6, <3>1 DEF PipelineOf
  <2>7. QED
    BY <2>5, <2>6
<1>10. CASE TransEmit(h)
  <2>1. /\ UNCHANGED <<opt, got, inCh, dst, count, bpc, gpc, closes, ctxDone>>
        /\ tpc[h] = "emit" /\ tpc'[h] = AfterEmit(h, Tail(thold[h]))
        /\ thold[h] # <<>> /\ thold'[h] = Tail(thold[h])
        /\ out'[h] = Append(out[h], Head(thold[h]))
    BY <1>10 DEF TransEmit, TransGoto, GetsShape
  <2>2. Len(thold'[h]) = Len(thold[h]) - 1 /\ Len(out'[h]) = Len(out[h]) + 1
    BY <2>1, AppendProperties, HeadTailProperties DEF GetsShape
  <2>3. gpc[h] = "returned"
    BY <2>1 DEF PipelineOf
  <2>4. SourceOver(h)' <=> SourceOver(h)
    BY <2>1 DEF SourceOver, Source, SourceClosed, ChanClosed
  <2>5. /\ opt[h].stream /\ tpc'[h] = "recv" => thold'[h] = <<>>
        /\ opt[h].stream /\ tpc'[h] = "emit" => thold'[h] # <<>>
        /\ tpc'[h] = "done" => ~opt[h].stream /\ thold'[h] = <<>>
    BY <2>1 DEF AfterEmit
  <2>6. ~opt[h].stream => SourceOver(h)
    BY <2>1 DEF PipelineOf
  <2>7. opt[h].budget > 0 =>
            count[h] = Len(got[h]) + Len(out'[h]) + Len(thold'[h]) + Len(dst[h])
    <3>1. opt[h].budget > 0 => count[h] = Len(got[h]) + Len(out[h]) + Len(thold[h]) + Len(dst[h])
      BY DEF PipelineOf
    <3>2. QED
      BY <1>0, <1>0a, <2>2, <3>1
  <2>8. QED
    BY <2>1, <2>3, <2>4, <2>5, <2>6, <2>7 DEF PipelineOf, ChanClosed
<1>11. CASE TransClosed(h) \/ TransNothingToFlush(h) \/ TransCancelled(h)
  <2>1. UNCHANGED <<opt, got, out, thold, inCh, dst, count, bpc, gpc, closes, ctxDone>>
    BY <1>11 DEF TransClosed, TransNothingToFlush, TransCancelled
  <2>2. SourceOver(h)' <=> SourceOver(h)
    BY <2>1 DEF SourceOver, Source, SourceClosed, ChanClosed
  <2>3. gpc[h] = "returned"
    BY <1>11 DEF TransClosed, TransNothingToFlush, TransCancelled, TransGoto, PipelineOf
  <2>4. CASE TransClosed(h)
    <3>1. SourceOver(h) /\ tpc[h] = "recv" /\ tpc'[h] = IF opt[h].stream THEN "done" ELSE "emit"
      BY <2>4 DEF TransClosed, TransGoto, SourceOver, GetsShape
    <3>2. QED
      BY <1>1, <2>1, <2>2, <2>3, <3>1 DEF PipelineOf, ChanClosed
  <2>5. CASE TransNothingToFlush(h)
    <3>1. thold[h] = <<>> /\ tpc[h] = "emit" /\ tpc'[h] = "done"
      BY <2>5 DEF TransNothingToFlush, TransGoto, GetsShape
    <3>2. QED
      BY <1>1, <2>1, <2>2, <2>3, <3>1 DEF PipelineOf, ChanClosed
  <2>6. CASE TransCancelled(h)
    <3>1. ctxDone[h] /\ tpc'[h] = "done"
      BY <2>6 DEF TransCancelled, TransGoto, GetsShape
    <3>2. QED
      BY <1>1, <2>1, <2>2, <2>3, <3>1 DEF PipelineOf, ChanClosed
  <2>7. QED
    BY <1>11, <2>4, <2>5, <2>6
<1>12. QED
  BY <1>2, <1>3, <1>4, <1>5, <1>6, <1>7, <1>8, <1>9, <1>10, <1>11, Lanes DEF BudgetLimit, Translator

-----------------------------------------------------------------------------
(* The theorems.                                                           *)

\* A session starts with no Get.
LEMMA InitGetsInv == Init => GetsInv
<1> SUFFICES ASSUME Init PROVE GetsInv
  OBVIOUS
<1>1. GetsShape
  BY GetsAssumption DEF Init, GetsShape, CallPlaces, Causes
<1>2. RegistryInv
  BY DEF Init, RegistryInv, Unregistered
<1>3. ASSUME NEW g \in Calls PROVE PipelineOf(g) /\ OrderOf(g) /\ CountOf(g)
  <2>1. /\ got[g] = <<>> /\ out[g] = <<>> /\ thold[g] = <<>> /\ dst[g] = <<>> /\ inCh[g] = <<>>
        /\ bpc[g] = "none" /\ tpc[g] = "none" /\ count[g] = 0 /\ sent[g] = 0 /\ holding = {}
        /\ opt[g].budget \in Nat
    BY <1>1 DEF Init, GetsShape, CallOptions
  <2>2. Chain(g) = <<>>
    BY <2>1 DEF Chain, Held
  <2>3. PipelineOf(g)
    BY <2>1 DEF PipelineOf
  <2>4. OrderOf(g) /\ CountOf(g)
    BY <2>1, <2>2 DEF OrderOf, CountOf, Ordered, Delivered
  <2>5. QED
    BY <2>3, <2>4
<1>4. QED
  BY <1>1, <1>2, <1>3 DEF GetsInv

\* The invariant is inductive.
LEMMA GetsInvariant == Spec => []GetsInv
<1>1. GetsInv /\ [Next]_vars => GetsInv'
  <2> SUFFICES ASSUME GetsInv, [Next]_vars PROVE GetsInv'
    OBVIOUS
  <2>1. GetsShape /\ RegistryInv
    BY DEF GetsInv
  <2>2. GetsShape' /\ RegistryInv'
    BY <2>1, ShapeStep, RegistryStep
  <2>3. ASSUME NEW h \in Calls PROVE (PipelineOf(h) /\ OrderOf(h) /\ CountOf(h))'
    <3>1. PipelineOf(h) /\ OrderOf(h) /\ CountOf(h)
      BY DEF GetsInv
    <3>2. PipelineOf(h)' /\ OrderOf(h)' /\ CountOf(h)'
      BY <2>1, <3>1, PipelineStep, OrderStep, CountStep
    <3>3. QED
      BY <3>2
  <2>4. QED
    BY <2>2, <2>3 DEF GetsInv
<1>2. QED
  BY <1>1, InitGetsInv, PTL DEF Spec

\* deliverReply never sends on a closed channel, however RESPONSE_FINAL, the
\* timer, the context and the end of the link race to close it.
THEOREM GetsNeverPanic == Spec => []NoSendOnClosed
<1>1. GetsInv => NoSendOnClosed
  BY DEF GetsInv, RegistryInv, NoSendOnClosed
<1>2. QED
  BY <1>1, GetsInvariant, PTL

\* The length of a chain is the sum of its parts.
LEMMA ChainLength ==
    ASSUME GetsShape, NEW g \in Calls
    PROVE  /\ Len(Chain(g)) = Len(got[g]) + Len(out[g]) + Len(thold[g]) + Len(dst[g])
                                + Len(Held(g)) + Len(inCh[g])
           /\ Len(got[g]) \in Nat /\ Len(out[g]) \in Nat /\ Len(thold[g]) \in Nat
           /\ Len(dst[g]) \in Nat /\ Len(Held(g)) \in Nat /\ Len(inCh[g]) \in Nat
<1>1. /\ Len(got[g]) \in Nat /\ Len(out[g]) \in Nat /\ Len(thold[g]) \in Nat
      /\ Len(dst[g]) \in Nat /\ Len(Held(g)) \in Nat /\ Len(inCh[g]) \in Nat
  BY ChainShape, LenProperties
<1>2. Len(Held(g) \o inCh[g]) = Len(Held(g)) + Len(inCh[g])
  BY ChainShape, ConcatProperties
<1>3. Len(dst[g] \o (Held(g) \o inCh[g])) = Len(dst[g]) + (Len(Held(g)) + Len(inCh[g]))
  BY <1>2, ChainShape, ConcatProperties
<1>4. Len(thold[g] \o (dst[g] \o (Held(g) \o inCh[g])))
          = Len(thold[g]) + (Len(dst[g]) + (Len(Held(g)) + Len(inCh[g])))
  BY <1>3, ChainShape, ConcatProperties
<1>5. Len(out[g] \o (thold[g] \o (dst[g] \o (Held(g) \o inCh[g]))))
          = Len(out[g]) + (Len(thold[g]) + (Len(dst[g]) + (Len(Held(g)) + Len(inCh[g]))))
  BY <1>4, ChainShape, ConcatProperties
<1>6. Len(Chain(g)) = Len(got[g]) + (Len(out[g]) + (Len(thold[g]) + (Len(dst[g])
                          + (Len(Held(g)) + Len(inCh[g])))))
  BY <1>5, ChainShape, ConcatProperties DEF Chain
<1>7. PICK n1 \in Nat, n2 \in Nat, n3 \in Nat, n4 \in Nat, n5 \in Nat, n6 \in Nat :
          /\ n1 = Len(got[g]) /\ n2 = Len(out[g]) /\ n3 = Len(thold[g]) /\ n4 = Len(dst[g])
          /\ n5 = Len(Held(g)) /\ n6 = Len(inCh[g])
  BY <1>1
<1>8. n1 + (n2 + (n3 + (n4 + (n5 + n6)))) = n1 + n2 + n3 + n4 + n5 + n6
  OBVIOUS
<1>9. QED
  BY <1>1, <1>6, <1>7, <1>8

\* A caller is given at most its budget of replies, in the router's order, and
\* every one of them (up to the budget) when RESPONSE_FINAL ended the Get, no
\* reply found its channel full and the context was not cancelled.
THEOREM RepliesAlwaysAccounted == Spec => []RepliesAccounted
<1>1. GetsInv => RepliesAccounted
  <2> SUFFICES ASSUME GetsInv, NEW g \in Calls
               PROVE  /\ opt[g].budget > 0 => Len(Received(g)) <= opt[g].budget
                      /\ \A i, j \in 1 .. Len(Received(g)) :
                             i < j => Received(g)[i] < Received(g)[j]
                      /\ /\ tpc[g] = "done" /\ endedBy[g] = "final"
                         /\ g \notin overflow /\ ~ctxDone[g]
                         => Len(Received(g)) = IF 0 < opt[g].budget /\ opt[g].budget < sent[g]
                                               THEN opt[g].budget ELSE sent[g]
    BY DEF RepliesAccounted, BudgetKept, NoReplyLost
  <2>1. GetsShape /\ RegistryInv /\ PipelineOf(g) /\ OrderOf(g) /\ CountOf(g)
    BY DEF GetsInv
  <2>2. /\ Len(Received(g)) = Len(got[g]) + Len(out[g])
        /\ Received(g) \in Seq(Nat) /\ opt[g].budget \in Nat /\ sent[g] \in Nat
    BY <2>1, ChainShape, ConcatProperties DEF Received, GetsShape, CallOptions
  <2>a. PICK n1 \in Nat, n2 \in Nat, n3 \in Nat, n4 \in Nat, n5 \in Nat, n6 \in Nat,
             b \in Nat, m \in Nat, k \in Nat :
            /\ n1 = Len(got[g]) /\ n2 = Len(out[g]) /\ n3 = Len(thold[g]) /\ n4 = Len(dst[g])
            /\ n5 = Len(Held(g)) /\ n6 = Len(inCh[g])
            /\ b = opt[g].budget /\ m = sent[g] /\ k = count[g]
            /\ Len(Chain(g)) = n1 + n2 + n3 + n4 + n5 + n6
            /\ Len(Received(g)) = n1 + n2
            /\ b > 0 => k = n1 + n2 + n3 + n4 /\ k <= b
    <3>1. opt[g].budget > 0 =>
              /\ count[g] = Len(got[g]) + Len(out[g]) + Len(thold[g]) + Len(dst[g])
              /\ count[g] <= opt[g].budget
      BY <2>1 DEF PipelineOf
    <3>2. count[g] \in Nat
      BY <2>1 DEF GetsShape
    <3>3. QED
      BY <2>1, <2>2, <3>1, <3>2, ChainLength
  <2>b. b > 0 => k = n1 + n2 + n3 + n4 /\ k <= b
    BY <2>a
  <2>3. opt[g].budget > 0 => Len(Received(g)) <= opt[g].budget
    <3>1. b > 0 => n1 + n2 + n3 + n4 <= b
      BY <2>b
    <3>2. b > 0 => n1 + n2 <= b
      BY <3>1
    <3>3. QED
      BY <2>a, <3>2
  <2>4. Ordered(Received(g), Delivered(g))
    <3>1. PICK r \in Seq(Nat) : r = thold[g] \o (dst[g] \o (Held(g) \o inCh[g]))
      BY <2>1, ChainShape
    <3>2. got[g] \in Seq(Nat) /\ out[g] \in Seq(Nat)
      BY <2>1, ChainShape
    <3>3. got[g] \o (out[g] \o r) = Received(g) \o r
      BY <3>2, ConcatAssoc DEF Received
    <3>4. Ordered(Received(g) \o r, Delivered(g))
      BY <2>1, <3>1, <3>3 DEF OrderOf, Chain
    <3>5. QED
      BY <2>2, <3>4, OrderedPrefix
  <2>5. ASSUME tpc[g] = "done", endedBy[g] = "final", g \notin overflow, ~ctxDone[g]
        PROVE  Len(Received(g)) = IF 0 < opt[g].budget /\ opt[g].budget < sent[g]
                                  THEN opt[g].budget ELSE sent[g]
    <3>1. ChanClosed(g) /\ g \notin holding
      BY <2>1, <2>5 DEF RegistryInv, ChanClosed
    <3>2. Len(Chain(g)) = sent[g]
      BY <2>1, <2>5, <3>1 DEF CountOf, Counted, Delivered
    <3>3. thold[g] = <<>> /\ SourceOver(g)
      BY <2>1, <2>5 DEF PipelineOf
    <3>4. n3 = 0 /\ m = n1 + n2 + n4 + n5 + n6
      <4>1. n3 = 0
        BY <2>a, <3>3
      <4>2. m = n1 + n2 + n3 + n4 + n5 + n6
        BY <2>a, <3>2
      <4>3. QED
        BY <4>1, <4>2
    <3>5. CASE b = 0
      <4>1. inCh[g] = <<>> /\ dst[g] = <<>> /\ Held(g) = <<>>
        BY <2>1, <2>a, <3>3, <3>5 DEF PipelineOf, SourceOver, Source, Held
      <4>2. n4 = 0 /\ n5 = 0 /\ n6 = 0
        BY <2>a, <4>1
      <4>3. m = n1 + n2
        BY <3>4, <4>2
      <4>4. QED
        BY <2>a, <3>5, <4>3
    <3>6. CASE b > 0
      <4>1. dst[g] = <<>> /\ bpc[g] = "exited" /\ Held(g) = <<>>
        BY <2>a, <3>3, <3>6 DEF SourceOver, Source, SourceClosed, Held
      <4>2. n4 = 0 /\ n5 = 0
        BY <2>a, <4>1
      <4>3. n1 + n2 <= b /\ m = n1 + n2 + n6
        BY <2>b, <3>4, <3>6, <4>2
      <4>4. n1 + n2 = b \/ n6 = 0
        <5>1. count[g] = opt[g].budget \/ inCh[g] = <<>>
          BY <2>1, <2>5, <2>a, <3>6, <4>1 DEF PipelineOf
        <5>2. k = n1 + n2
          BY <2>b, <3>4, <3>6, <4>2
        <5>3. k = b \/ n6 = 0
          BY <2>a, <5>1
        <5>4. QED
          BY <5>2, <5>3
      <4>5. n1 + n2 = IF b < m THEN b ELSE m
        BY <4>3, <4>4
      <4>6. QED
        BY <2>a, <3>6, <4>5
    <3>7. QED
      BY <3>5, <3>6
  <2>6. QED
    BY <2>3, <2>4, <2>5 DEF Ordered
<1>2. QED
  BY <1>1, GetsInvariant, PTL

-----------------------------------------------------------------------------
(* Consolidation.                                                          *)

ConsolidationTypes ==
    /\ arrived \in Seq(Replies)
    /\ marks \in [Keys -> Nat] /\ passed \in Seq(Nat)
    /\ buf \in [Keys -> Nat] /\ order \in Seq(Keys) /\ errs \in Seq(Nat)

\* OfKey and IsNewest of the replies s.
KeyIn(s, k) == {n \in 1 .. Len(s) : s[n].key = k}
NewestIn(s, k, n) ==
    \/ /\ \A m \in KeyIn(s, k) : Stamped(s[m])
       /\ \A m \in KeyIn(s, k) : s[m].ts < s[n].ts \/ (s[m].ts = s[n].ts /\ n <= m)
    \/ /\ \A m \in KeyIn(s, k) : ~Stamped(s[m])
       /\ \A m \in KeyIn(s, k) : m <= n

\* The mark of a key is the newest timestamp that arrived for it.
MarksNewest ==
    \A k \in Keys :
        /\ \A m \in KeyIn(arrived, k) : Stamped(arrived[m]) => arrived[m].ts <= marks[k]
        /\ marks[k] > 0 => \E m \in KeyIn(arrived, k) : Stamped(arrived[m]) /\ arrived[m].ts = marks[k]

\* The buffer has a reply of its key as soon as there is one.
BufOfKey ==
    \A k \in Keys : IF buf[k] = 0 THEN KeyIn(arrived, k) = {} ELSE buf[k] \in KeyIn(arrived, k)

\* A key whose replies are all of one kind keeps its newest.
KeepsNewest ==
    \A k \in Keys :
        (\/ \A m \in KeyIn(arrived, k) : Stamped(arrived[m])
         \/ \A m \in KeyIn(arrived, k) : ~Stamped(arrived[m]))
            => buf[k] = 0 \/ NewestIn(arrived, k, buf[k])

Answered == {k \in Keys : KeyIn(arrived, k) # {}}

\* order lists the answered keys, each once, by their first replies.
OrderOfKeys ==
    /\ \A k \in Keys : KeyIn(arrived, k) # {} <=> \E i \in 1 .. Len(order) : order[i] = k
    /\ \A i, j \in 1 .. Len(order) :
          i < j => \E m \in KeyIn(arrived, order[i]) : \A n \in KeyIn(arrived, order[j]) : m < n
    /\ IsFiniteSet(Answered) /\ Cardinality(Answered) = Len(order)

\* errs lists the errors as they came.
ErrorsListed ==
    /\ \A i \in 1 .. Len(errs) : errs[i] \in KeyIn(arrived, NoKey)
    /\ \A i, j \in 1 .. Len(errs) : i < j => errs[i] < errs[j]
    /\ IsFiniteSet(KeyIn(arrived, NoKey)) /\ Cardinality(KeyIn(arrived, NoKey)) = Len(errs)

ConsolidationInv ==
    /\ ConsolidationTypes /\ MarksNewest /\ MonotonicReference
    /\ BufOfKey /\ KeepsNewest /\ OrderOfKeys /\ ErrorsListed

\* At the start nothing has arrived.
LEMMA InitConsolidation == ConsolidationInit => ConsolidationInv
<1> SUFFICES ASSUME ConsolidationInit PROVE ConsolidationInv
  OBVIOUS
<1>1. Positions = {} /\ Len(arrived) = 0 /\ Len(passed) = 0 /\ Len(order) = 0 /\ Len(errs) = 0
  BY DEF ConsolidationInit, Positions
<1>2. \A k : KeyIn(arrived, k) = {}
  BY <1>1 DEF KeyIn, Positions
<1>3. Answered = {}
  BY <1>2 DEF Answered
<1>4. ConsolidationTypes
  BY EmptySeq DEF ConsolidationInit, ConsolidationTypes
<1>5. MarksNewest /\ BufOfKey
  BY <1>2 DEF ConsolidationInit, MarksNewest, BufOfKey
<1>6. MonotonicReference
  BY <1>1 DEF MonotonicReference
<1>7. KeepsNewest
  BY DEF KeepsNewest, ConsolidationInit
<1>8. OrderOfKeys
  BY <1>1, <1>2, <1>3, FS_EmptySet DEF OrderOfKeys
<1>9. ErrorsListed
  BY <1>1, <1>2, FS_EmptySet DEF ErrorsListed
<1> QED
  BY <1>4, <1>5, <1>6, <1>7, <1>8, <1>9 DEF ConsolidationInv

\* What has arrived after the next reply.
LEMMA Arrives ==
    ASSUME ConsolidationTypes, NEW r \in Replies, Take(r),
           NEW n, n = Len(arrived) + 1
    PROVE  /\ n \in Nat \ {0} /\ Len(arrived) = n - 1
           /\ arrived' \in Seq(Replies) /\ Len(arrived') = n
           /\ arrived'[n] = r /\ \A m \in 1 .. n - 1 : arrived'[m] = arrived[m] /\ arrived[m] \in Replies
           /\ Positions = 1 .. n - 1 /\ Positions' = 1 .. n
           /\ \A k : KeyIn(arrived', k) = IF k = r.key THEN KeyIn(arrived, k) \cup {n} ELSE KeyIn(arrived, k)
           /\ \A k : KeyIn(arrived, k) \subseteq 1 .. n - 1
           /\ \A k : \A m \in KeyIn(arrived, k) : arrived'[m] = arrived[m]
<1>1. arrived \in Seq(Replies) /\ arrived' = Append(arrived, r)
  BY DEF ConsolidationTypes, Take
<1>2. /\ n \in Nat \ {0} /\ Len(arrived) = n - 1
      /\ arrived' \in Seq(Replies) /\ Len(arrived') = n
      /\ arrived'[n] = r /\ \A m \in 1 .. n - 1 : arrived'[m] = arrived[m] /\ arrived[m] \in Replies
  BY <1>1, AppendProperties, LenProperties, ElementOfSeq
<1>3. Positions = 1 .. n - 1 /\ Positions' = 1 .. n
  BY <1>2 DEF Positions
<1>4. ASSUME NEW k PROVE KeyIn(arrived', k) = IF k = r.key THEN KeyIn(arrived, k) \cup {n} ELSE KeyIn(arrived, k)
  <2>1. KeyIn(arrived', k) = {m \in 1 .. n : arrived'[m].key = k}
    BY <1>3 DEF KeyIn, Positions
  <2>2. KeyIn(arrived, k) = {m \in 1 .. n - 1 : arrived[m].key = k}
    BY <1>3 DEF KeyIn, Positions
  <2>3. 1 .. n = (1 .. n - 1) \cup {n}
    BY <1>2
  <2> QED
    BY <2>1, <2>2, <2>3, <1>2
<1>5. \A k : KeyIn(arrived, k) \subseteq 1 .. n - 1
  BY <1>3 DEF KeyIn, Positions
<1> QED
  BY <1>2, <1>3, <1>4, <1>5

\* The parts of a reply.
LEMMA ReplyParts ==
    ASSUME NEW r \in Replies
    PROVE  /\ r.ts \in Nat /\ r.key \in Keys \cup {NoKey}
           /\ IsError(r) <=> r.key \notin Keys
           /\ Stamped(r) <=> r.key \in Keys /\ r.ts > 0
<1> USE ConsolidationAssumption
<1>1. CASE r \in [key : Keys, ts : 0 .. MaxTs]
  BY <1>1 DEF IsError, Stamped
<1>2. CASE r \in [key : {NoKey}, ts : {0}]
  BY <1>2 DEF IsError, Stamped
<1> QED
  BY <1>1, <1>2 DEF Replies

\* The mark follows the newest timestamp.
LEMMA MarksStep ==
    ASSUME ConsolidationTypes, MarksNewest, NEW r \in Replies, Take(r)
    PROVE  MarksNewest' /\ marks' \in [Keys -> Nat]
<1> DEFINE n == Len(arrived) + 1
<1>1. /\ \A k : KeyIn(arrived', k) = IF k = r.key THEN KeyIn(arrived, k) \cup {n} ELSE KeyIn(arrived, k)
      /\ \A k : \A m \in KeyIn(arrived, k) : arrived'[m] = arrived[m]
      /\ arrived'[n] = r
  BY Arrives
<1> HIDE DEF n
<1>2. r.ts \in Nat /\ (Stamped(r) => r.key \in Keys /\ r.ts > 0)
  BY ReplyParts
<1>3. marks \in [Keys -> Nat]
  BY DEF ConsolidationTypes
<1>4. marks' = IF Stamped(r) /\ ~MonotonicDrops(r) THEN [marks EXCEPT ![r.key] = r.ts] ELSE marks
  BY DEF Take, Monotonic
<1>5. marks' \in [Keys -> Nat]
  BY <1>2, <1>3, <1>4
<1>6. ASSUME NEW k \in Keys
      PROVE  /\ \A m \in KeyIn(arrived', k) : Stamped(arrived'[m]) => arrived'[m].ts <= marks'[k]
             /\ marks'[k] > 0 => \E m \in KeyIn(arrived', k) : Stamped(arrived'[m]) /\ arrived'[m].ts = marks'[k]
  <2>0. /\ \A m \in KeyIn(arrived, k) : Stamped(arrived[m]) => arrived[m].ts <= marks[k]
        /\ marks[k] > 0 => \E m \in KeyIn(arrived, k) : Stamped(arrived[m]) /\ arrived[m].ts = marks[k]
    BY DEF MarksNewest
  <2>1. CASE k # r.key
    <3>1. KeyIn(arrived', k) = KeyIn(arrived, k) /\ marks'[k] = marks[k]
      BY <2>1, <1>1, <1>3, <1>4
    <3> QED BY <3>1, <2>0, <1>1
  <2>2. CASE k = r.key /\ ~Stamped(r)
    <3>1. KeyIn(arrived', k) = KeyIn(arrived, k) \cup {n} /\ marks' = marks
      BY <2>2, <1>1, <1>4
    <3> QED BY <3>1, <2>0, <2>2, <1>1
  <2>3. CASE k = r.key /\ Stamped(r) /\ MonotonicDrops(r)
    <3>1. KeyIn(arrived', k) = KeyIn(arrived, k) \cup {n} /\ marks' = marks /\ r.ts <= marks[k]
      BY <2>3, <1>1, <1>4 DEF MonotonicDrops
    <3> QED BY <3>1, <2>0, <2>3, <1>1
  <2>4. CASE k = r.key /\ Stamped(r) /\ ~MonotonicDrops(r)
    <3>1. KeyIn(arrived', k) = KeyIn(arrived, k) \cup {n} /\ marks'[k] = r.ts
      BY <2>4, <1>1, <1>3, <1>4
    <3>2. marks[k] < r.ts /\ marks[k] \in Nat
      BY <2>4, <1>2, <1>3 DEF MonotonicDrops
    <3>3. ASSUME NEW m \in KeyIn(arrived, k), Stamped(arrived[m]) PROVE arrived[m].ts <= r.ts
      <4>1. arrived[m] \in Replies
        BY Arrives
      <4>2. arrived[m].ts \in Nat
        BY <4>1, ReplyParts
      <4> QED BY <3>2, <3>3, <4>2, <2>0, <1>2
    <3> QED BY <3>1, <3>3, <2>4, <1>1, <1>2
  <2> QED BY <2>1, <2>2, <2>3, <2>4
<1> QED BY <1>5, <1>6 DEF MarksNewest

\* What passes is what its definition says.
Later(s, n, m) ==
    /\ Stamped(s[n]) /\ Stamped(s[m]) /\ s[m].key = s[n].key /\ s[n].ts <= s[m].ts
KeptOf(s, S) == {n \in S : \A m \in 1 .. n - 1 : ~Later(s, n, m)}

\* The reference says so.
LEMMA ReferenceOf ==
    MonotonicReference <=>
        /\ {passed[i] : i \in 1 .. Len(passed)} = KeptOf(arrived, Positions)
        /\ \A i, j \in 1 .. Len(passed) : i < j => passed[i] < passed[j]
BY DEF MonotonicReference, KeptOf, Later

\* The same after a step.
LEMMA PrimedReference ==
    MonotonicReference' <=>
        /\ {passed'[i] : i \in 1 .. Len(passed')} = KeptOf(arrived', Positions')
        /\ \A i, j \in 1 .. Len(passed') : i < j => passed'[i] < passed'[j]
BY DEF MonotonicReference, KeptOf, Later

\* The next reply is forwarded exactly when it should be.
LEMMA MonotonicStep ==
    ASSUME ConsolidationTypes, MarksNewest, MonotonicReference, NEW r \in Replies, Take(r)
    PROVE  MonotonicReference' /\ passed' \in Seq(Nat)
<1> DEFINE n == Len(arrived) + 1
<1>1. /\ n \in Nat \ {0} /\ arrived'[n] = r
      /\ \A m \in 1 .. n - 1 : arrived'[m] = arrived[m] /\ arrived[m] \in Replies
      /\ Positions = 1 .. n - 1 /\ Positions' = 1 .. n
      /\ passed' = IF MonotonicDrops(r) THEN passed ELSE Append(passed, n)
  BY Arrives DEF Take, Monotonic
<1> HIDE DEF n
<1>2. /\ {passed[i] : i \in 1 .. Len(passed)} = KeptOf(arrived, 1 .. n - 1)
      /\ \A i, j \in 1 .. Len(passed) : i < j => passed[i] < passed[j]
      /\ passed \in Seq(Nat)
  BY <1>1, ReferenceOf DEF ConsolidationTypes
<1>3. \A m \in 1 .. n - 1, l \in 1 .. n - 1 : Later(arrived', m, l) <=> Later(arrived, m, l)
  BY <1>1 DEF Later
<1>4. MonotonicDrops(r) <=> \E m \in 1 .. n - 1 : Later(arrived', n, m)
  <2>0. \A m \in 1 .. n - 1 : m \in KeyIn(arrived, arrived[m].key)
    BY <1>1 DEF KeyIn, Positions
  <2>1. ASSUME MonotonicDrops(r) PROVE \E m \in 1 .. n - 1 : Later(arrived', n, m)
    <3>1. Stamped(r) /\ marks[r.key] > 0 /\ r.ts <= marks[r.key] /\ r.key \in Keys
      BY <2>1, ReplyParts DEF MonotonicDrops
    <3>2. PICK m \in KeyIn(arrived, r.key) : Stamped(arrived[m]) /\ arrived[m].ts = marks[r.key]
      BY <3>1 DEF MarksNewest
    <3>3. m \in 1 .. n - 1 /\ arrived[m].key = r.key
      BY <1>1 DEF KeyIn, Positions
    <3> QED BY <3>1, <3>2, <3>3, <1>1 DEF Later
  <2>2. ASSUME NEW m \in 1 .. n - 1, Later(arrived', n, m) PROVE MonotonicDrops(r)
    <3>1. Stamped(r) /\ Stamped(arrived[m]) /\ arrived[m].key = r.key /\ r.ts <= arrived[m].ts
      BY <2>2, <1>1 DEF Later
    <3>2. r.key \in Keys /\ r.ts \in Nat /\ r.ts > 0 /\ arrived[m].ts \in Nat
      BY <3>1, <1>1, ReplyParts
    <3>3. arrived[m].ts <= marks[r.key] /\ marks[r.key] \in Nat
      BY <3>1, <3>2, <2>0 DEF MarksNewest, ConsolidationTypes
    <3> QED BY <3>1, <3>2, <3>3 DEF MonotonicDrops
  <2> QED BY <2>1, <2>2
<1>5. KeptOf(arrived', 1 .. n) =
          IF MonotonicDrops(r) THEN KeptOf(arrived, 1 .. n - 1) ELSE KeptOf(arrived, 1 .. n - 1) \cup {n}
  <2>1. 1 .. n = (1 .. n - 1) \cup {n} /\ n \notin 1 .. n - 1
    BY <1>1
  <2>2. \A m \in 1 .. n - 1 : 1 .. m - 1 \subseteq 1 .. n - 1
    BY <1>1
  <2>3. \A m \in 1 .. n - 1 : m \in KeptOf(arrived', 1 .. n) <=> m \in KeptOf(arrived, 1 .. n - 1)
    BY <2>1, <2>2, <1>3 DEF KeptOf
  <2>4. n \in KeptOf(arrived', 1 .. n) <=> ~MonotonicDrops(r)
    BY <2>1, <1>4 DEF KeptOf
  <2>5. KeptOf(arrived, 1 .. n - 1) \subseteq 1 .. n - 1 /\ KeptOf(arrived', 1 .. n) \subseteq 1 .. n
    BY DEF KeptOf
  <2>6. CASE MonotonicDrops(r)
    <3>1. \A m : m \in KeptOf(arrived', 1 .. n) <=> m \in KeptOf(arrived, 1 .. n - 1)
      BY <2>1, <2>3, <2>4, <2>5, <2>6
    <3> QED BY <3>1, <2>6
  <2>7. CASE ~MonotonicDrops(r)
    <3>1. \A m : m \in KeptOf(arrived', 1 .. n) <=> m \in KeptOf(arrived, 1 .. n - 1) \cup {n}
      BY <2>1, <2>3, <2>4, <2>5, <2>7
    <3> QED BY <3>1, <2>7
  <2> QED BY <2>6, <2>7
<1>6. CASE MonotonicDrops(r)
  <2>1. passed' = passed
    BY <1>6, <1>1
  <2>2. {passed'[i] : i \in 1 .. Len(passed')} = KeptOf(arrived', Positions')
    BY <2>1, <1>1, <1>2, <1>5, <1>6
  <2> QED BY <2>1, <2>2, <1>2, PrimedReference
<1>7. CASE ~MonotonicDrops(r)
  <2>1. PICK l \in Nat : l = Len(passed)
    BY <1>2, LenProperties
  <2>2. /\ passed' \in Seq(Nat) /\ Len(passed') = l + 1 /\ passed'[l + 1] = n
        /\ \A i \in 1 .. l : passed'[i] = passed[i]
    BY <1>7, <1>1, <1>2, <2>1, AppendProperties
  <2>3. \A i \in 1 .. l : passed[i] \in 1 .. n - 1
    BY <1>2, <2>1 DEF KeptOf
  <2>4. {passed'[i] : i \in 1 .. Len(passed')} = KeptOf(arrived', Positions')
    <3>1. {passed'[i] : i \in 1 .. Len(passed')} = {passed[i] : i \in 1 .. l} \cup {n}
      <4>1. 1 .. l + 1 = (1 .. l) \cup {l + 1}
        BY <2>1
      <4> QED BY <4>1, <2>2
    <3> QED BY <3>1, <1>1, <1>2, <1>5, <1>7, <2>1
  <2>5. ASSUME NEW i \in 1 .. Len(passed'), NEW j \in 1 .. Len(passed'), i < j
        PROVE  passed'[i] < passed'[j]
    <3>1. i \in 1 .. l /\ passed'[i] = passed[i]
      BY <2>1, <2>2, <2>5
    <3>2. CASE j \in 1 .. l
      BY <3>1, <3>2, <2>1, <2>2, <2>5, <1>2
    <3>3. CASE j = l + 1
      BY <3>1, <3>3, <2>2, <2>3, <1>1
    <3> QED BY <3>2, <3>3, <2>1, <2>2
  <2> QED BY <2>2, <2>4, <2>5, PrimedReference
<1> QED BY <1>6, <1>7

\* A reply is buffered for its key unless a newer one is.
LEMMA BufStep ==
    ASSUME ConsolidationTypes, BufOfKey, NEW r \in Replies, Take(r)
    PROVE  /\ buf' \in [Keys -> Nat] /\ BufOfKey'
           /\ \A k \in Keys : k # r.key => buf'[k] = buf[k]
           /\ r.key \in Keys => buf'[r.key] = IF LatestDrops(r) THEN buf[r.key] ELSE Len(arrived) + 1
<1> DEFINE n == Len(arrived) + 1
<1>1. /\ n \in Nat \ {0}
      /\ \A k : KeyIn(arrived', k) = IF k = r.key THEN KeyIn(arrived, k) \cup {n} ELSE KeyIn(arrived, k)
  BY Arrives
<1>2. CASE r.key \notin Keys
  <2>1. buf' = buf
    BY <1>2, ReplyParts DEF Take, Latest
  <2> QED BY <2>1, <1>1, <1>2 DEF BufOfKey, ConsolidationTypes
<1>3. CASE r.key \in Keys
  <2>1. buf' = IF LatestDrops(r) THEN buf ELSE [buf EXCEPT ![r.key] = n]
    BY <1>3, ReplyParts DEF Take, Latest
  <2> HIDE DEF n
  <2>2. buf \in [Keys -> Nat]
    BY DEF ConsolidationTypes
  <2>3. /\ buf' \in [Keys -> Nat]
        /\ \A k \in Keys : k # r.key => buf'[k] = buf[k]
        /\ buf'[r.key] = IF LatestDrops(r) THEN buf[r.key] ELSE n
    BY <2>1, <2>2, <1>1, <1>3
  <2>4. LatestDrops(r) => buf[r.key] # 0
    BY <2>2, <1>3 DEF LatestDrops
  <2>5. BufOfKey'
    BY <2>3, <2>4, <1>1, <1>3 DEF BufOfKey
  <2> QED BY <2>3, <2>5 DEF n
<1> QED BY <1>2, <1>3

\* The buffered reply stays the newest of its key.
LEMMA LatestStep ==
    ASSUME ConsolidationTypes, BufOfKey, KeepsNewest, NEW r \in Replies, Take(r)
    PROVE  KeepsNewest'
<1> DEFINE n == Len(arrived) + 1
<1>1. /\ n \in Nat \ {0} /\ arrived'[n] = r
      /\ \A k : KeyIn(arrived', k) = IF k = r.key THEN KeyIn(arrived, k) \cup {n} ELSE KeyIn(arrived, k)
      /\ \A k : KeyIn(arrived, k) \subseteq 1 .. n - 1
      /\ \A m \in 1 .. n - 1 : arrived'[m] = arrived[m] /\ arrived[m] \in Replies
  BY Arrives
<1>2. /\ \A k \in Keys : k # r.key => buf'[k] = buf[k]
      /\ r.key \in Keys => buf'[r.key] = IF LatestDrops(r) THEN buf[r.key] ELSE n
  BY BufStep
<1> HIDE DEF n
<1>3. SUFFICES ASSUME NEW k \in Keys,
                      \/ \A m \in KeyIn(arrived', k) : Stamped(arrived'[m])
                      \/ \A m \in KeyIn(arrived', k) : ~Stamped(arrived'[m])
               PROVE  buf'[k] = 0 \/ NewestIn(arrived', k, buf'[k])
  BY DEF KeepsNewest
<1>4. \A m \in KeyIn(arrived, k) : arrived'[m] = arrived[m] /\ m \in KeyIn(arrived', k) /\ m \in 1 .. n - 1
  BY <1>1
<1>5. buf[k] = 0 \/ NewestIn(arrived, k, buf[k])
  BY <1>3, <1>4 DEF KeepsNewest
<1>6. IF buf[k] = 0 THEN KeyIn(arrived, k) = {} ELSE buf[k] \in KeyIn(arrived, k)
  BY DEF BufOfKey
<1>7. \A m \in KeyIn(arrived', k) : arrived'[m].ts \in Nat /\ m \in Nat
  BY <1>1, <1>4, ReplyParts
<1>8. CASE k # r.key
  <2>1. KeyIn(arrived', k) = KeyIn(arrived, k) /\ buf'[k] = buf[k]
    BY <1>1, <1>2, <1>8
  <2> QED BY <2>1, <1>4, <1>5, <1>6 DEF NewestIn
<1>9. CASE k = r.key /\ LatestDrops(r)
  <2>1. KeyIn(arrived', k) = KeyIn(arrived, k) \cup {n} /\ buf'[k] = buf[k] /\ buf[k] \in KeyIn(arrived, k)
    BY <1>1, <1>2, <1>6, <1>9 DEF LatestDrops
  <2>2. Stamped(r) /\ Stamped(arrived[buf[k]]) /\ r.ts <= arrived[buf[k]].ts
    BY <1>9 DEF LatestDrops
  <2>3. \A m \in KeyIn(arrived', k) : Stamped(arrived'[m])
    BY <2>1, <2>2, <1>1, <1>3
  <2>4. ASSUME NEW m \in KeyIn(arrived, k)
        PROVE  arrived[m].ts < arrived[buf[k]].ts \/ (arrived[m].ts = arrived[buf[k]].ts /\ buf[k] <= m)
    BY <2>1, <2>2, <1>5, <1>4, <1>1 DEF NewestIn
  <2>5. r.ts < arrived[buf[k]].ts \/ (r.ts = arrived[buf[k]].ts /\ buf[k] <= n)
    BY <2>1, <2>2, <1>1, <1>4, <1>7
  <2> QED BY <2>1, <2>3, <2>4, <2>5, <1>1, <1>4 DEF NewestIn
<1>10. CASE k = r.key /\ ~LatestDrops(r)
  <2>1. KeyIn(arrived', k) = KeyIn(arrived, k) \cup {n} /\ buf'[k] = n
    BY <1>1, <1>2, <1>10
  <2>2. CASE ~Stamped(r)
    <3>1. \A m \in KeyIn(arrived', k) : ~Stamped(arrived'[m])
      BY <2>1, <2>2, <1>1, <1>3
    <3>2. \A m \in KeyIn(arrived', k) : m <= n
      BY <2>1, <1>1, <1>4
    <3> QED BY <3>1, <3>2, <2>1 DEF NewestIn
  <2>3. CASE Stamped(r)
    <3>1. \A m \in KeyIn(arrived', k) : Stamped(arrived'[m])
      BY <2>1, <2>3, <1>1, <1>3
    <3>2. ASSUME NEW m \in KeyIn(arrived, k) PROVE arrived[m].ts < r.ts
      <4>1. buf[k] # 0 /\ buf[k] \in KeyIn(arrived, k) /\ buf[k] \in Nat
        BY <1>6, <1>4
      <4>2. Stamped(arrived[buf[k]])
        BY <4>1, <3>1, <1>4
      <4>3. ~(r.ts <= arrived[buf[k]].ts)
        BY <4>1, <4>2, <2>3, <1>10 DEF LatestDrops
      <4>4. arrived[m].ts <= arrived[buf[k]].ts
        BY <4>1, <4>2, <1>5, <1>4, <1>7 DEF NewestIn
      <4>5. arrived[m].ts \in Nat /\ arrived[buf[k]].ts \in Nat /\ r.ts \in Nat
        BY <4>1, <1>4, <1>7, ReplyParts
      <4> QED BY <4>3, <4>4, <4>5
    <3>3. \A m \in KeyIn(arrived', k) : arrived'[m].ts < r.ts \/ (arrived'[m].ts = r.ts /\ n <= m)
      BY <3>2, <2>1, <1>1, <1>4
    <3> QED BY <3>1, <3>3, <2>1, <1>1 DEF NewestIn
  <2> QED BY <2>2, <2>3
<1> QED BY <1>8, <1>9, <1>10

\* Keys are listed by their first replies.
LEMMA KeyOrderStep ==
    ASSUME ConsolidationTypes, BufOfKey, OrderOfKeys, NEW r \in Replies, Take(r)
    PROVE  OrderOfKeys' /\ order' \in Seq(Keys)
<1> DEFINE n == Len(arrived) + 1
<1>1. /\ n \in Nat \ {0}
      /\ \A k : KeyIn(arrived', k) = IF k = r.key THEN KeyIn(arrived, k) \cup {n} ELSE KeyIn(arrived, k)
      /\ \A k : KeyIn(arrived, k) \subseteq 1 .. n - 1
  BY Arrives
<1> HIDE DEF n
<1>2. order \in Seq(Keys) /\ buf \in [Keys -> Nat]
  BY DEF ConsolidationTypes
<1>3. PICK l \in Nat : l = Len(order)
  BY <1>2, LenProperties
<1>4. /\ \A k \in Keys : KeyIn(arrived, k) # {} <=> \E i \in 1 .. l : order[i] = k
      /\ \A i, j \in 1 .. l :
            i < j => \E m \in KeyIn(arrived, order[i]) : \A x \in KeyIn(arrived, order[j]) : m < x
      /\ IsFiniteSet(Answered) /\ Cardinality(Answered) = l
      /\ \A i \in 1 .. l : order[i] \in Keys
  BY <1>2, <1>3, ElementOfSeq DEF OrderOfKeys
<1>5. CASE r.key \notin Keys \/ KeyIn(arrived, r.key) # {}
  <2>1. order' = order
    <3>1. CASE r.key \notin Keys
      BY <3>1, ReplyParts DEF Take, Latest
    <3>2. CASE r.key \in Keys
      <4>1. buf[r.key] # 0
        BY <3>2, <1>5 DEF BufOfKey
      <4> QED BY <4>1, <3>2, ReplyParts DEF Take, Latest
    <3> QED BY <3>1, <3>2
  <2>2. \A k \in Keys : KeyIn(arrived', k) # {} <=> KeyIn(arrived, k) # {}
    BY <1>1, <1>5
  <2>3. Answered' = Answered
    BY <2>2 DEF Answered
  <2>4. \A k \in Keys : KeyIn(arrived, k) \subseteq KeyIn(arrived', k) /\ KeyIn(arrived', k) \subseteq KeyIn(arrived, k) \cup {n}
    BY <1>1
  <2>5. ASSUME NEW i \in 1 .. l, NEW j \in 1 .. l, i < j
        PROVE  \E m \in KeyIn(arrived', order[i]) : \A x \in KeyIn(arrived', order[j]) : m < x
    <3>1. PICK m \in KeyIn(arrived, order[i]) : \A x \in KeyIn(arrived, order[j]) : m < x
      BY <2>5, <1>4
    <3>2. m \in 1 .. n - 1 /\ m < n
      BY <1>1
    <3>3. \A x \in KeyIn(arrived', order[j]) : m < x
      BY <3>1, <3>2, <2>4, <1>4
    <3>4. m \in KeyIn(arrived', order[i])
      BY <2>4, <1>4
    <3> QED BY <3>3, <3>4
  <2>6. \A k \in Keys : KeyIn(arrived', k) # {} <=> \E i \in 1 .. l : order[i] = k
    BY <2>2, <1>4
  <2>7. Len(order') = l /\ \A i : order'[i] = order[i]
    BY <2>1, <1>3
  <2>8. IsFiniteSet(Answered') /\ Cardinality(Answered') = l
    BY <2>3, <1>4
  <2>9. \A i, j \in 1 .. l : i < j =>
           \E m \in KeyIn(arrived', order'[i]) : \A x \in KeyIn(arrived', order'[j]) : m < x
    BY <2>5, <2>7
  <2>10. order' \in Seq(Keys)
    BY <2>1, <1>2
  <2> QED BY <2>6, <2>7, <2>8, <2>9, <2>10 DEF OrderOfKeys
<1>6. CASE r.key \in Keys /\ KeyIn(arrived, r.key) = {}
  <2>1. order' = Append(order, r.key)
    <3>1. buf[r.key] = 0
      BY <1>6 DEF BufOfKey
    <3> QED BY <3>1, <1>6, ReplyParts DEF Take, Latest
  <2>2. /\ order' \in Seq(Keys) /\ Len(order') = l + 1 /\ order'[l + 1] = r.key
        /\ \A i \in 1 .. l : order'[i] = order[i]
    BY <2>1, <1>2, <1>3, <1>6, AppendProperties
  <2>3. \A i \in 1 .. l : order[i] # r.key /\ KeyIn(arrived, order[i]) # {} /\ KeyIn(arrived', order[i]) = KeyIn(arrived, order[i])
    BY <1>1, <1>4, <1>6
  <2>4. KeyIn(arrived', r.key) = {n}
    BY <1>1, <1>6
  <2>5. 1 .. l + 1 = (1 .. l) \cup {l + 1}
    OBVIOUS
  <2>6. \A k \in Keys : KeyIn(arrived', k) # {} <=> \E i \in 1 .. l + 1 : order'[i] = k
    <3> TAKE k \in Keys
    <3>1. CASE k = r.key
      BY <3>1, <2>2, <2>4, <2>5
    <3>2. CASE k # r.key
      <4>1. KeyIn(arrived', k) = KeyIn(arrived, k)
        BY <3>2, <1>1
      <4> QED BY <4>1, <3>2, <2>2, <2>5, <1>4
    <3> QED BY <3>1, <3>2
  <2>7. ASSUME NEW i \in 1 .. l + 1, NEW j \in 1 .. l + 1, i < j
        PROVE  \E m \in KeyIn(arrived', order'[i]) : \A x \in KeyIn(arrived', order'[j]) : m < x
    <3>1. i \in 1 .. l
      BY <2>7
    <3>2. CASE j \in 1 .. l
      <4>1. \E m \in KeyIn(arrived, order[i]) : \A x \in KeyIn(arrived, order[j]) : m < x
        BY <3>1, <3>2, <2>7, <1>4
      <4> QED BY <4>1, <3>1, <3>2, <2>2, <2>3
    <3>3. CASE j = l + 1
      <4>1. PICK m : m \in KeyIn(arrived, order[i])
        BY <3>1, <2>3
      <4>2. m < n
        BY <4>1, <1>1
      <4> QED BY <4>1, <4>2, <3>1, <3>3, <2>2, <2>3, <2>4
    <3> QED BY <3>2, <3>3, <2>5
  <2>8. Answered' = Answered \cup {r.key} /\ r.key \notin Answered
    BY <1>1, <1>6 DEF Answered
  <2>9. IsFiniteSet(Answered') /\ Cardinality(Answered') = l + 1
    BY <2>8, <1>4, FS_AddElement
  <2> QED BY <2>2, <2>6, <2>7, <2>9 DEF OrderOfKeys
<1> QED BY <1>5, <1>6

\* Errors are listed as they come.
LEMMA ErrorStep ==
    ASSUME ConsolidationTypes, ErrorsListed, NEW r \in Replies, Take(r)
    PROVE  ErrorsListed' /\ errs' \in Seq(Nat)
<1> DEFINE n == Len(arrived) + 1
<1>1. /\ n \in Nat \ {0}
      /\ KeyIn(arrived', NoKey) = IF NoKey = r.key THEN KeyIn(arrived, NoKey) \cup {n} ELSE KeyIn(arrived, NoKey)
      /\ KeyIn(arrived, NoKey) \subseteq 1 .. n - 1
  BY Arrives
<1>2. CASE r.key # NoKey
  <2>1. errs' = errs
    BY <1>2 DEF Take, Latest, IsError
  <2> QED BY <2>1, <1>1, <1>2 DEF ErrorsListed, ConsolidationTypes
<1>3. CASE r.key = NoKey
  <2>1. errs' = Append(errs, n)
    BY <1>3 DEF Take, Latest, IsError
  <2> HIDE DEF n
  <2>2. errs \in Seq(Nat)
    BY DEF ConsolidationTypes
  <2>3. PICK l \in Nat : l = Len(errs)
    BY <2>2, LenProperties
  <2>4. /\ errs' \in Seq(Nat) /\ Len(errs') = l + 1 /\ errs'[l + 1] = n
        /\ \A i \in 1 .. l : errs'[i] = errs[i]
    BY <2>1, <2>2, <2>3, <1>1, AppendProperties
  <2>5. /\ \A i \in 1 .. l : errs[i] \in KeyIn(arrived, NoKey)
        /\ \A i, j \in 1 .. l : i < j => errs[i] < errs[j]
        /\ IsFiniteSet(KeyIn(arrived, NoKey)) /\ Cardinality(KeyIn(arrived, NoKey)) = l
    BY <2>3 DEF ErrorsListed
  <2>6. 1 .. l + 1 = (1 .. l) \cup {l + 1} /\ KeyIn(arrived', NoKey) = KeyIn(arrived, NoKey) \cup {n} /\ n \notin KeyIn(arrived, NoKey)
    BY <1>1, <1>3
  <2>7. \A i \in 1 .. l + 1 : errs'[i] \in KeyIn(arrived', NoKey)
    BY <2>4, <2>5, <2>6
  <2>8. ASSUME NEW i \in 1 .. l + 1, NEW j \in 1 .. l + 1, i < j PROVE errs'[i] < errs'[j]
    <3>1. i \in 1 .. l /\ errs[i] < n
      BY <2>5, <2>8, <1>1
    <3>2. CASE j \in 1 .. l
      BY <3>1, <3>2, <2>4, <2>5, <2>8
    <3>3. CASE j = l + 1
      BY <3>1, <3>3, <2>4
    <3> QED BY <3>2, <3>3, <2>6
  <2>9. IsFiniteSet(KeyIn(arrived', NoKey)) /\ Cardinality(KeyIn(arrived', NoKey)) = l + 1
    BY <2>5, <2>6, FS_AddElement
  <2> QED BY <2>4, <2>7, <2>8, <2>9 DEF ErrorsListed
<1> QED BY <1>2, <1>3

\* The invariant is kept.
LEMMA NextConsolidation == ConsolidationInv /\ [ConsolidationNext]_consolidationVars => ConsolidationInv'
<1>1. ASSUME ConsolidationInv, NEW r \in Replies, Take(r) PROVE ConsolidationInv'
  <2> USE <1>1 DEF ConsolidationInv
  <2>1. MarksNewest' /\ marks' \in [Keys -> Nat]
    BY MarksStep
  <2>2. MonotonicReference' /\ passed' \in Seq(Nat)
    BY MonotonicStep
  <2>3. BufOfKey' /\ buf' \in [Keys -> Nat]
    BY BufStep
  <2>4. KeepsNewest'
    BY LatestStep
  <2>5. OrderOfKeys' /\ order' \in Seq(Keys)
    BY KeyOrderStep
  <2>6. ErrorsListed' /\ errs' \in Seq(Nat)
    BY ErrorStep
  <2>7. arrived' \in Seq(Replies)
    BY Arrives
  <2> QED BY <2>1, <2>2, <2>3, <2>4, <2>5, <2>6, <2>7 DEF ConsolidationTypes
<1>2. ASSUME ConsolidationInv, UNCHANGED consolidationVars PROVE ConsolidationInv'
  <2>0. /\ arrived' = arrived /\ marks' = marks /\ passed' = passed
        /\ buf' = buf /\ order' = order /\ errs' = errs
    BY <1>2 DEF consolidationVars
  <2>1. ConsolidationTypes' /\ MarksNewest' /\ BufOfKey'
    BY <1>2, <2>0 DEF ConsolidationInv, ConsolidationTypes, MarksNewest, BufOfKey
  <2>2. MonotonicReference'
    BY <1>2, <2>0 DEF ConsolidationInv, MonotonicReference, Positions
  <2>3. KeepsNewest'
    BY <1>2, <2>0 DEF ConsolidationInv, KeepsNewest
  <2>4. OrderOfKeys'
    <3>1. Answered' = Answered
      BY <2>0 DEF Answered
    <3> QED BY <1>2, <2>0, <3>1 DEF ConsolidationInv, OrderOfKeys
  <2>5. ErrorsListed'
    BY <1>2, <2>0 DEF ConsolidationInv, ErrorsListed
  <2> QED BY <2>1, <2>2, <2>3, <2>4, <2>5 DEF ConsolidationInv
<1> QED BY <1>1, <1>2 DEF ConsolidationNext

\* Flush is the errors, then one reply of every answered key.
LEMMA ShapeFromInv == ConsolidationInv => LatestShape
<1> SUFFICES ASSUME ConsolidationInv PROVE LatestShape
  OBVIOUS
<1> USE DEF ConsolidationInv
<1>0. \A k : OfKey(k) = KeyIn(arrived, k)
  BY DEF OfKey, KeyIn, Positions
<1>1. PICK e \in Nat : e = Len(errs)
  BY LenProperties DEF ConsolidationTypes
<1>2. PICK l \in Nat : l = Len(order)
  BY LenProperties DEF ConsolidationTypes
<1> DEFINE tail == [i \in 1 .. l |-> buf[order[i]]]
<1>3. \A i \in 1 .. l : order[i] \in Keys /\ buf[order[i]] \in KeyIn(arrived, order[i])
  <2> TAKE i \in 1 .. l
  <2>1. order[i] \in Keys
    BY <1>2, ElementOfSeq DEF ConsolidationTypes
  <2>2. KeyIn(arrived, order[i]) # {}
    BY <2>1, <1>2 DEF OrderOfKeys
  <2> QED BY <2>1, <2>2 DEF BufOfKey
<1>4. tail \in Seq(Nat) /\ Len(tail) = l
  BY <1>3, IsASeq DEF ConsolidationTypes
<1>5. Flush = errs \o tail
  BY <1>2 DEF Flush
<1>6. /\ Len(Flush) = e + l
      /\ \A i \in 1 .. e : Flush[i] = errs[i]
      /\ \A i \in e + 1 .. e + l : Flush[i] = buf[order[i - e]] /\ i - e \in 1 .. l
  <2>1. errs \in Seq(Nat)
    BY DEF ConsolidationTypes
  <2>2. /\ Len(errs \o tail) = e + l
        /\ \A i \in 1 .. e + l : (errs \o tail)[i] = IF i <= e THEN errs[i] ELSE tail[i - e]
    BY <2>1, <1>1, <1>4, ConcatProperties
  <2>3. \A i \in e + 1 .. e + l : i - e \in 1 .. l /\ i \in 1 .. e + l /\ ~(i <= e)
    OBVIOUS
  <2>4. \A i \in 1 .. e : i \in 1 .. e + l /\ i <= e
    OBVIOUS
  <2> QED BY <2>2, <2>3, <2>4, <1>5
<1> HIDE DEF tail
<1>7. Cardinality(OfKey(NoKey)) = e /\ Cardinality({k \in Keys : OfKey(k) # {}}) = l
  BY <1>0, <1>1, <1>2 DEF ErrorsListed, OrderOfKeys, Answered
<1>8. \A i \in 1 .. e : arrived[Flush[i]].key = NoKey
  BY <1>1, <1>6 DEF ErrorsListed, KeyIn
<1>9. \A i \in e + 1 .. e + l : arrived[Flush[i]].key = order[i - e] /\ order[i - e] \in Keys
  BY <1>3, <1>6 DEF KeyIn
<1>10. \A i \in 1 .. e + l : (i <= e) <=> IsError(arrived[Flush[i]])
  <2> TAKE i \in 1 .. e + l
  <2>1. CASE i <= e
    BY <2>1, <1>8 DEF IsError
  <2>2. CASE ~(i <= e)
    <3>1. i \in e + 1 .. e + l
      BY <2>2
    <3> QED BY <3>1, <2>2, <1>9, ConsolidationAssumption DEF IsError
  <2> QED BY <2>1, <2>2
<1>11. \A i, j \in 1 .. e : i < j => Flush[i] < Flush[j]
  BY <1>1, <1>6 DEF ErrorsListed
<1>12. ASSUME NEW i \in e + 1 .. e + l, NEW j \in e + 1 .. e + l, i < j
       PROVE  \E m \in OfKey(arrived[Flush[i]].key) : \A n \in OfKey(arrived[Flush[j]].key) : m < n
  <2>1. PICK a \in 1 .. l, b \in 1 .. l : a = i - e /\ b = j - e /\ a < b
    BY <1>12
  <2>2. \E m \in KeyIn(arrived, order[a]) : \A n \in KeyIn(arrived, order[b]) : m < n
    BY <2>1, <1>2 DEF OrderOfKeys
  <2> QED BY <2>1, <2>2, <1>0, <1>9
<1> QED BY <1>6, <1>7, <1>10, <1>11, <1>12 DEF LatestShape

\* For any number of replies in any order of arrival: Monotonic forwards exactly
\* the replies that no earlier one of their key was as new as, and Latest emits
\* every error and then one reply of each key, the newest where all of them or none
\* are stamped, keys in the order they were first answered (runMonotonicTranslator,
\* runLatestTranslator).
THEOREM ConsolidatesHolds == ConsolidationSpec => []Consolidates
<1>1. ConsolidationInv => Consolidates
  <2> SUFFICES ASSUME ConsolidationInv PROVE Consolidates
    OBVIOUS
  <2>1. MonotonicReference /\ LatestShape
    BY ShapeFromInv DEF ConsolidationInv
  <2>2. \A k : OfKey(k) = KeyIn(arrived, k)
    BY DEF OfKey, KeyIn, Positions
  <2>3. LatestReference
    BY <2>2 DEF ConsolidationInv, KeepsNewest, LatestReference, IsNewest, NewestIn
  <2> QED BY <2>1, <2>3 DEF Consolidates
<1> QED BY <1>1, InitConsolidation, NextConsolidation, PTL DEF ConsolidationSpec

=============================================================================
